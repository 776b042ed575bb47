----------------------------- MODULE DriveProofs ------------------------------
(***************************************************************************)
(* Theorems about the Player and about what drives it, for every number of *)
(* devices, handlers and requests, every library of valid patterns, every  *)
(* set of bindings and scenarios, and every lag of the clock that no       *)
(* pattern is shorter than.  The Player's own come first and hold whoever  *)
(* calls it; the requests and the tick use it as it promises, so that they *)
(* hold of the daemon; a write is answered after it was applied, and a     *)
(* sweep is judged on its own windows.  Last come those about the climb of *)
(* a sweep: what its rungs are, what their caps do, and that creeping      *)
(* skips none.                                                             *)
(***************************************************************************)
EXTENDS Drive, SweepClimb, FiniteSetTheorems, TLAPS

(***************************************************************************)
(* The Player, whoever calls it.                                           *)
(***************************************************************************)

----------------------------------------------------------------------------
(* Patterns.                                                               *)

\* A pattern lasts; its last keyframe comes after its first.
LEMMA Lasts ==
  ASSUME NEW p \in Library
  PROVE  /\ DurSec(p) \in Nat \ {0} /\ DurSec(p) <= MaxSec /\ Gap <= DurSec(p)
         /\ p.events \in SUBSET Nat /\ p.loop \in BOOLEAN
<1>1. p \in Timelines /\ ValidPattern(p) /\ DurSec(p) >= Gap
  BY LibraryAssumption
<1>2. p.keys \in Seq(Nat) /\ p.events \in SUBSET Nat /\ p.loop \in BOOLEAN
  BY <1>1 DEF Timelines
<1> DEFINE n == Len(p.keys)
<1>3. n \in Nat /\ n >= 2
  BY <1>1, <1>2 DEF ValidPattern
<1>4. p.keys[n] \in Nat /\ p.keys[n - 1] \in Nat
  BY <1>2, <1>3
<1>5. p.keys[n] > p.keys[n - 1] /\ p.keys[n] <= MaxSec
  BY <1>1, <1>3 DEF ValidPattern
<1>6. QED
  BY <1>1, <1>2, <1>4, <1>5, SizeAssumption DEF DurSec

----------------------------------------------------------------------------
(* One run.                                                                *)

States == {"running", "paused", "done"}

\* What a run is; one that is not over stands short of its pattern's end.
IsRun(r) ==
  /\ r = [pat |-> r.pat, state |-> r.state, pos |-> r.pos, lastAt |-> r.lastAt,
          laps |-> r.laps, idx |-> r.idx, group |-> r.group]
  /\ r.pat \in Library /\ r.state \in States
  /\ r.pos \in Nat /\ r.laps \in Nat /\ r.lastAt \in Nat
  /\ r.group \in Groups \cup {NoGroup}
  /\ r.pos <= DurSec(r.pat) /\ (r.state # "done" => r.pos < DurSec(r.pat))

LEMMA RunAlone ==
  ASSUME NEW p \in Library, NEW now \in Nat, NEW group \in Groups \cup {NoGroup}
  PROVE  LET r == NewRun(p, now, group) IN
         /\ IsRun(r) /\ r.state = "running" /\ r.pos = 0 /\ r.laps = 0 /\ r.lastAt = now
         /\ r.group = group /\ r.pat = p
BY Lasts DEF NewRun, IsRun, States

\* A step of a run that is at most a lap long: how far it comes, and whether it
\* goes round.
Far(r, now) == r.pos + (now - r.lastAt)

LEMMA OneStep ==
  ASSUME NEW r, IsRun(r), r.state # "done", NEW now \in Nat, r.lastAt < now,
         now - r.lastAt <= DurSec(r.pat), NEW s, s = Step(r, now).run
  PROVE  LET dur == DurSec(r.pat)
             far == Far(r, now)
         IN  /\ IsRun(s) /\ s.pat = r.pat /\ s.group = r.group /\ s.lastAt = now
             /\ Step(r, now).looped <=> (far >= dur /\ r.pat.loop)
             /\ \/ far < dur /\ s.pos = far /\ s.laps = r.laps /\ s.state = r.state
                \/ /\ far >= dur /\ r.pat.loop
                   /\ s.pos = far - dur /\ s.laps = r.laps + 1 /\ s.state = r.state
                \/ /\ far >= dur /\ ~r.pat.loop
                   /\ s.pos = dur /\ s.laps = r.laps /\ s.state = "done"
<1> DEFINE dur == DurSec(r.pat)
           far == Far(r, now)
           to  == IF far < dur THEN far ELSE IF r.pat.loop THEN far % dur ELSE dur
           laps == IF far >= dur /\ r.pat.loop THEN r.laps + far \div dur ELSE r.laps
           state == IF far >= dur /\ ~r.pat.loop THEN "done" ELSE r.state
           idx == At(r.pat, to)
<1>1. dur \in Nat \ {0} /\ r.pat.loop \in BOOLEAN
  BY Lasts DEF IsRun
<1>2. far \in Nat /\ far < dur + dur /\ r.pos \in Nat /\ r.laps \in Nat
  BY <1>1 DEF IsRun, Far
<1>3. far >= dur => far % dur = far - dur /\ far \div dur = 1
  <2> HIDE DEF dur, far
  <2>1. QED
    BY <1>1, <1>2, Z3
<1>4. s = [r EXCEPT !.lastAt = now, !.pos = to, !.idx = idx, !.laps = laps, !.state = state]
  BY DEF Step, Far
<1> HIDE DEF to, laps, state, idx
<1>5. s = [pat |-> r.pat, state |-> state, pos |-> to, lastAt |-> now,
           laps |-> laps, idx |-> idx, group |-> r.group]
  BY <1>4 DEF IsRun
<1>6. Step(r, now).looped <=> (far >= dur /\ r.pat.loop)
  BY DEF Step, Far
<1> HIDE DEF dur, far
<1>7. /\ to \in Nat /\ to <= dur /\ laps \in Nat /\ state \in States
      /\ state # "done" => to < dur
      /\ \/ far < dur /\ to = far /\ laps = r.laps /\ state = r.state
         \/ far >= dur /\ r.pat.loop /\ to = far - dur /\ laps = r.laps + 1 /\ state = r.state
         \/ far >= dur /\ ~r.pat.loop /\ to = dur /\ laps = r.laps /\ state = "done"
  <2>1. r.state \in {"running", "paused"}
    BY DEF IsRun, States
  <2>2. CASE far < dur
    BY <1>1, <1>2, <2>1, <2>2 DEF to, laps, state, States
  <2>3. CASE far >= dur /\ r.pat.loop
    BY <1>1, <1>2, <1>3, <2>1, <2>3 DEF to, laps, state, States
  <2>4. CASE far >= dur /\ ~r.pat.loop
    BY <1>1, <1>2, <2>1, <2>4 DEF to, laps, state, States
  <2>5. QED
    BY <1>1, <1>2, <2>2, <2>3, <2>4
<1>8. IsRun(s)
  BY <1>5, <1>7 DEF IsRun, dur
<1>9. QED
  BY <1>5, <1>6, <1>7, <1>8 DEF dur, far

LEMMA OneLapMore ==
  ASSUME NEW n \in Nat, NEW d \in Nat, NEW m, m = n + 1
  PROVE  m * d = n * d + d /\ n * d \in Nat
OBVIOUS

LEMMA CoversIt ==
  ASSUME NEW r, IsRun(r), r.state # "done", NEW now \in Nat, r.lastAt < now,
         now - r.lastAt <= DurSec(r.pat), NEW s, s = Step(r, now).run, s.state # "done"
  PROVE  Covered(s) = Covered(r) + (now - r.lastAt)
<1> DEFINE dur == DurSec(r.pat)
<1>1. /\ s.pat = r.pat
      /\ \/ s.pos = Far(r, now) /\ s.laps = r.laps
         \/ s.pos = Far(r, now) - dur /\ s.laps = r.laps + 1
  BY OneStep
<1>2. dur \in Nat /\ r.pos \in Nat /\ r.laps \in Nat /\ r.lastAt \in Nat
  BY Lasts DEF IsRun
<1>3. Covered(s) = s.laps * dur + s.pos /\ Covered(r) = r.laps * dur + r.pos
  BY <1>1 DEF Covered
<1>4. ASSUME NEW n, n = r.laps PROVE n * dur \in Nat /\ \A m : m = n + 1 => m * dur = n * dur + dur
  <2> HIDE DEF dur
  <2>1. n \in Nat /\ dur \in Nat
    BY <1>2, <1>4
  <2> QED BY <2>1, OneLapMore
<1> DEFINE before == r.laps * dur
           after  == s.laps * dur
<1>5. /\ before \in Nat /\ Covered(s) = after + s.pos /\ Covered(r) = before + r.pos
      /\ \/ s.pos = Far(r, now) /\ after = before
         \/ s.pos = Far(r, now) - dur /\ after = before + dur
  BY <1>1, <1>3, <1>4
<1> HIDE DEF dur, before, after
<1>6. QED
  BY <1>2, <1>5 DEF Far

\* How far a tick moves a running run: not at all when its clock is behind.
Moves(r, now) == IF now <= r.lastAt THEN 0 ELSE now - r.lastAt

\* What Advance makes of a run: moved back to an earlier clock, or a step.
LEMMA OneAdvance ==
  ASSUME NEW r, IsRun(r), r.state = "running", NEW now \in Nat,
         now - r.lastAt <= DurSec(r.pat)
  PROVE  LET s == Advanced(r, now) IN
         /\ IsRun(s) /\ s.pat = r.pat /\ s.group = r.group /\ s.lastAt = now
         /\ s.state \in {"running", "done"}
         /\ s.state = "running" =>
              Covered(s) = Covered(r) + Moves(r, now)
<1>1. CASE now <= r.lastAt
  <2> DEFINE s == [r EXCEPT !.lastAt = now]
  <2>1. Advanced(r, now) = s
    BY <1>1 DEF Advanced
  <2>2. s = [pat |-> r.pat, state |-> r.state, pos |-> r.pos, lastAt |-> now,
             laps |-> r.laps, idx |-> r.idx, group |-> r.group]
    BY DEF IsRun
  <2> HIDE DEF s
  <2>3. IsRun(s) /\ s.pat = r.pat /\ s.group = r.group /\ s.lastAt = now
        /\ s.state = "running" /\ s.pos = r.pos /\ s.laps = r.laps
    BY <2>2 DEF IsRun
  <2>4. Covered(s) = Covered(r) /\ Covered(r) \in Nat
    <3>1. DurSec(r.pat) \in Nat /\ r.laps \in Nat /\ r.pos \in Nat
      BY Lasts DEF IsRun
    <3>2. r.laps * DurSec(r.pat) + r.pos \in Nat
      BY <3>1
    <3>3. QED
      BY <2>3, <3>2 DEF Covered
  <2>5. QED
    BY <1>1, <2>1, <2>3, <2>4 DEF Moves
<1>2. CASE ~(now <= r.lastAt)
  <2>1. r.lastAt < now /\ r.lastAt \in Nat
    BY <1>2 DEF IsRun
  <2> DEFINE s == Advanced(r, now)
  <2>2. s = Step(r, now).run
    BY <1>2 DEF Advanced
  <2> HIDE DEF s
  <2>3. /\ IsRun(s) /\ s.pat = r.pat /\ s.group = r.group /\ s.lastAt = now
        /\ s.state \in {"running", "done"}
    BY <2>1, <2>2, OneStep
  <2>4. s.state = "running" => Covered(s) = Covered(r) + (now - r.lastAt)
    BY <2>1, <2>2, CoversIt
  <2>5. QED
    BY <1>2, <2>3, <2>4 DEF Moves, s
<1>3. QED
  BY <1>1, <1>2

----------------------------------------------------------------------------
(* The Player's runs, and how far they lag.                                *)

RunsOK  == \A b \in Bindings : runs[b] # NoRun => IsRun(runs[b])
ClockOK == clock \in Nat /\ \A b \in Bindings : Running(b) =>
             runs[b].lastAt <= clock /\ clock - runs[b].lastAt <= Gap
PlayerInv == RunsOK /\ ClockOK

LEMMA InitPlayer == PlayerInit => PlayerInv /\ Lockstep /\ OncePerPass
BY DEF PlayerInit, PlayerInv, RunsOK, ClockOK, Running, Lockstep, OncePerPass

\* No tick is longer than a lap.
LEMMA ShortTick ==
  ASSUME PlayerInv, NEW now \in Nat, now <= clock, clock - now <= Gap,
         NEW b \in Bindings, Running(b)
  PROVE  /\ IsRun(runs[b]) /\ runs[b].state = "running"
         /\ now - runs[b].lastAt <= DurSec(runs[b].pat)
<1>1. IsRun(runs[b]) /\ runs[b].state = "running" /\ clock \in Nat
      /\ runs[b].lastAt <= clock /\ clock - runs[b].lastAt <= Gap
  BY DEF PlayerInv, RunsOK, ClockOK, Running
<1>2. runs[b].lastAt \in Nat /\ DurSec(runs[b].pat) \in Nat /\ Gap <= DurSec(runs[b].pat)
  BY <1>1, Lasts DEF IsRun
<1>3. QED
  BY <1>1, <1>2, SizeAssumption

\* The pattern each member of a start gets is one of the library.
Supplied(members, pats) == \A b \in members : pats[b] \in Library

\* A step of the Player, whoever makes it, in one of eight forms.
LEMMA PlayerSteps ==
  ASSUME PlayerInv, PlayerNext
  PROVE  \/ Wait
         \/ \E now \in Nat : now <= clock /\ clock - now <= Gap /\ Advance(now)
         \/ \E now \in Nat, b \in Bindings : now <= clock /\ clock - now <= Gap /\ Resume(b, now)
         \/ \E b \in Bindings : Stop(b) \/ Pause(b)
         \/ \E pats : \E now \in Nat, members \in SUBSET Bindings, g \in Groups \cup {NoGroup} :
              /\ now <= clock /\ clock - now <= Gap /\ Supplied(members, pats)
              /\ Begin(members, pats, now, g)
              /\ g = NoGroup \/ \A b \in Bindings : runs[b] # NoRun => runs[b].group # g
<1>1. clock \in Nat /\ Gap \in Nat
  BY SizeAssumption DEF PlayerInv, ClockOK
<1>2. CASE Wait \/ \E b \in Bindings : Stop(b) \/ Pause(b)
  BY <1>2
<1>3. ASSUME NEW now \in (clock - Gap)..clock, now >= 0,
             \/ Advance(now)
             \/ \E b \in Bindings :
                  \/ Resume(b, now)
                  \/ \E p \in Library : Start(b, p, now)
             \/ \E members \in SUBSET Bindings, g \in Groups : \E pats \in [members -> Library] :
                  StartGroup(members, pats, now, g)
      PROVE  \/ Advance(now)
             \/ \E b \in Bindings : Resume(b, now)
             \/ \E pats : \E members \in SUBSET Bindings, g \in Groups \cup {NoGroup} :
                  /\ Supplied(members, pats) /\ Begin(members, pats, now, g)
                  /\ g = NoGroup \/ \A b \in Bindings : runs[b] # NoRun => runs[b].group # g
  <2>1. CASE Advance(now) \/ \E b \in Bindings : Resume(b, now)
    BY <2>1
  <2>2. ASSUME NEW b \in Bindings, NEW p \in Library, Start(b, p, now)
        PROVE  \E pats : \E members \in SUBSET Bindings :
                  Supplied(members, pats) /\ Begin(members, pats, now, NoGroup)
    <3>1. Supplied({b}, [o \in Bindings |-> p]) /\ {b} \in SUBSET Bindings
      BY DEF Supplied
    <3>2. QED
      BY <2>2, <3>1 DEF Start
  <2>3. ASSUME NEW members \in SUBSET Bindings, NEW g \in Groups,
               NEW pats \in [members -> Library], StartGroup(members, pats, now, g)
        PROVE  /\ Supplied(members, pats) /\ Begin(members, pats, now, g)
               /\ \A b \in Bindings : runs[b] # NoRun => runs[b].group # g
    BY <2>3 DEF StartGroup, Supplied
  <2>4. QED
    BY <1>3, <2>1, <2>2, <2>3
<1>4. \A now \in (clock - Gap)..clock : now >= 0 =>
        now \in Nat /\ now <= clock /\ clock - now <= Gap
  BY <1>1
<1>5. QED
  BY <1>2, <1>3, <1>4 DEF PlayerNext

LEMMA BeginsRuns ==
  ASSUME PlayerInv, NEW now \in Nat, NEW members \in SUBSET Bindings, NEW pats,
         NEW g \in Groups \cup {NoGroup}, Supplied(members, pats), Begin(members, pats, now, g)
  PROVE  /\ \A b \in members :
              /\ runs'[b] # NoRun => IsRun(runs'[b])
              /\ runs'[b] = NewRun(pats[b], now, g)
              /\ runs'[b].state = "running" /\ runs'[b].lastAt = now /\ runs'[b].pos = 0
              /\ runs'[b].laps = 0 /\ runs'[b].group = g /\ fired'[b] = Silent
         /\ \A b \in Bindings \ members : runs'[b] = runs[b] /\ fired'[b] = fired[b]
         /\ clock' = clock
<1>1. \A b \in members : runs'[b] = NewRun(pats[b], now, g) /\ fired'[b] = Silent
  BY DEF Begin
<1>2. \A b \in members :
        LET r == NewRun(pats[b], now, g) IN
        /\ IsRun(r) /\ r.state = "running" /\ r.pos = 0 /\ r.laps = 0 /\ r.lastAt = now
        /\ r.group = g /\ r.pat = pats[b]
  BY RunAlone DEF Supplied
<1>3. QED
  BY <1>1, <1>2 DEF Begin

LEMMA AdvancesRuns ==
  ASSUME PlayerInv, NEW now \in Nat, now <= clock, clock - now <= Gap, Advance(now)
  PROVE  /\ clock' = clock
         /\ \A b \in Bindings : ~Running(b) => runs'[b] = runs[b]
         /\ \A b \in Bindings : Running(b) =>
              /\ runs'[b] = Advanced(runs[b], now)
              /\ IsRun(runs'[b]) /\ runs'[b].pat = runs[b].pat
              /\ runs'[b].group = runs[b].group /\ runs'[b].lastAt = now
              /\ runs'[b].state \in {"running", "done"}
              /\ runs'[b].state = "running" =>
                   Covered(runs'[b]) = Covered(runs[b]) + Moves(runs[b], now)
<1>1. \A b \in Bindings : Running(b) =>
        /\ IsRun(runs[b]) /\ runs[b].state = "running"
        /\ now - runs[b].lastAt <= DurSec(runs[b].pat)
  BY ShortTick
<1>2. \A b \in Bindings : Running(b) =>
        LET s == Advanced(runs[b], now) IN
        /\ IsRun(s) /\ s.pat = runs[b].pat /\ s.group = runs[b].group /\ s.lastAt = now
        /\ s.state \in {"running", "done"}
        /\ s.state = "running" =>
             Covered(s) = Covered(runs[b]) + Moves(runs[b], now)
  BY <1>1, OneAdvance
<1>3. /\ clock' = clock
      /\ \A b \in Bindings : runs'[b] = IF Running(b) THEN Advanced(runs[b], now) ELSE runs[b]
  BY DEF Advance
<1>4. QED
  BY <1>2, <1>3

\* A pause or a resume changes what a run is doing, and from when.
To(r, state, at) == [r EXCEPT !.state = state, !.lastAt = at]

LEMMA Restated ==
  ASSUME NEW r, IsRun(r), r.state # "done", NEW state \in {"running", "paused"},
         NEW at \in Nat
  PROVE  LET s == To(r, state, at) IN
         /\ IsRun(s) /\ s.pat = r.pat /\ s.pos = r.pos /\ s.laps = r.laps
         /\ s.group = r.group /\ s.state = state /\ s.lastAt = at
<1> DEFINE s == To(r, state, at)
           f == [pat |-> r.pat, state |-> r.state, pos |-> r.pos, lastAt |-> r.lastAt,
                 laps |-> r.laps, idx |-> r.idx, group |-> r.group]
<1>1. s = [pat |-> r.pat, state |-> state, pos |-> r.pos, lastAt |-> at,
           laps |-> r.laps, idx |-> r.idx, group |-> r.group]
  <2>1. s = [f EXCEPT !.state = state, !.lastAt = at]
    BY Zenon DEF IsRun, To
  <2> HIDE DEF s
  <2>2. QED
    BY <2>1
<1> HIDE DEF s
<1>2. QED
  BY <1>1 DEF IsRun, States, s

LEMMA ResumesRuns ==
  ASSUME PlayerInv, NEW now \in Nat, NEW b \in Bindings, Resume(b, now)
  PROVE  /\ clock' = clock /\ fired' = fired
         /\ \A o \in Bindings : ~(o \in GroupOf(b) /\ Paused(o)) => runs'[o] = runs[o]
         /\ \A o \in Bindings : o \in GroupOf(b) /\ Paused(o) =>
              /\ IsRun(runs'[o]) /\ runs'[o].pat = runs[o].pat /\ runs'[o].pos = runs[o].pos
              /\ runs'[o].laps = runs[o].laps /\ runs'[o].group = runs[o].group
              /\ runs'[o].state = "running" /\ runs'[o].lastAt = now
<1>1. \A o \in Bindings : Paused(o) => IsRun(runs[o]) /\ runs[o].state = "paused"
  BY DEF PlayerInv, RunsOK, Paused
<1>2. \A o \in Bindings : Paused(o) =>
        LET s == To(runs[o], "running", now) IN
        /\ IsRun(s) /\ s.pat = runs[o].pat /\ s.pos = runs[o].pos /\ s.laps = runs[o].laps
        /\ s.group = runs[o].group /\ s.state = "running" /\ s.lastAt = now
  BY <1>1, Restated
<1>3. /\ clock' = clock /\ fired' = fired
      /\ \A o \in Bindings : runs'[o] =
           IF o \in GroupOf(b) /\ Paused(o) THEN To(runs[o], "running", now) ELSE runs[o]
  BY DEF Resume, To
<1>4. QED
  BY <1>2, <1>3

LEMMA PausesRuns ==
  ASSUME PlayerInv, NEW b \in Bindings, Pause(b)
  PROVE  /\ clock' = clock /\ fired' = fired
         /\ \A o \in Bindings : ~(o \in GroupOf(b) /\ Running(o)) => runs'[o] = runs[o]
         /\ \A o \in Bindings : o \in GroupOf(b) /\ Running(o) =>
              /\ IsRun(runs'[o]) /\ runs'[o].pat = runs[o].pat /\ runs'[o].pos = runs[o].pos
              /\ runs'[o].laps = runs[o].laps /\ runs'[o].group = runs[o].group
              /\ runs'[o].state = "paused"
<1>1. \A o \in Bindings : Running(o) => IsRun(runs[o]) /\ runs[o].state = "running"
  BY DEF PlayerInv, RunsOK, Running
<1>2. \A o \in Bindings : Running(o) =>
        LET s == [runs[o] EXCEPT !.state = "paused"] IN
        /\ IsRun(s) /\ s.pat = runs[o].pat /\ s.pos = runs[o].pos /\ s.laps = runs[o].laps
        /\ s.group = runs[o].group /\ s.state = "paused"
  <2> SUFFICES ASSUME NEW o \in Bindings, Running(o)
               PROVE  LET s == [runs[o] EXCEPT !.state = "paused"] IN
        /\ IsRun(s) /\ s.pat = runs[o].pat /\ s.pos = runs[o].pos /\ s.laps = runs[o].laps
        /\ s.group = runs[o].group /\ s.state = "paused"
    OBVIOUS
  <2> DEFINE r == runs[o]
             s == [r EXCEPT !.state = "paused"]
  <2>1. IsRun(r) /\ r.state = "running"
    BY <1>1
  <2> HIDE DEF r
  <2>2. s = [pat |-> r.pat, state |-> "paused", pos |-> r.pos, lastAt |-> r.lastAt,
             laps |-> r.laps, idx |-> r.idx, group |-> r.group]
    BY <2>1 DEF IsRun
  <2> HIDE DEF s
  <2>3. IsRun(s) /\ s.pat = r.pat /\ s.pos = r.pos /\ s.laps = r.laps
        /\ s.group = r.group /\ s.state = "paused"
    BY <2>1, <2>2 DEF IsRun, States
  <2>4. QED
    BY <2>3 DEF s, r
<1>3. /\ clock' = clock /\ fired' = fired
      /\ \A o \in Bindings : runs'[o] =
           IF o \in GroupOf(b) /\ Running(o)
           THEN [runs[o] EXCEPT !.state = "paused"] ELSE runs[o]
  BY DEF Pause
<1>4. QED
  BY <1>2, <1>3

LEMMA StopsRuns ==
  ASSUME NEW b \in Bindings, Stop(b)
  PROVE  /\ clock' = clock /\ fired' = fired
         /\ \A o \in Bindings : runs'[o] \in {runs[o], NoRun}
BY DEF Stop

----------------------------------------------------------------------------
(* What every step of the Player preserves.                                *)

LEMMA KeepsPlayerInv ==
  ASSUME PlayerInv, PlayerNext
  PROVE  PlayerInv'
<1>0. clock \in Nat /\ Gap \in Nat
  BY SizeAssumption DEF PlayerInv, ClockOK
<1>1. CASE Wait
  <2>1. runs' = runs /\ clock' = clock + 1
    BY <1>1 DEF Wait
  <2>2. RunsOK'
    BY <2>1 DEF RunsOK, PlayerInv
  <2>3. ASSUME NEW b \in Bindings, Running(b)'
        PROVE  runs[b].lastAt <= clock + 1 /\ (clock + 1) - runs[b].lastAt <= Gap
    <3>1. Running(b) /\ runs[b].lastAt \in Nat /\ runs[b].lastAt <= clock
      BY <2>1, <2>3 DEF Running, PlayerInv, RunsOK, ClockOK, IsRun
    <3>2. clock - runs[b].lastAt < Gap
      BY <1>1, <3>1 DEF Wait
    <3>3. QED
      BY <1>0, <3>1, <3>2
  <2>4. QED
    BY <1>0, <2>1, <2>2, <2>3 DEF PlayerInv, ClockOK
<1>2. ASSUME NEW now \in Nat, now <= clock, clock - now <= Gap, Advance(now)
      PROVE  PlayerInv'
  BY <1>2, AdvancesRuns DEF PlayerInv, RunsOK, ClockOK, Running
<1>3. ASSUME NEW now \in Nat, NEW b \in Bindings, now <= clock, clock - now <= Gap,
             Resume(b, now)
      PROVE  PlayerInv'
  BY <1>3, ResumesRuns DEF PlayerInv, RunsOK, ClockOK, Running
<1>4. ASSUME NEW b \in Bindings, Stop(b)
      PROVE  PlayerInv'
  BY <1>4, StopsRuns DEF PlayerInv, RunsOK, ClockOK, Running
<1>5. ASSUME NEW b \in Bindings, Pause(b)
      PROVE  PlayerInv'
  BY <1>5, PausesRuns DEF PlayerInv, RunsOK, ClockOK, Running
<1>6. ASSUME NEW now \in Nat, NEW members \in SUBSET Bindings, NEW pats,
             NEW g \in Groups \cup {NoGroup}, now <= clock, clock - now <= Gap,
             Supplied(members, pats), Begin(members, pats, now, g)
      PROVE  PlayerInv'
  <2>1. \A b \in Bindings : b \in members \/ b \in Bindings \ members
    OBVIOUS
  <2>2. QED
    BY <1>6, <2>1, BeginsRuns DEF PlayerInv, RunsOK, ClockOK, Running
<1>7. QED
  BY <1>1, <1>2, <1>3, <1>4, <1>5, <1>6, PlayerSteps

\* The members of one scenario that are still playing.
Together(a, b) ==
  /\ runs[a] # NoRun /\ runs[b] # NoRun
  /\ runs[a].group = runs[b].group /\ runs[a].group # NoGroup
  /\ runs[a].state # "done" /\ runs[b].state # "done"
Level(a, b) ==
  /\ runs[a].state = runs[b].state
  /\ runs[a].state = "running" => runs[a].lastAt = runs[b].lastAt
  /\ Covered(runs[a]) = Covered(runs[b])

LEMMA LockstepIsLevel == Lockstep <=> \A a, b \in Bindings : Together(a, b) => Level(a, b)
BY DEF Lockstep, Together, Level

LEMMA KeepsLockstep ==
  ASSUME PlayerInv, Lockstep, PlayerNext
  PROVE  Lockstep'
<1>0. \A a, b \in Bindings : Together(a, b) => Level(a, b)
  BY LockstepIsLevel
<1>a. SUFFICES ASSUME NEW a \in Bindings, NEW b \in Bindings, Together(a, b)'
               PROVE  Level(a, b)'
  BY DEF Lockstep, Together, Level
<1>1. CASE Wait
  BY <1>0, <1>a, <1>1 DEF Wait, Together, Level
<1>2. ASSUME NEW now \in Nat, now <= clock, clock - now <= Gap, Advance(now)
      PROVE  Level(a, b)'
  <2>1. Together(a, b)
    BY <1>a, <1>2, AdvancesRuns DEF Together, Running
  <2>2. Level(a, b)
    BY <1>0, <2>1
  <2>3. CASE runs[a].state = "running"
    <3>1. Running(a) /\ Running(b) /\ Moves(runs[a], now) = Moves(runs[b], now)
      BY <2>1, <2>2, <2>3 DEF Together, Level, Running, Moves
    <3>2. runs'[a].state = "running" /\ runs'[b].state = "running"
      BY <1>2, <1>a, <3>1, AdvancesRuns DEF Together
    <3>3. QED
      BY <1>2, <2>2, <3>1, <3>2, AdvancesRuns DEF Level
  <2>4. CASE runs[a].state # "running"
    <3>1. runs'[a] = runs[a] /\ runs'[b] = runs[b]
      BY <1>2, <2>1, <2>2, <2>4, AdvancesRuns DEF Together, Level, Running
    <3>2. QED
      BY <2>2, <3>1 DEF Level
  <2>5. QED
    BY <2>3, <2>4
<1>3. ASSUME NEW now \in Nat, NEW x \in Bindings, now <= clock, clock - now <= Gap,
             Resume(x, now)
      PROVE  Level(a, b)'
  <2>1. Together(a, b)
    BY <1>a, <1>3, ResumesRuns DEF Together, Paused
  <2>2. Level(a, b)
    BY <1>0, <2>1
  <2>3. a \in GroupOf(x) <=> b \in GroupOf(x)
    BY <2>1 DEF Together, GroupOf
  <2>4. Paused(a) <=> Paused(b)
    BY <2>1, <2>2 DEF Together, Level, Paused
  <2>5. CASE a \in GroupOf(x) /\ Paused(a)
    <3>1. b \in GroupOf(x) /\ Paused(b)
      BY <2>3, <2>4, <2>5
    <3>2. QED
      BY <1>3, <2>2, <2>5, <3>1, ResumesRuns DEF Level, Covered
  <2>6. CASE ~(a \in GroupOf(x) /\ Paused(a))
    BY <1>3, <2>2, <2>3, <2>4, <2>6, ResumesRuns DEF Level
  <2>7. QED
    BY <2>5, <2>6
<1>4. ASSUME NEW x \in Bindings, Stop(x)
      PROVE  Level(a, b)'
  <2>1. runs'[a] = runs[a] /\ runs'[b] = runs[b]
    BY <1>a, <1>4, StopsRuns DEF Together
  <2>2. QED
    BY <1>0, <1>a, <2>1 DEF Together, Level
<1>5. ASSUME NEW x \in Bindings, Pause(x)
      PROVE  Level(a, b)'
  <2>1. Together(a, b)
    BY <1>a, <1>5, PausesRuns DEF Together, Running
  <2>2. Level(a, b)
    BY <1>0, <2>1
  <2>3. a \in GroupOf(x) <=> b \in GroupOf(x)
    BY <2>1 DEF Together, GroupOf
  <2>4. Running(a) <=> Running(b)
    BY <2>1, <2>2 DEF Together, Level, Running
  <2>5. CASE a \in GroupOf(x) /\ Running(a)
    <3>1. b \in GroupOf(x) /\ Running(b)
      BY <2>3, <2>4, <2>5
    <3>2. QED
      BY <1>5, <2>2, <2>5, <3>1, PausesRuns DEF Level, Covered
  <2>6. CASE ~(a \in GroupOf(x) /\ Running(a))
    BY <1>5, <2>2, <2>3, <2>4, <2>6, PausesRuns DEF Level
  <2>7. QED
    BY <2>5, <2>6
<1>6. ASSUME NEW now \in Nat, NEW members \in SUBSET Bindings, NEW pats,
             NEW g \in Groups \cup {NoGroup}, now <= clock, clock - now <= Gap,
             Supplied(members, pats), Begin(members, pats, now, g),
             g = NoGroup \/ \A o \in Bindings : runs[o] # NoRun => runs[o].group # g
      PROVE  Level(a, b)'
  <2>1. \A o \in members : runs'[o].state = "running" /\ runs'[o].lastAt = now
          /\ runs'[o].group = g /\ Covered(runs'[o]) = 0
    <3>1. \A o \in members : /\ runs'[o] = NewRun(pats[o], now, g)
                             /\ runs'[o].state = "running" /\ runs'[o].lastAt = now
                             /\ runs'[o].group = g
      BY <1>6, BeginsRuns
    <3>2. \A o \in members : Covered(NewRun(pats[o], now, g)) = 0
      <4>1. \A o \in members : DurSec(pats[o]) \in Nat
        BY <1>6, Lasts DEF Supplied
      <4>2. QED
        BY <4>1 DEF Covered, NewRun
    <3>3. QED
      BY <3>1, <3>2
  <2>2. \A o \in Bindings \ members : runs'[o] = runs[o]
    BY <1>6, BeginsRuns
  <2>3. CASE a \in members /\ b \in members
    BY <2>1, <2>3 DEF Level
  <2>4. CASE a \notin members /\ b \notin members
    BY <1>0, <1>a, <2>2, <2>4 DEF Level, Together
  <2>5. CASE (a \in members) # (b \in members)
    BY <1>6, <1>a, <2>1, <2>2, <2>5 DEF Together
  <2>6. QED
    BY <2>3, <2>4, <2>5
<1>7. QED
  BY <1>1, <1>2, <1>3, <1>4, <1>5, <1>6, PlayerSteps

\* How often a run has been over a moment of its pattern.
Passes(r, t) == r.laps + (IF r.pos >= t THEN 1 ELSE 0)

\* A tick that is at most a lap long fires an event exactly when it passes it.
LEMMA FiresOnPassing ==
  ASSUME NEW r, IsRun(r), r.state = "running", NEW now \in Nat,
         now - r.lastAt <= DurSec(r.pat),
         NEW t \in r.pat.events, t > 0, t <= DurSec(r.pat)
  PROVE  Passes(Advanced(r, now), t) = Passes(r, t) + (IF t \in Fired(r, now) THEN 1 ELSE 0)
<1> DEFINE dur == DurSec(r.pat)
           s   == Advanced(r, now)
<1>1. /\ dur \in Nat \ {0} /\ t \in Nat /\ r.pos \in Nat /\ r.laps \in Nat /\ r.lastAt \in Nat
      /\ r.pos < dur /\ r.pat.loop \in BOOLEAN
  <2>1. r.pat \in Library /\ r.pos \in Nat /\ r.laps \in Nat /\ r.lastAt \in Nat /\ r.pos < dur
    BY DEF IsRun
  <2>2. QED
    BY <2>1, Lasts
<1>2. CASE now <= r.lastAt
  <2>1. s.pos = r.pos /\ s.laps = r.laps
    <3>1. s = [r EXCEPT !.lastAt = now]
      BY <1>2 DEF Advanced
    <3> HIDE DEF s
    <3>2. QED
      BY <3>1 DEF IsRun
  <2>2. Fired(r, now) = {}
    BY <1>2 DEF Fired
  <2> HIDE DEF s
  <2>3. QED
    BY <1>1, <2>1, <2>2 DEF Passes, s
<1>3. CASE ~(now <= r.lastAt)
  <2> DEFINE far == Far(r, now)
  <2>1. r.lastAt < now /\ s = Step(r, now).run
    BY <1>1, <1>3 DEF Advanced
  <2>2. far \in Nat /\ far <= r.pos + dur
    BY <1>1, <2>1 DEF Far
  <2>3. t \in Fired(r, now) <=> Crossed(r.pos, s.pos, Step(r, now).looped, dur, t)
    BY <1>3, <2>1 DEF Fired, Fires
  <2> HIDE DEF s, far, dur
  <2>4. /\ Step(r, now).looped <=> (far >= dur /\ r.pat.loop)
        /\ \/ far < dur /\ s.pos = far /\ s.laps = r.laps
           \/ far >= dur /\ r.pat.loop /\ s.pos = far - dur /\ s.laps = r.laps + 1
           \/ far >= dur /\ ~r.pat.loop /\ s.pos = dur /\ s.laps = r.laps
    BY <2>1, OneStep DEF far, dur
  <2>5. CASE far < dur
    <3>1. ~Step(r, now).looped /\ s.pos = far /\ s.laps = r.laps
      BY <1>1, <2>2, <2>4, <2>5
    <3>2. t \in Fired(r, now) <=> r.pos < t /\ t <= far
      BY <2>3, <3>1 DEF Crossed
    <3>3. far >= r.pos
      BY <1>1, <2>1 DEF Far, far
    <3>4. QED
      BY <1>1, <2>2, <3>1, <3>2, <3>3 DEF Passes, s
  <2>6. CASE far >= dur /\ r.pat.loop
    <3>1. Step(r, now).looped /\ s.pos = far - dur /\ s.laps = r.laps + 1
      BY <1>1, <2>2, <2>4, <2>6
    <3>2. t \in Fired(r, now) <=> r.pos < t \/ t <= far - dur
      BY <2>3, <3>1 DEF Crossed, dur
    <3>3. QED
      BY <1>1, <2>2, <2>6, <3>1, <3>2 DEF Passes, s
  <2>7. CASE far >= dur /\ ~r.pat.loop
    <3>1. ~Step(r, now).looped /\ s.pos = dur /\ s.laps = r.laps
      BY <1>1, <2>2, <2>4, <2>7
    <3>2. t \in Fired(r, now) <=> r.pos < t
      BY <2>3, <3>1 DEF Crossed, dur
    <3>3. t <= dur
      BY DEF dur
    <3>4. QED
      BY <1>1, <3>1, <3>2, <3>3 DEF Passes, s
  <2>8. QED
    BY <1>1, <2>2, <2>5, <2>6, <2>7
<1>4. QED
  BY <1>2, <1>3

LEMMA KeepsOncePerPass ==
  ASSUME PlayerInv, OncePerPass, PlayerNext
  PROVE  OncePerPass'
<1>a. SUFFICES ASSUME NEW b \in Bindings, runs'[b] # NoRun, NEW t \in runs'[b].pat.events,
                      t > 0, t <= DurSec(runs'[b].pat)
               PROVE  fired'[b][t] = Passes(runs'[b], t)
  BY DEF OncePerPass, Passes
<1>0. runs[b] # NoRun /\ t \in runs[b].pat.events /\ t <= DurSec(runs[b].pat)
        => fired[b][t] = Passes(runs[b], t)
  BY <1>a DEF OncePerPass, Passes
<1>1. CASE Wait
  BY <1>0, <1>1, <1>a DEF Wait
<1>b. t \in 0..MaxSec
  <2>1. IsRun(runs'[b])
    BY <1>a, KeepsPlayerInv DEF PlayerInv, RunsOK
  <2>2. QED
    BY <1>a, <2>1, Lasts, SizeAssumption DEF IsRun
<1>2. ASSUME NEW now \in Nat, now <= clock, clock - now <= Gap, Advance(now)
      PROVE  fired'[b][t] = Passes(runs'[b], t)
  <2>1. fired'[b][t] = fired[b][t] + (IF Running(b) /\ t \in Fired(runs[b], now) THEN 1 ELSE 0)
    BY <1>2, <1>b DEF Advance
  <2>2. CASE Running(b)
    <3>1. /\ runs'[b] = Advanced(runs[b], now) /\ runs'[b].pat = runs[b].pat
          /\ runs[b] # NoRun
      BY <1>2, <2>2, AdvancesRuns DEF Running
    <3>2. fired[b][t] = Passes(runs[b], t)
      BY <1>0, <1>a, <3>1
    <3>3. Passes(runs'[b], t) = Passes(runs[b], t) + (IF t \in Fired(runs[b], now) THEN 1 ELSE 0)
      <4>1. /\ IsRun(runs[b]) /\ runs[b].state = "running"
            /\ now - runs[b].lastAt <= DurSec(runs[b].pat)
        BY <1>2, <2>2, ShortTick
      <4>2. QED
        BY <1>a, <3>1, <4>1, FiresOnPassing
    <3>4. QED
      BY <2>1, <2>2, <3>2, <3>3
  <2>3. CASE ~Running(b)
    <3>1. runs'[b] = runs[b]
      BY <1>2, <2>3, AdvancesRuns
    <3>2. fired[b][t] = Passes(runs[b], t) /\ IsRun(runs[b])
      BY <1>0, <1>a, <3>1 DEF PlayerInv, RunsOK
    <3>3. Passes(runs[b], t) \in Nat
      BY <3>2 DEF Passes, IsRun
    <3>4. QED
      BY <2>1, <2>3, <3>1, <3>2, <3>3
  <2>4. QED
    BY <2>2, <2>3
<1>3. ASSUME NEW now \in Nat, NEW x \in Bindings, Resume(x, now)
      PROVE  fired'[b][t] = Passes(runs'[b], t)
  <2>1. CASE b \in GroupOf(x) /\ Paused(b)
    BY <1>0, <1>3, <1>a, <2>1, ResumesRuns DEF Paused, Passes
  <2>2. CASE ~(b \in GroupOf(x) /\ Paused(b))
    BY <1>0, <1>3, <1>a, <2>2, ResumesRuns
  <2>3. QED
    BY <2>1, <2>2
<1>4. ASSUME NEW x \in Bindings, Stop(x)
      PROVE  fired'[b][t] = Passes(runs'[b], t)
  BY <1>0, <1>4, <1>a, StopsRuns
<1>5. ASSUME NEW x \in Bindings, Pause(x)
      PROVE  fired'[b][t] = Passes(runs'[b], t)
  <2>1. CASE b \in GroupOf(x) /\ Running(b)
    BY <1>0, <1>5, <1>a, <2>1, PausesRuns DEF Running, Passes
  <2>2. CASE ~(b \in GroupOf(x) /\ Running(b))
    BY <1>0, <1>5, <1>a, <2>2, PausesRuns
  <2>3. QED
    BY <2>1, <2>2
<1>6. ASSUME NEW now \in Nat, NEW members \in SUBSET Bindings, NEW pats,
             NEW g \in Groups \cup {NoGroup}, Supplied(members, pats),
             Begin(members, pats, now, g)
      PROVE  fired'[b][t] = Passes(runs'[b], t)
  <2>1. CASE b \in members
    <3>1. fired'[b] = Silent /\ runs'[b].laps = 0 /\ runs'[b].pos = 0
      BY <1>6, <2>1, BeginsRuns
    <3>2. fired'[b][t] = 0
      BY <1>b, <3>1 DEF Silent
    <3>3. QED
      BY <1>a, <1>b, <3>1, <3>2 DEF Passes
  <2>2. CASE b \notin members
    BY <1>0, <1>6, <1>a, <2>2, BeginsRuns
  <2>3. QED
    BY <2>1, <2>2
<1>7. QED
  BY <1>1, <1>2, <1>3, <1>4, <1>5, <1>6, PlayerSteps

LEMMA PlayerStutters ==
  ASSUME UNCHANGED playerVars
  PROVE  /\ PlayerInv => PlayerInv'
         /\ Lockstep => Lockstep'
         /\ OncePerPass => OncePerPass'
BY DEF playerVars, PlayerInv, RunsOK, ClockOK, Running, Lockstep, OncePerPass

----------------------------------------------------------------------------

\* Every run is one of a pattern of the library and short of its end until it is
\* over, and no tick comes later than one lap after the last (tick, Player.Advance).
THEOREM PlayerOK == PlayerSpec => []PlayerInv
<1>1. PlayerInv /\ [PlayerNext]_playerVars => PlayerInv'
  BY KeepsPlayerInv, PlayerStutters
<1>2. QED
  BY <1>1, InitPlayer, PTL DEF PlayerSpec

\* The members of a scenario that are still playing stand at the same moment of it
\* (StartGroup, PauseGroup, ResumeGroup, Advance).
THEOREM PlaysInLockstep == PlayerSpec => []Lockstep
<1>1. PlayerInv /\ Lockstep /\ [PlayerNext]_playerVars => (PlayerInv /\ Lockstep)'
  BY KeepsPlayerInv, KeepsLockstep, PlayerStutters
<1>2. QED
  BY <1>1, InitPlayer, PTL DEF PlayerSpec

\* An event fires once on every pass over it (crossed, Advance).
THEOREM FiresOncePerPass == PlayerSpec => []OncePerPass
<1>1. PlayerInv /\ OncePerPass /\ [PlayerNext]_playerVars => (PlayerInv /\ OncePerPass)'
  BY KeepsPlayerInv, KeepsOncePerPass, PlayerStutters
<1>2. QED
  BY <1>1, InitPlayer, PTL DEF PlayerSpec

(***************************************************************************)
(* The requests and the tick, as the daemon runs them.                     *)
(***************************************************************************)

----------------------------------------------------------------------------
(* What a policy, a sweep and a request are.                               *)

IsPolicy(p) ==
  /\ p = [rev |-> p.rev, shape |-> p.shape, cell |-> p.cell, pat |-> p.pat, ladder |-> p.ladder]
  /\ p.pat \in Library \cup {None}

ArePolicies(ps) == ps = [d \in Devices |-> ps[d]] /\ \A d \in Devices : IsPolicy(ps[d])

IsSweep(s) ==
  /\ s = [mac |-> s.mac, gen |-> s.gen, level |-> s.level, state |-> s.state,
          stored |-> s.stored]
  /\ s.mac \in Devices

\* A reading of the clock that a pattern may still be moved or started with.
Fresh(now) == now \in Nat /\ now <= clock /\ clock - now <= Gap

\* The requests that hold a reading they will hand to the Player.
Timed(r) == \/ r.at \in {"resume", "load", "check", "start"} /\ r.kind \in {"play", "playBox"}
            \/ r.at = "start" /\ r.kind = "scenario"

OfBox == {"playBox", "stopBox"}

HasFields(r) ==
  r = [at |-> r.at, kind |-> r.kind, b |-> r.b, id |-> r.id, now |-> r.now, p |-> r.p,
       pat |-> r.pat, pats |-> r.pats, all |-> r.all, put |-> r.put]

ReqOK(r) ==
  /\ HasFields(r)
  /\ IsPolicy(r.p) /\ r.pat \in Library \cup {None}
  /\ r.at # "idle" =>
       /\ r.kind \in AllKinds /\ r.id \in Groups
       /\ IF r.kind \in OfBox THEN r.b = Box ELSE r.b \in Devices
       /\ r.kind = "playBox" => r.pat \in Library
  /\ r.at = "load" => r.kind \in {"edit", "sub", "select", "author", "clear", "play"}
  /\ r.at = "resume" => r.kind \in {"play", "playBox"}
  /\ Timed(r) => Fresh(r.now)
  /\ r.at = "replace" => ArePolicies(r.all)
  /\ r.at = "start" /\ r.kind = "play" => r.p.pat \in Library
  /\ r.at = "start" /\ r.kind = "scenario" => r.pats \in [Devices -> Library]

ReqsOK == req = [h \in Handlers |-> req[h]] /\ \A h \in Handlers : ReqOK(req[h])
LeftOK == left \in [kinds : SUBSET AllKinds, reqs : 0..MaxReqs, busy : Nat, moves : Int,
                    faults : Int]

TickFields ==
  tick = [at |-> tick.at, by |-> tick.by, now |-> tick.now, pols |-> tick.pols,
          live |-> tick.live, gen |-> tick.gen, mac |-> tick.mac, p |-> tick.p,
          puts |-> tick.puts]
TickOK == /\ TickFields /\ IsPolicy(tick.p)
          /\ tick.at # "rest" => Fresh(tick.now)
          /\ tick.at = "judge" => IsSweep(sweep)

SweepOK == sweep = None \/ IsSweep(sweep)

DriveInv == /\ clock \in Nat /\ Gap \in Nat
            /\ ReqsOK /\ LeftOK /\ TickOK /\ SweepOK /\ ArePolicies(pol)

----------------------------------------------------------------------------
(* Records.                                                                *)

LEMMA BlankIsPolicy == IsPolicy(Blank)
BY DEF IsPolicy, Blank

LEMMA IdleIsOK == ReqOK(Idle)
BY BlankIsPolicy DEF ReqOK, HasFields, Idle, Timed

\* A request that has only moved on.
LEMMA MovedOn ==
  ASSUME NEW r, HasFields(r), NEW x
  PROVE  [r EXCEPT !.at = x] =
           [at |-> x, kind |-> r.kind, b |-> r.b, id |-> r.id, now |-> r.now, p |-> r.p,
            pat |-> r.pat, pats |-> r.pats, all |-> r.all, put |-> r.put]
<1> DEFINE f == [at |-> r.at, kind |-> r.kind, b |-> r.b, id |-> r.id, now |-> r.now, p |-> r.p,
                 pat |-> r.pat, pats |-> r.pats, all |-> r.all, put |-> r.put]
           s == [r EXCEPT !.at = x]
<1>1. s = [f EXCEPT !.at = x]
  BY Zenon DEF HasFields
<1> HIDE DEF s
<1>2. s = [at |-> x, kind |-> r.kind, b |-> r.b, id |-> r.id, now |-> r.now, p |-> r.p,
            pat |-> r.pat, pats |-> r.pats, all |-> r.all, put |-> r.put]
  BY <1>1
<1>3. QED
  BY <1>2 DEF s

LEMMA Goes ==
  ASSUME ReqsOK, NEW h \in Handlers, NEW x, Go(h, x)
  PROVE  LET r == req[h] IN
         /\ req' = [o \in Handlers |-> req'[o]]
         /\ \A o \in Handlers \ {h} : req'[o] = req[o]
         /\ req'[h] = [at |-> x, kind |-> r.kind, b |-> r.b, id |-> r.id, now |-> r.now,
                       p |-> r.p, pat |-> r.pat, pats |-> r.pats, all |-> r.all, put |-> r.put]
<1>1. req' = [req EXCEPT ![h] = [req[h] EXCEPT !.at = x]]
  BY DEF Go
<1>2. req = [o \in Handlers |-> req[o]] /\ HasFields(req[h])
  BY DEF ReqsOK, ReqOK
<1>3. /\ req' = [o \in Handlers |-> req'[o]]
      /\ \A o \in Handlers \ {h} : req'[o] = req[o]
      /\ req'[h] = [req[h] EXCEPT !.at = x]
  BY <1>1, <1>2
<1>4. QED
  BY <1>2, <1>3, MovedOn

LEMMA Replies ==
  ASSUME ReqsOK, NEW h \in Handlers, Reply(h)
  PROVE  /\ req' = [o \in Handlers |-> req'[o]]
         /\ \A o \in Handlers \ {h} : req'[o] = req[o]
         /\ req'[h] = Idle
BY DEF Reply, ReqsOK

\* One request may change without disturbing what is known of the others.
LEMMA OneReq ==
  ASSUME ReqsOK, NEW h \in Handlers, req' = [o \in Handlers |-> req'[o]],
         \A o \in Handlers \ {h} : req'[o] = req[o], clock' = clock, ReqOK(req[h])'
  PROVE  ReqsOK'
<1>1. \A o \in Handlers \ {h} : ReqOK(req[o])'
  BY DEF ReqsOK, ReqOK, Timed, Fresh
<1>2. QED
  BY <1>1 DEF ReqsOK

----------------------------------------------------------------------------
(* Requests, one action at a time.                                         *)

LEMMA OnlyReq ==
  ASSUME DriveInv, ReqsOK', LeftOK', clock' = clock, pol' = pol, sweep' = sweep, tick' = tick
  PROVE  DriveInv'
BY DEF DriveInv, ArePolicies, IsPolicy, SweepOK, TickOK, TickFields, Fresh, IsSweep

LEMMA Arrives ==
  ASSUME DriveInv, NEW h \in Handlers, Arrive(h)
  PROVE  DriveInv'
<1>1. PICK k \in left.kinds, d \in Devices, p \in Authored :
        /\ left.reqs > 0
        /\ left' = [left EXCEPT !.reqs = @ - 1]
        /\ req' = [req EXCEPT ![h] = [Idle EXCEPT
             !.at = First[k], !.kind = k, !.b = IF k \in {"playBox", "stopBox"} THEN Box ELSE d,
             !.id = left.reqs, !.now = clock,
             !.pat = IF k \in {"author", "select", "playBox"} THEN p ELSE None]]
  BY DEF Arrive
<1>2. UNCHANGED <<clock, pol, sweep, tick>>
  BY DEF Arrive, playerVars, stores, sweeper, ticking
<1>3. LeftOK'
  <2>1. left \in [kinds : SUBSET AllKinds, reqs : 0..MaxReqs, busy : Nat, moves : Int, faults : Int]
    BY DEF DriveInv, LeftOK
  <2>2. left.reqs - 1 \in 0..MaxReqs
    BY <1>1, <2>1, BoundsAssumption
  <2>3. QED
    BY <1>1, <2>1, <2>2 DEF LeftOK
<1>4. k \in AllKinds /\ left.reqs \in Groups /\ p \in Library /\ clock \in Nat /\ Gap \in Nat
  BY <1>1, IdsAssumption, PatternsAssumption, BoundsAssumption DEF DriveInv, LeftOK
<1> DEFINE b   == IF k \in {"playBox", "stopBox"} THEN Box ELSE d
           pat == IF k \in {"author", "select", "playBox"} THEN p ELSE None
           at  == First[k]
           r   == [Idle EXCEPT !.at = at, !.kind = k, !.b = b, !.id = left.reqs, !.now = clock,
                               !.pat = pat]
<1>5. /\ req' = [o \in Handlers |-> req'[o]]
      /\ \A o \in Handlers \ {h} : req'[o] = req[o]
      /\ req'[h] = r
  BY <1>1 DEF DriveInv, ReqsOK
<1>6. /\ at = "load" => k \in {"edit", "sub", "author", "select"}
      /\ at = "resume" => k \in {"play", "playBox"}
      /\ at # "replace" /\ at # "start"
  BY <1>4 DEF First, AllKinds
<1>7. /\ pat \in Library \cup {None} /\ (k = "playBox" => pat \in Library)
      /\ IF k \in OfBox THEN b = Box ELSE b \in Devices
  BY <1>4 DEF OfBox
<1> HIDE DEF at, b, pat
<1>8. r = [at |-> at, kind |-> k, b |-> b, id |-> left.reqs, now |-> clock, p |-> Blank,
           pat |-> pat, pats |-> <<>>, all |-> <<>>, put |-> 0]
  <2>1. r = [Idle EXCEPT !.at = at, !.kind = k, !.b = b, !.id = left.reqs, !.now = clock,
                         !.pat = pat]
    OBVIOUS
  <2> HIDE DEF r
  <2>2. QED
    BY <2>1 DEF Idle
<1> HIDE DEF r
<1>9. ReqOK(r) /\ Fresh(clock)
  <2>1. Fresh(clock)
    BY <1>4 DEF Fresh
  <2>2. HasFields(r) /\ r.at = at /\ r.kind = k /\ r.b = b /\ r.id = left.reqs
        /\ r.now = clock /\ r.p = Blank /\ r.pat = pat
    BY <1>8 DEF HasFields
  <2>3. QED
    BY <1>4, <1>6, <1>7, <2>1, <2>2, BlankIsPolicy DEF ReqOK, Timed
<1>10. ReqOK(req[h])'
  BY <1>2, <1>5, <1>9 DEF ReqOK, Timed, Fresh
<1>11. ReqsOK'
  BY <1>2, <1>5, <1>10, OneReq DEF DriveInv
<1>12. QED
  BY <1>2, <1>3, <1>11, OnlyReq

\* A request that goes where nothing more is asked of it.
Plain == {"pause", "put", "bump", "inPlace", "reply", "ticking"}

LEMMA GoesOn ==
  ASSUME DriveInv, NEW h \in Handlers, req[h].at # "idle", clock' = clock,
         \/ \E x \in Plain : Go(h, x)
         \/ Go(h, "load") /\ req[h].kind \in {"edit", "sub", "select", "author", "clear", "play"}
              /\ (req[h].kind = "play" => Fresh(req[h].now))
         \/ Go(h, "start") /\ req[h].kind = "playBox" /\ Fresh(req[h].now)
         \/ Reply(h)
  PROVE  ReqsOK'
<1>1. ReqsOK /\ ReqOK(req[h])
  BY DEF DriveInv, ReqsOK
<1>2. CASE Reply(h)
  <2>1. ReqOK(req[h])'
    <3>1. req'[h] = Idle
      BY <1>1, <1>2, Replies
    <3>2. QED
      BY <3>1, IdleIsOK DEF ReqOK, Timed, Fresh, Idle
  <2>2. QED
    BY <1>1, <1>2, <2>1, Replies, OneReq
<1>3. ASSUME NEW x \in Plain \cup {"load", "start"}, Go(h, x),
             x = "load" => /\ req[h].kind \in {"edit", "sub", "select", "author", "clear", "play"}
                           /\ req[h].kind = "play" => Fresh(req[h].now),
             x = "start" => req[h].kind = "playBox" /\ Fresh(req[h].now)
      PROVE  ReqsOK'
  <2> DEFINE r == req[h]
             s == req'[h]
  <2>1. s = [at |-> x, kind |-> r.kind, b |-> r.b, id |-> r.id, now |-> r.now,
             p |-> r.p, pat |-> r.pat, pats |-> r.pats, all |-> r.all, put |-> r.put]
    BY <1>1, <1>3, Goes
  <2>2. ReqOK(r)
    BY <1>1
  <2> HIDE DEF r, s
  <2>3. HasFields(s) /\ s.at = x /\ s.kind = r.kind /\ s.b = r.b /\ s.id = r.id
        /\ s.now = r.now /\ s.p = r.p /\ s.pat = r.pat
    BY <2>1 DEF HasFields
  <2>4. ReqOK(s)
    BY <1>3, <2>2, <2>3 DEF ReqOK, Timed, Plain, r
  <2>5. ReqOK(req[h])'
    BY <2>4 DEF ReqOK, Timed, Fresh, s
  <2>6. QED
    BY <1>1, <1>3, <2>5, Goes, OneReq
<1>4. QED
  BY <1>2, <1>3 DEF Plain

\* The Player's steps, when they are made with a fresh reading of the clock.
LEMMA PlayerMoves ==
  ASSUME DriveInv
  PROVE  /\ \A b \in Bindings : Stop(b) \/ Pause(b) => PlayerNext /\ clock' = clock
         /\ \A now : Fresh(now) =>
              /\ Advance(now) => PlayerNext /\ clock' = clock
              /\ \A b \in Bindings : Resume(b, now) => PlayerNext /\ clock' = clock
              /\ \A b \in Bindings, p \in Library :
                   Start(b, p, now) => PlayerNext /\ clock' = clock
              /\ \A members \in SUBSET Bindings, g \in Groups : \A pats \in [members -> Library] :
                   StartGroup(members, pats, now, g) => PlayerNext /\ clock' = clock
<1>1. \A now : Fresh(now) => now \in (clock - Gap)..clock /\ now >= 0
  BY DEF Fresh, DriveInv
<1>2. \A b \in Bindings : Stop(b) \/ Pause(b) => PlayerNext /\ clock' = clock
  BY DEF PlayerNext, Stop, Pause
<1>3. ASSUME NEW now, Fresh(now)
      PROVE  /\ Advance(now) => PlayerNext /\ clock' = clock
             /\ \A b \in Bindings : Resume(b, now) => PlayerNext /\ clock' = clock
             /\ \A b \in Bindings, p \in Library :
                  Start(b, p, now) => PlayerNext /\ clock' = clock
             /\ \A members \in SUBSET Bindings, g \in Groups : \A pats \in [members -> Library] :
                  StartGroup(members, pats, now, g) => PlayerNext /\ clock' = clock
  <2>1. now \in (clock - Gap)..clock /\ now >= 0
    BY <1>1, <1>3
  <2>2. /\ Advance(now) => clock' = clock
        /\ \A b \in Bindings : Resume(b, now) => clock' = clock
    BY DEF Advance, Resume
  <2>3. \A b, p : Start(b, p, now) => clock' = clock
    BY DEF Start, Begin
  <2>4. \A members, pats, g : StartGroup(members, pats, now, g) => clock' = clock
    BY DEF StartGroup, Begin
  <2>5. QED
    BY <2>1, <2>2, <2>3, <2>4 DEF PlayerNext
<1>4. QED
  BY <1>2, <1>3

Drives == [PlayerNext]_playerVars

LEMMA Loads ==
  ASSUME DriveInv, NEW h \in Handlers, Load(h)
  PROVE  DriveInv' /\ Drives
<1> DEFINE r == req[h]
           x == CASE r.kind = "edit" -> "pause" [] r.kind = "sub" -> "inPlace"
                  [] r.kind = "select" -> "stop" [] r.kind \in {"author", "clear"} -> "put"
                  [] r.kind = "play" -> "check"
           t == [r EXCEPT !.p = pol[r.b], !.at = x]
           s == req'[h]
<1>0. req' = [req EXCEPT ![h].p = pol[r.b], ![h].at = x]
  BY Zenon DEF Load
<1>1. /\ UNCHANGED <<playerVars, clock, pol, sweep, tick, left>> /\ r.at = "load"
  BY DEF Load, playerVars, stores, sweeper, ticking
<1>2. ReqOK(r) /\ ReqsOK /\ ArePolicies(pol)
  BY DEF DriveInv, ReqsOK
<1>3. r.b \in Devices /\ IsPolicy(pol[r.b])
  BY <1>1, <1>2 DEF ReqOK, OfBox, ArePolicies
<1>4. x # "load" /\ x # "resume" /\ x # "replace" /\ x # "start"
      /\ (x \in {"load", "resume", "check", "start"} => r.kind = "play")
  BY <1>1, <1>2 DEF ReqOK
<1> HIDE DEF x
<1>5. s = t /\ req' = [o \in Handlers |-> req'[o]]
      /\ \A o \in Handlers \ {h} : req'[o] = req[o]
  BY <1>0, <1>2 DEF ReqsOK
<1> HIDE DEF r
<1>6. t = [at |-> x, kind |-> r.kind, b |-> r.b, id |-> r.id, now |-> r.now,
           p |-> pol[r.b], pat |-> r.pat, pats |-> r.pats, all |-> r.all, put |-> r.put]
  <2> DEFINE f == [at |-> r.at, kind |-> r.kind, b |-> r.b, id |-> r.id, now |-> r.now, p |-> r.p,
                   pat |-> r.pat, pats |-> r.pats, all |-> r.all, put |-> r.put]
  <2>1. t = [f EXCEPT !.p = pol[r.b], !.at = x]
    BY <1>2, Zenon DEF ReqOK, HasFields
  <2> HIDE DEF t
  <2>2. QED
    BY <2>1
<1> HIDE DEF s, t
<1>7. ReqOK(s)
  <2>1. HasFields(s) /\ s.at = x /\ s.kind = r.kind /\ s.b = r.b /\ s.id = r.id
        /\ s.now = r.now /\ s.p = pol[r.b] /\ s.pat = r.pat
    BY <1>5, <1>6 DEF HasFields
  <2>2. QED
    BY <1>1, <1>2, <1>3, <1>4, <2>1 DEF ReqOK, Timed
<1>8. ReqsOK'
  <2>1. ReqOK(req[h])'
    BY <1>1, <1>7 DEF ReqOK, Timed, Fresh, ArePolicies, s
  <2>2. QED
    BY <1>1, <1>2, <1>5, <2>1, OneReq
<1>9. QED
  BY <1>1, <1>8, OnlyReq DEF DriveInv, LeftOK, Drives

LEMMA PausesAndStops ==
  ASSUME DriveInv, NEW h \in Handlers, PauseRun(h) \/ StopRun(h)
  PROVE  DriveInv' /\ Drives
<1>1. req[h].at # "idle" /\ req[h].b \in Bindings
  BY BindingsAssumption DEF PauseRun, StopRun, DriveInv, ReqsOK, ReqOK, OfBox
<1>2. Pause(req[h].b) \/ Stop(req[h].b) \/ UNCHANGED playerVars
  BY DEF PauseRun, StopRun
<1>3. Drives /\ clock' = clock
  BY <1>1, <1>2, PlayerMoves DEF Drives, playerVars
<1>4. UNCHANGED <<pol, sweep, tick, left>>
  BY DEF PauseRun, StopRun, stores, sweeper, ticking
<1>5. \/ Go(h, "bump") \/ Go(h, "put") \/ Reply(h)
      \/ Go(h, "load") /\ req[h].kind = "clear"
  BY DEF PauseRun, StopRun
<1>6. ReqsOK'
  BY <1>1, <1>3, <1>5, GoesOn DEF Plain
<1>7. QED
  BY <1>3, <1>4, <1>6, OnlyReq DEF DriveInv, LeftOK

LEMMA InPlaces ==
  ASSUME DriveInv, NEW h \in Handlers, InPlace(h) \/ Answer(h)
  PROVE  DriveInv' /\ Drives
<1>1. req[h].at # "idle" /\ (Go(h, "put") \/ Reply(h))
  BY DEF InPlace, Answer
<1>2. UNCHANGED <<playerVars, clock, pol, sweep, tick, left>>
  BY DEF InPlace, Answer, playerVars, stores, sweeper, ticking
<1>3. ReqsOK'
  BY <1>1, <1>2, GoesOn DEF Plain
<1>4. QED
  BY <1>2, <1>3, OnlyReq DEF DriveInv, LeftOK, Drives

LEMMA Resumes ==
  ASSUME DriveInv, NEW h \in Handlers, ResumeRun(h)
  PROVE  DriveInv' /\ Drives
<1> DEFINE r == req[h]
<1>1. /\ r.kind \in {"play", "playBox"} /\ r.at = "resume" /\ Fresh(r.now) /\ r.b \in Bindings
      /\ r.kind = "playBox" <=> r.b = Box
  BY BindingsAssumption DEF ResumeRun, DriveInv, ReqsOK, ReqOK, Timed, OfBox
<1>2. \/ Resume(r.b, r.now) /\ Reply(h)
      \/ UNCHANGED playerVars /\ Go(h, IF r.b = Box THEN "start" ELSE "load")
  BY DEF ResumeRun
<1>3. Drives /\ clock' = clock
  BY <1>1, <1>2, PlayerMoves DEF Drives, playerVars
<1>4. UNCHANGED <<pol, sweep, tick, left>>
  BY DEF ResumeRun, stores, sweeper, ticking
<1>5. \/ Reply(h)
      \/ Go(h, "start") /\ r.kind = "playBox"
      \/ Go(h, "load") /\ r.kind = "play"
  BY <1>1, <1>2
<1>6. ReqsOK'
  BY <1>1, <1>3, <1>5, GoesOn
<1>7. QED
  BY <1>3, <1>4, <1>6, OnlyReq DEF DriveInv, LeftOK

\* What the store holds stays a policy for each device, however it is written.
LEMMA PutsPolicy ==
  ASSUME ArePolicies(pol), NEW d, NEW p, IsPolicy(p), pol' = [pol EXCEPT ![d] = p]
  PROVE  ArePolicies(pol)'
BY DEF ArePolicies, IsPolicy

\* The policy a commit writes.
LEMMA Commits ==
  ASSUME DriveInv, NEW h \in Handlers, Commit(h)
  PROVE  DriveInv' /\ Drives
<1> DEFINE r   == req[h]
           rev == r.p.rev + 1
           shape == IF r.kind = "edit" THEN r.id ELSE r.p.shape
           pat == IF r.kind \in {"author", "select", "clear"} THEN r.pat ELSE r.p.pat
           p   == [r.p EXCEPT !.rev = rev, !.shape = shape, !.pat = pat]
<1>1. /\ UNCHANGED <<playerVars, clock, sweep, tick>> /\ r.at = "put"
  BY DEF Commit, playerVars, stores, sweeper, ticking
<1>2. \/ Reply(h) /\ UNCHANGED <<pol, left>>
      \/ \E saved \in BOOLEAN :
           /\ Put(r.b, p, saved)
           /\ req' = IF saved THEN [req EXCEPT ![h].at = "bump", ![h].put = puts']
                              ELSE [req EXCEPT ![h] = Idle]
  BY DEF Commit, stores
<1>3. ReqOK(r) /\ ReqsOK
  BY DEF DriveInv, ReqsOK
<1>4. IsPolicy(p)
  <2> DEFINE q == r.p
  <2>1. IsPolicy(q) /\ pat \in Library \cup {None}
    BY <1>3 DEF ReqOK, IsPolicy
  <2> DEFINE f == [rev |-> q.rev, shape |-> q.shape, cell |-> q.cell, pat |-> q.pat,
                   ladder |-> q.ladder]
  <2> HIDE DEF q, rev, shape, pat
  <2>2. p = [f EXCEPT !.rev = rev, !.shape = shape, !.pat = pat]
    BY <2>1, Zenon DEF IsPolicy, q
  <2> HIDE DEF p
  <2>3. p = [rev |-> rev, shape |-> shape, cell |-> q.cell, pat |-> pat, ladder |-> q.ladder]
    BY <2>2
  <2>4. QED
    BY <2>1, <2>3 DEF IsPolicy
<1> HIDE DEF p
<1>5. ArePolicies(pol)'
  <2>1. UNCHANGED pol \/ pol' = [pol EXCEPT ![r.b] = p]
    BY <1>2 DEF Put
  <2>2. QED
    BY <1>4, <2>1, PutsPolicy DEF DriveInv, ArePolicies, IsPolicy
<1>6. LeftOK'
  <2>1. left' = left \/ left' = [left EXCEPT !.faults = @ - 1]
    BY <1>2 DEF Put
  <2>2. QED
    BY <2>1 DEF LeftOK, DriveInv
<1>7. ReqsOK'
  <2>1. CASE Reply(h)
    BY <1>1, <2>1, GoesOn
  <2>2. CASE req' = [req EXCEPT ![h].at = "bump", ![h].put = puts']
    <3> DEFINE t == [r EXCEPT !.at = "bump", !.put = puts']
               s == req'[h]
    <3>1. s = t /\ req' = [o \in Handlers |-> req'[o]]
          /\ \A o \in Handlers \ {h} : req'[o] = req[o]
      BY <1>3, <2>2 DEF ReqsOK
    <3> HIDE DEF r
    <3>2. t = [at |-> "bump", kind |-> r.kind, b |-> r.b, id |-> r.id, now |-> r.now,
               p |-> r.p, pat |-> r.pat, pats |-> r.pats, all |-> r.all, put |-> puts']
      <4> DEFINE f == [at |-> r.at, kind |-> r.kind, b |-> r.b, id |-> r.id, now |-> r.now,
                       p |-> r.p, pat |-> r.pat, pats |-> r.pats, all |-> r.all, put |-> r.put]
      <4>1. t = [f EXCEPT !.at = "bump", !.put = puts']
        BY <1>3, Zenon DEF ReqOK, HasFields
      <4> HIDE DEF t
      <4>2. QED
        BY <4>1
    <3> HIDE DEF s, t
    <3>3. HasFields(s) /\ s.at = "bump" /\ s.kind = r.kind /\ s.b = r.b /\ s.id = r.id
          /\ s.p = r.p /\ s.pat = r.pat
      BY <3>1, <3>2 DEF HasFields
    <3>4. ReqOK(s)
      BY <1>1, <1>3, <3>3 DEF ReqOK, Timed
    <3>5. ReqOK(req[h])'
      BY <3>3, <3>4 DEF ReqOK, Timed, Fresh, s
    <3>6. QED
      BY <1>1, <1>3, <3>1, <3>5, OneReq
  <2>3. QED
    <3>1. Reply(h) \/ req' = [req EXCEPT ![h].at = "bump", ![h].put = puts']
      BY <1>2 DEF Reply
    <3>2. QED
      BY <2>1, <2>2, <3>1
<1>8. QED
  <2>1. TickOK' /\ SweepOK'
    BY <1>1 DEF DriveInv, TickOK, TickFields, IsPolicy, Fresh, IsSweep, SweepOK
  <2>2. QED
    BY <1>1, <1>5, <1>6, <1>7, <2>1 DEF DriveInv, Drives

LEMMA ReadsAll ==
  ASSUME DriveInv, NEW h \in Handlers, ReadAll(h)
  PROVE  DriveInv' /\ Drives
<1> DEFINE r == req[h]
           t == [r EXCEPT !.all = pol, !.at = "replace"]
           s == req'[h]
<1>1. UNCHANGED <<playerVars, clock, pol, sweep, tick, left>> /\ r.at = "read"
  BY DEF ReadAll, playerVars, stores, sweeper, ticking
<1>2. ReqOK(r) /\ ReqsOK /\ ArePolicies(pol)
  BY DEF DriveInv, ReqsOK
<1>3. s = t /\ req' = [o \in Handlers |-> req'[o]]
      /\ \A o \in Handlers \ {h} : req'[o] = req[o]
  <2>1. req' = [req EXCEPT ![h].all = pol, ![h].at = "replace"]
    BY DEF ReadAll
  <2>2. QED
    BY <1>2, <2>1 DEF ReqsOK
<1> HIDE DEF r
<1>4. t = [at |-> "replace", kind |-> r.kind, b |-> r.b, id |-> r.id, now |-> r.now,
           p |-> r.p, pat |-> r.pat, pats |-> r.pats, all |-> pol, put |-> r.put]
  <2> DEFINE f == [at |-> r.at, kind |-> r.kind, b |-> r.b, id |-> r.id, now |-> r.now, p |-> r.p,
                   pat |-> r.pat, pats |-> r.pats, all |-> r.all, put |-> r.put]
  <2>1. t = [f EXCEPT !.all = pol, !.at = "replace"]
    BY <1>2, Zenon DEF ReqOK, HasFields
  <2> HIDE DEF t
  <2>2. QED
    BY <2>1
<1> HIDE DEF s, t
<1>5. HasFields(s) /\ s.at = "replace" /\ s.kind = r.kind /\ s.b = r.b /\ s.id = r.id
      /\ s.p = r.p /\ s.pat = r.pat /\ s.all = pol
  BY <1>3, <1>4 DEF HasFields
<1>6. ReqOK(s)
  BY <1>1, <1>2, <1>5 DEF ReqOK, Timed
<1>7. ReqOK(req[h])'
  BY <1>5, <1>6 DEF ReqOK, Timed, Fresh, ArePolicies, s
<1>8. ReqsOK'
  BY <1>1, <1>2, <1>3, <1>7, OneReq
<1>9. QED
  BY <1>1, <1>8, OnlyReq DEF DriveInv, LeftOK, Drives

LEMMA Imports ==
  ASSUME DriveInv, NEW h \in Handlers, Import(h)
  PROVE  DriveInv' /\ Drives
<1> DEFINE r == req[h]
           c == [Blank EXCEPT !.rev = r.all[r.b].rev + 1, !.shape = r.id, !.cell = r.id]
           t == [r EXCEPT !.at = "pause", !.put = puts', !.all = <<>>]
           s == req'[h]
<1>1. UNCHANGED <<playerVars, clock, sweep, tick>> /\ r.at = "replace"
  BY DEF Import, playerVars, sweeper, ticking
<1>2. ReqOK(r) /\ ReqsOK /\ ArePolicies(pol) /\ ArePolicies(r.all)
  BY <1>1 DEF DriveInv, ReqsOK, ReqOK
<1>3. \/ /\ pol' = [r.all EXCEPT ![r.b] = c] /\ UNCHANGED left
         /\ req' = [req EXCEPT ![h].at = "pause", ![h].put = puts', ![h].all = <<>>]
      \/ /\ left' = [left EXCEPT !.faults = @ - 1] /\ Reply(h) /\ UNCHANGED pol
  BY Zenon DEF Import, stores
<1>4. IsPolicy(c)
  <2> DEFINE rev == r.all[r.b].rev + 1
             id  == r.id
  <2>1. c = [Blank EXCEPT !.rev = rev, !.shape = id, !.cell = id]
    OBVIOUS
  <2> HIDE DEF rev, id, c
  <2>2. c = [rev |-> rev, shape |-> id, cell |-> id, pat |-> None, ladder |-> 0]
    BY <2>1 DEF Blank
  <2>3. QED
    BY <2>2 DEF IsPolicy
<1> HIDE DEF c
<1>5. CASE Reply(h) /\ left' = [left EXCEPT !.faults = @ - 1] /\ UNCHANGED pol
  <2>1. ReqsOK'
    BY <1>1, <1>5, GoesOn
  <2>2. LeftOK'
    BY <1>5 DEF LeftOK, DriveInv
  <2>3. QED
    BY <1>1, <1>5, <2>1, <2>2, OnlyReq DEF Drives
<1>6. CASE /\ pol' = [r.all EXCEPT ![r.b] = c] /\ UNCHANGED left
           /\ req' = [req EXCEPT ![h].at = "pause", ![h].put = puts', ![h].all = <<>>]
  <2>1. s = t /\ req' = [o \in Handlers |-> req'[o]]
        /\ \A o \in Handlers \ {h} : req'[o] = req[o]
    BY <1>2, <1>6 DEF ReqsOK
  <2> HIDE DEF r
  <2>2. t = [at |-> "pause", kind |-> r.kind, b |-> r.b, id |-> r.id, now |-> r.now,
             p |-> r.p, pat |-> r.pat, pats |-> r.pats, all |-> <<>>, put |-> puts']
    <3> DEFINE f == [at |-> r.at, kind |-> r.kind, b |-> r.b, id |-> r.id, now |-> r.now,
                     p |-> r.p, pat |-> r.pat, pats |-> r.pats, all |-> r.all, put |-> r.put]
    <3>1. t = [f EXCEPT !.at = "pause", !.put = puts', !.all = <<>>]
      BY <1>2, Zenon DEF ReqOK, HasFields
    <3> HIDE DEF t
    <3>2. QED
      BY <3>1
  <2> HIDE DEF s, t
  <2>3. HasFields(s) /\ s.at = "pause" /\ s.kind = r.kind /\ s.b = r.b /\ s.id = r.id
        /\ s.p = r.p /\ s.pat = r.pat
    BY <2>1, <2>2 DEF HasFields
  <2>4. ReqOK(s)
    BY <1>1, <1>2, <2>3 DEF ReqOK, Timed
  <2>5. ReqOK(req[h])'
    BY <2>3, <2>4 DEF ReqOK, Timed, Fresh, s
  <2>6. ReqsOK'
    BY <1>1, <1>2, <2>1, <2>5, OneReq
  <2>7. ArePolicies(pol)'
    BY <1>2, <1>4, <1>6 DEF ArePolicies, IsPolicy
  <2>8. TickOK' /\ SweepOK' /\ LeftOK'
    BY <1>1, <1>6 DEF DriveInv, TickOK, TickFields, IsPolicy, Fresh, IsSweep, SweepOK, LeftOK
  <2>9. QED
    BY <1>1, <2>6, <2>7, <2>8 DEF DriveInv, Drives
<1>7. QED
  BY <1>3, <1>5, <1>6

LEMMA Checks ==
  ASSUME DriveInv, NEW h \in Handlers, Check(h)
  PROVE  DriveInv' /\ Drives
<1> DEFINE r    == req[h]
           ok   == \/ r.kind = "play" /\ MayPlay(r)
                   \/ r.kind = "scenario" /\ MayPlayAll
                   \/ r.kind = "sweep" /\ MaySweep(r)
           now  == IF r.kind = "play" THEN r.now ELSE clock
           pats == IF r.kind # "scenario" THEN r.pats ELSE [d \in Devices |-> pol[d].pat]
           t    == [r EXCEPT !.at = "start", !.now = now, !.pats = pats]
           s    == req'[h]
<1>1. UNCHANGED <<playerVars, clock, pol, sweep, tick, left>> /\ r.at = "check"
  BY DEF Check, playerVars, stores, sweeper, ticking
<1>2. ReqOK(r) /\ ReqsOK /\ ArePolicies(pol) /\ Fresh(clock)
  BY DEF DriveInv, ReqsOK, Fresh
<1>3. \/ ok /\ req' = [req EXCEPT ![h].at = "start", ![h].now = IF r.kind = "play" THEN @ ELSE clock,
                            ![h].pats = IF r.kind # "scenario" THEN @
                                        ELSE [d \in Devices |-> pol[d].pat]]
      \/ Reply(h)
  BY Zenon DEF Check
<1>4. CASE Reply(h)
  <2>1. ReqsOK'
    BY <1>1, <1>4, GoesOn
  <2>2. QED
    BY <1>1, <2>1, OnlyReq DEF DriveInv, LeftOK, Drives
<1>5. CASE ok /\ req' = [req EXCEPT ![h].at = "start",
                            ![h].now = IF r.kind = "play" THEN @ ELSE clock,
                            ![h].pats = IF r.kind # "scenario" THEN @
                                        ELSE [d \in Devices |-> pol[d].pat]]
  <2>1. s = t /\ req' = [o \in Handlers |-> req'[o]]
        /\ \A o \in Handlers \ {h} : req'[o] = req[o]
    BY <1>2, <1>5 DEF ReqsOK
  <2>2. /\ r.kind \in {"play", "scenario", "sweep"}
        /\ r.kind = "play" => r.p.pat \in Library
        /\ r.kind = "scenario" => pats \in [Devices -> Library]
        /\ Fresh(now)
    <3>1. r.kind \in {"play", "scenario", "sweep"}
      BY <1>5
    <3>2. r.kind = "play" => r.p.pat \in Library
      BY <1>2, <1>5 DEF MayPlay, ReqOK, IsPolicy
    <3>3. r.kind = "scenario" => \A d \in Devices : pol[d].pat \in Library
      BY <1>2, <1>5 DEF MayPlayAll, ArePolicies, IsPolicy
    <3>4. r.kind = "play" => Fresh(r.now)
      BY <1>1, <1>2 DEF ReqOK, Timed
    <3>5. QED
      BY <1>2, <3>1, <3>2, <3>3, <3>4
  <2> HIDE DEF r, now, pats
  <2>3. t = [at |-> "start", kind |-> r.kind, b |-> r.b, id |-> r.id, now |-> now,
             p |-> r.p, pat |-> r.pat, pats |-> pats, all |-> r.all, put |-> r.put]
    <3> DEFINE f == [at |-> r.at, kind |-> r.kind, b |-> r.b, id |-> r.id, now |-> r.now,
                     p |-> r.p, pat |-> r.pat, pats |-> r.pats, all |-> r.all, put |-> r.put]
    <3>1. t = [f EXCEPT !.at = "start", !.now = now, !.pats = pats]
      BY <1>2, Zenon DEF ReqOK, HasFields
    <3> HIDE DEF t
    <3>2. QED
      BY <3>1
  <2> HIDE DEF s, t
  <2>4. HasFields(s) /\ s.at = "start" /\ s.kind = r.kind /\ s.b = r.b /\ s.id = r.id
        /\ s.p = r.p /\ s.pat = r.pat /\ s.now = now /\ s.pats = pats
    BY <2>1, <2>3 DEF HasFields
  <2>5. ReqOK(s)
    BY <1>1, <1>2, <2>2, <2>4 DEF ReqOK, Timed
  <2>6. ReqOK(req[h])'
    BY <1>1, <2>4, <2>5 DEF ReqOK, Timed, Fresh, s
  <2>7. ReqsOK'
    BY <1>1, <1>2, <2>1, <2>6, OneReq
  <2>8. QED
    BY <1>1, <2>7, OnlyReq DEF DriveInv, LeftOK, Drives
<1>6. QED
  BY <1>3, <1>4, <1>5

LEMMA StartsRuns ==
  ASSUME DriveInv, NEW h \in Handlers, StartRun(h) \/ StartScenario(h)
  PROVE  DriveInv' /\ Drives
<1> DEFINE r == req[h]
<1>1. r.at = "start" /\ Reply(h) /\ UNCHANGED <<pol, sweep, tick, left>>
  BY DEF StartRun, StartScenario, stores, sweeper, ticking
<1>2. ReqOK(r)
  BY DEF DriveInv, ReqsOK
<1>3. CASE StartRun(h)
  <2>1. /\ r.kind \in {"play", "playBox"} /\ Fresh(r.now) /\ r.b \in Bindings
        /\ r.kind = "play" => r.p.pat \in Library
        /\ r.kind = "playBox" => r.pat \in Library
    BY <1>1, <1>2, <1>3, BindingsAssumption DEF StartRun, ReqOK, Timed, OfBox
  <2> DEFINE p == IF r.kind = "play" THEN r.p.pat ELSE r.pat
  <2>2. Start(r.b, p, r.now) \/ UNCHANGED playerVars
    BY <1>3 DEF StartRun
  <2>3. p \in Library
    BY <2>1
  <2> HIDE DEF p
  <2>4. QED
    <3>1. Drives /\ clock' = clock
      BY <2>1, <2>2, <2>3, PlayerMoves DEF Drives, playerVars
    <3>2. ReqsOK'
      BY <1>1, <3>1, GoesOn
    <3>3. QED
      BY <1>1, <3>1, <3>2, OnlyReq DEF DriveInv, LeftOK
<1>4. CASE StartScenario(h)
  <2>1. Fresh(r.now) /\ r.pats \in [Devices -> Library] /\ r.id \in Groups
    BY <1>1, <1>2, <1>4 DEF StartScenario, ReqOK, Timed
  <2>2. StartGroup(Devices, r.pats, r.now, r.id) \/ UNCHANGED playerVars
    BY <1>4 DEF StartScenario
  <2>3. Drives /\ clock' = clock
    BY <2>1, <2>2, PlayerMoves, BindingsAssumption DEF Drives, playerVars
  <2>4. ReqsOK'
    BY <1>1, <2>3, GoesOn
  <2>5. QED
    BY <1>1, <2>3, <2>4, OnlyReq DEF DriveInv, LeftOK
<1>5. QED
  BY <1>3, <1>4

LEMMA Sweeps ==
  ASSUME DriveInv, NEW h \in Handlers, StartSweep(h) \/ StopSweep(h)
  PROVE  DriveInv' /\ Drives
<1> DEFINE r == req[h]
<1>1. UNCHANGED <<playerVars, clock, pol, tick, left>> /\ r.at # "idle" /\ Reply(h)
  BY DEF StartSweep, StopSweep, playerVars, stores, ticking
<1>2. ReqsOK'
  BY <1>1, GoesOn
<1>3. IsSweep(sweep') \/ sweep' = sweep
  <2>1. CASE StartSweep(h)
    <3>1. r.b \in Devices
      BY <2>1 DEF StartSweep, DriveInv, ReqsOK, ReqOK, OfBox
    <3>2. \/ sweep' = sweep
          \/ sweep' = [mac |-> r.b, gen |-> gen', level |-> 0, state |-> "running",
                       stored |-> FALSE]
      BY <2>1 DEF StartSweep, sweeper
    <3>3. QED
      BY <3>1, <3>2 DEF IsSweep
  <2>2. CASE StopSweep(h)
    <3>1. CASE Sweeping(r.b)
      <4>1. sweep # None /\ sweep' = [sweep EXCEPT !.state = "failed"]
        BY <2>2, <3>1 DEF StopSweep, Sweeping
      <4>2. IsSweep(sweep)
        BY <4>1 DEF DriveInv, SweepOK
      <4>3. QED
        BY <4>1, <4>2 DEF IsSweep
    <3>2. CASE ~Sweeping(r.b)
      BY <2>2, <3>2 DEF StopSweep
    <3>3. QED
      BY <3>1, <3>2
  <2>3. QED
    BY <2>1, <2>2
<1>4. SweepOK' /\ TickOK'
  BY <1>1, <1>3 DEF DriveInv, SweepOK, TickOK, TickFields, IsPolicy, Fresh, IsSweep
<1>5. QED
  BY <1>1, <1>2, <1>4 DEF DriveInv, LeftOK, ArePolicies, IsPolicy, Drives

----------------------------------------------------------------------------
(* The tick, and time.                                                     *)

\* A tick that has moved on, with what it was to keep.
LEMMA TickOn ==
  ASSUME TickFields, NEW x, tick' = [tick EXCEPT !.at = x]
  PROVE  /\ TickFields' /\ tick'.at = x /\ tick'.p = tick.p /\ tick'.now = tick.now
         /\ tick'.mac = tick.mac /\ tick'.gen = tick.gen /\ tick'.by = tick.by
         /\ tick'.puts = tick.puts
<1> DEFINE f == [at |-> tick.at, by |-> tick.by, now |-> tick.now, pols |-> tick.pols,
                 live |-> tick.live, gen |-> tick.gen, mac |-> tick.mac, p |-> tick.p,
                 puts |-> tick.puts]
<1>1. tick' = [f EXCEPT !.at = x]
  BY Zenon DEF TickFields
<1>2. tick' = [at |-> x, by |-> tick.by, now |-> tick.now, pols |-> tick.pols,
               live |-> tick.live, gen |-> tick.gen, mac |-> tick.mac, p |-> tick.p,
               puts |-> tick.puts]
  BY <1>1
<1>3. QED
  BY <1>2 DEF TickFields

LEMMA Began ==
  ASSUME DriveInv, NEW by, Begins(by)
  PROVE  /\ TickOK' /\ UNCHANGED <<playerVars, clock, pol, sweep, left, puts, seen>>
         /\ tick'.by = by /\ tick'.puts = puts /\ tick'.at \in {"judge", "advance"}
         /\ tick.at = "rest"
<1> DEFINE at == IF sweep # None /\ sweep.state = "running" THEN "judge" ELSE "advance"
<1>1. /\ UNCHANGED <<playerVars, clock, pol, sweep, left, puts, seen>> /\ tick.at = "rest"
      /\ tick' = [Resting EXCEPT !.by = by, !.now = clock, !.pols = pol, !.live = live,
                    !.puts = puts, !.gen = gen, !.at = at]
  BY DEF Begins, playerVars, stores, sweeper
<1>2. at \in {"judge", "advance"} /\ (at = "judge" => IsSweep(sweep))
  BY DEF DriveInv, SweepOK
<1> HIDE DEF at
<1>3. tick' = [at |-> at, by |-> by, now |-> clock, pols |-> pol, live |-> live, gen |-> gen,
               mac |-> None, p |-> Blank, puts |-> puts]
  BY <1>1 DEF Resting
<1>4. Fresh(clock)
  BY DEF DriveInv, Fresh
<1>5. /\ TickFields' /\ tick'.p = Blank /\ tick'.now = clock /\ tick'.at = at
      /\ tick'.by = by /\ tick'.puts = puts
  BY <1>3 DEF TickFields
<1>6. TickOK'
  BY <1>1, <1>2, <1>4, <1>5, BlankIsPolicy DEF TickOK, Fresh, IsSweep, IsPolicy
<1>7. QED
  BY <1>1, <1>2, <1>5, <1>6

LEMMA Bumps ==
  ASSUME DriveInv, NEW h \in Handlers, BumpControl(h)
  PROVE  DriveInv' /\ Drives
<1>1. req[h].at # "idle" /\ Begins(h) /\ Go(h, "ticking")
  BY DEF BumpControl
<1>2. TickOK' /\ UNCHANGED <<playerVars, clock, pol, sweep, left>>
  BY <1>1, Began
<1>3. ReqsOK'
  BY <1>1, <1>2, GoesOn DEF Plain
<1>4. QED
  BY <1>2, <1>3 DEF DriveInv, SweepOK, IsSweep, LeftOK, ArePolicies, IsPolicy, Drives

\* Nothing but the tick and the sweep has changed.
LEMMA OnlyTick ==
  ASSUME DriveInv, TickOK', SweepOK', UNCHANGED <<clock, pol, left, req>>
  PROVE  DriveInv'
BY DEF DriveInv, ReqsOK, ReqOK, Timed, Fresh, LeftOK, ArePolicies, IsPolicy

LEMMA Ticks ==
  ASSUME DriveInv, TickerTicks
  PROVE  DriveInv' /\ Drives
<1>1. Begins(None) /\ UNCHANGED req
  BY DEF TickerTicks
<1>2. TickOK' /\ UNCHANGED <<playerVars, clock, pol, sweep, left>>
  BY <1>1, Began
<1>3. QED
  BY <1>1, <1>2, OnlyTick DEF DriveInv, SweepOK, IsSweep, Drives

\* A verdict is on the same sweep.
LEMMA Judgment ==
  ASSUME NEW s, IsSweep(s), NEW u \in Judged(s)
  PROVE  IsSweep(u) /\ u.gen = s.gen /\ u.mac = s.mac
<1>1. \/ u = s \/ u = [s EXCEPT !.state = "failed"] \/ u = [s EXCEPT !.state = "done"]
      \/ u = [s EXCEPT !.level = @ + 1]
  BY DEF Judged
<1>2. QED
  BY <1>1 DEF IsSweep

LEMMA Judges ==
  ASSUME DriveInv, JudgeSweep
  PROVE  DriveInv' /\ Drives
<1>1. /\ tick.at = "judge" /\ tick' = [tick EXCEPT !.at = "take"]
      /\ UNCHANGED <<playerVars, clock, pol, left, req>>
      /\ sweep' = sweep \/ sweep' \in Judged(sweep)
  BY DEF JudgeSweep, playerVars, stores
<1>2. IsSweep(sweep) /\ TickOK
  BY <1>1 DEF DriveInv, TickOK
<1>3. IsSweep(sweep')
  BY <1>1, <1>2, Judgment
<1>4. SweepOK' /\ TickOK'
  BY <1>1, <1>2, <1>3, TickOn DEF SweepOK, TickOK, Fresh, IsPolicy, IsSweep
<1>5. QED
  BY <1>1, <1>4, OnlyTick DEF Drives

LEMMA TakesTheResult ==
  ASSUME DriveInv, TakeResult
  PROVE  DriveInv' /\ Drives
<1>1. tick.at = "take" /\ UNCHANGED <<playerVars, clock, pol, left, req>>
  BY DEF TakeResult, playerVars, stores
<1>2. TickOK /\ SweepOK
  BY DEF DriveInv
<1>3. CASE sweep # None /\ sweep.state = "done" /\ ~sweep.stored
  <2> DEFINE g == sweep.gen
             m == sweep.mac
             p == pol[sweep.mac]
             f == [at |-> tick.at, by |-> tick.by, now |-> tick.now, pols |-> tick.pols,
                   live |-> tick.live, gen |-> tick.gen, mac |-> tick.mac, p |-> tick.p,
                   puts |-> tick.puts]
  <2>1. /\ sweep' = [sweep EXCEPT !.stored = TRUE]
        /\ tick' = [tick EXCEPT !.at = "keep", !.gen = g, !.mac = m, !.p = p]
    BY <1>3 DEF TakeResult
  <2>2. IsSweep(sweep) /\ IsPolicy(p)
    BY <1>2, <1>3 DEF SweepOK, IsSweep, DriveInv, ArePolicies
  <2>3. SweepOK'
    BY <2>1, <2>2 DEF SweepOK, IsSweep
  <2> HIDE DEF g, m, p
  <2>4. tick' = [f EXCEPT !.at = "keep", !.gen = g, !.mac = m, !.p = p]
    BY <1>2, <2>1, Zenon DEF TickOK, TickFields
  <2>5. tick' = [at |-> "keep", by |-> tick.by, now |-> tick.now, pols |-> tick.pols,
                 live |-> tick.live, gen |-> g, mac |-> m, p |-> p, puts |-> tick.puts]
    BY <2>4
  <2>6. TickOK'
    BY <1>1, <1>2, <2>2, <2>5 DEF TickOK, TickFields, Fresh, IsPolicy
  <2>7. QED
    BY <1>1, <2>3, <2>6, OnlyTick DEF Drives
<1>4. CASE ~(sweep # None /\ sweep.state = "done" /\ ~sweep.stored)
  <2>1. tick' = [tick EXCEPT !.at = "advance"] /\ sweep' = sweep
    BY <1>4 DEF TakeResult
  <2>2. SweepOK' /\ TickOK'
    BY <1>1, <1>2, <2>1, TickOn DEF SweepOK, TickOK, Fresh, IsPolicy, IsSweep
  <2>3. QED
    BY <1>1, <2>2, OnlyTick DEF Drives
<1>5. QED
  BY <1>3, <1>4

LEMMA KeepsLadder ==
  ASSUME DriveInv, KeepLadder
  PROVE  DriveInv' /\ Drives
<1> DEFINE q   == tick.p
           g   == tick.gen
           rev == q.rev + 1
           p   == [q EXCEPT !.ladder = g, !.rev = rev]
           f   == [rev |-> q.rev, shape |-> q.shape, cell |-> q.cell, pat |-> q.pat,
                   ladder |-> q.ladder]
<1>1. /\ UNCHANGED <<playerVars, clock, sweep, req>> /\ tick.at = "keep"
      /\ tick' = [tick EXCEPT !.at = "advance"]
      /\ left' = left \/ left' = [left EXCEPT !.faults = @ - 1]
      /\ pol' = [pol EXCEPT ![tick.mac] = p]
  BY DEF KeepLadder, Put, playerVars, sweeper
<1>2. TickOK /\ SweepOK /\ IsPolicy(q)
  BY DEF DriveInv, TickOK
<1> HIDE DEF g, rev, q
<1>3. IsPolicy(p)
  <2>1. p = [f EXCEPT !.ladder = g, !.rev = rev]
    BY <1>2, Zenon DEF IsPolicy
  <2> HIDE DEF p
  <2>2. p = [rev |-> rev, shape |-> q.shape, cell |-> q.cell, pat |-> q.pat, ladder |-> g]
    BY <2>1
  <2>3. QED
    BY <1>2, <2>2 DEF IsPolicy
<1> HIDE DEF p
<1>4. ArePolicies(pol)'
  BY <1>1, <1>3, PutsPolicy DEF DriveInv
<1>5. LeftOK'
  BY <1>1 DEF DriveInv, LeftOK
<1>6. TickOK' /\ SweepOK'
  BY <1>1, <1>2, TickOn DEF SweepOK, TickOK, Fresh, IsPolicy, IsSweep
<1>7. ReqsOK'
  BY <1>1 DEF DriveInv, ReqsOK, ReqOK, Timed, Fresh, ArePolicies, IsPolicy
<1>8. QED
  BY <1>1, <1>4, <1>5, <1>6, <1>7 DEF DriveInv, Drives

LEMMA Advances ==
  ASSUME DriveInv, AdvanceRuns
  PROVE  DriveInv' /\ Drives
<1>1. /\ tick.at = "advance" /\ tick' = [tick EXCEPT !.at = "apply"] /\ Advance(tick.now)
      /\ UNCHANGED <<pol, sweep, left, req>>
  BY DEF AdvanceRuns, stores, sweeper
<1>2. TickOK /\ SweepOK /\ Fresh(tick.now)
  BY <1>1 DEF DriveInv, TickOK
<1>3. Drives /\ clock' = clock
  BY <1>1, <1>2, PlayerMoves DEF Drives
<1>4. TickOK' /\ SweepOK'
  BY <1>1, <1>2, <1>3, TickOn DEF SweepOK, TickOK, Fresh, IsPolicy, IsSweep
<1>5. QED
  BY <1>1, <1>3, <1>4, OnlyTick

LEMMA RestingIsOK == tick' = Resting /\ UNCHANGED <<clock, sweep>> => TickOK'
BY BlankIsPolicy DEF Resting, TickOK, TickFields, IsPolicy

LEMMA Applies ==
  ASSUME DriveInv, Apply,
         tick.by # None => tick.by \in Handlers /\ req[tick.by].at = "ticking"
  PROVE  DriveInv' /\ Drives
<1>1. /\ UNCHANGED <<playerVars, clock, pol, sweep, left>> /\ tick' = Resting
      /\ IF tick.by = None THEN UNCHANGED req ELSE Go(tick.by, "reply")
  BY DEF Apply, playerVars, stores, sweeper
<1>2. TickOK'
  BY <1>1, RestingIsOK
<1>3. SweepOK'
  BY <1>1 DEF DriveInv, SweepOK, IsSweep
<1>4. ReqsOK'
  <2>1. CASE tick.by = None
    BY <1>1, <2>1 DEF DriveInv, ReqsOK, ReqOK, Timed, Fresh, ArePolicies, IsPolicy
  <2>2. CASE tick.by # None
    BY <1>1, <2>2, GoesOn DEF Plain
  <2>3. QED
    BY <2>1, <2>2
<1>5. QED
  BY <1>1, <1>2, <1>3, <1>4 DEF DriveInv, LeftOK, ArePolicies, IsPolicy, Drives

\* Time passes only while every reading that will be acted on stays fresh.
LEMMA TimePasses ==
  ASSUME DriveInv, Pass
  PROVE  DriveInv' /\ Drives
<1>1. /\ UNCHANGED <<pol, sweep, tick, req, left>> /\ Wait /\ clock' = clock + 1
      /\ \A h \in Handlers : Timed(req[h]) => clock - req[h].now < Gap
      /\ tick.at # "rest" => clock - tick.now < Gap
  BY DEF Pass, Wait, Timed, stores, sweeper, ticking
<1>2. clock \in Nat /\ Gap \in Nat
  BY DEF DriveInv
<1>3. ReqsOK'
  <2>1. ReqsOK
    BY DEF DriveInv
  <2>2. ASSUME NEW h \in Handlers
        PROVE  ReqOK(req[h])'
    <3>1. ReqOK(req[h])
      BY <2>1 DEF ReqsOK
    <3>2. Timed(req[h]) => Fresh(req[h].now)'
      BY <1>1, <1>2, <3>1 DEF ReqOK, Fresh
    <3>3. QED
      BY <1>1, <3>1, <3>2 DEF ReqOK, Timed, ArePolicies, IsPolicy
  <2>3. QED
    BY <1>1, <2>1, <2>2 DEF ReqsOK
<1>4. TickOK'
  <2>1. TickOK
    BY DEF DriveInv
  <2>2. tick.at # "rest" => Fresh(tick.now)'
    BY <1>1, <1>2, <2>1 DEF TickOK, Fresh
  <2>3. QED
    BY <1>1, <2>1, <2>2 DEF TickOK, TickFields, IsPolicy, IsSweep
<1>5. QED
  BY <1>1, <1>2, <1>3, <1>4 DEF DriveInv, SweepOK, IsSweep, LeftOK, ArePolicies, IsPolicy,
     Drives, PlayerNext

LEMMA Moved ==
  ASSUME DriveInv, NEW d \in Devices, Move(d)
  PROVE  DriveInv' /\ Drives
<1>1. UNCHANGED <<playerVars, clock, pol, sweep, tick, req>>
      /\ left' = [left EXCEPT !.moves = @ - 1]
  BY DEF Move, playerVars, stores, sweeper, ticking
<1>2. LeftOK'
  BY <1>1 DEF DriveInv, LeftOK
<1>3. ReqsOK'
  BY <1>1 DEF DriveInv, ReqsOK, ReqOK, Timed, Fresh, ArePolicies, IsPolicy
<1>4. QED
  BY <1>1, <1>2, <1>3, OnlyReq DEF Drives

----------------------------------------------------------------------------
(* Who is ticking, and what has been read by then.                         *)

PutsOK == /\ puts \in Nat /\ seen \in Nat /\ seen <= puts
          /\ \A h \in Handlers : req[h].put \in Nat /\ req[h].put <= puts

\* The tick under way has read every write that was answered, and the writes of the
\* request that runs it.
Answering ==
  /\ tick.at # "rest" =>
       /\ tick.puts \in Nat /\ seen <= tick.puts /\ tick.puts <= puts
       /\ tick.by # None => tick.by \in Handlers /\ req[tick.by].at = "ticking"
  /\ \A h \in Handlers : req[h].at = "ticking" =>
       tick.at # "rest" /\ tick.by = h /\ req[h].put <= tick.puts

Inv == DriveInv /\ PutsOK /\ Answering /\ AppliesBeforeReply

\* The sweep in hand is judged on its own windows, or on none.
OwnWindows == IsSweep(sweep) => heard \subseteq {sweep.gen}

LEMMA InitDrive == Init => PlayerInit /\ Inv /\ OwnWindows
<1> SUFFICES ASSUME Init PROVE PlayerInit /\ Inv /\ OwnWindows
  OBVIOUS
<1>1. PlayerInit /\ clock = 0 /\ Gap \in Nat
  BY SizeAssumption DEF Init, PlayerInit
<1>2. ReqsOK /\ \A h \in Handlers : req[h] = Idle
  BY IdleIsOK DEF Init, ReqsOK
<1>3. LeftOK
  BY WorkloadsAssumption DEF Init, LeftOK
<1>4. TickOK /\ SweepOK /\ tick.at = "rest"
  BY BlankIsPolicy DEF Init, Resting, TickOK, TickFields, SweepOK
<1>5. ArePolicies(pol)
  <2>1. \A p \in Stored : IsPolicy([Blank EXCEPT !.pat = p])
    BY PatternsAssumption DEF IsPolicy, Blank
  <2>2. QED
    BY <2>1 DEF Init, ArePolicies
<1>6. puts = 0 /\ seen = 0 /\ heard = {}
  BY DEF Init
<1>7. QED
  BY <1>1, <1>2, <1>3, <1>4, <1>5, <1>6 DEF Inv, DriveInv, PutsOK, Answering,
     AppliesBeforeReply, OwnWindows, Idle

\* What a request does that neither starts nor awaits a tick: it may write once, and
\* knows of no more writes than there were.
Quiet(h) ==
  /\ UNCHANGED <<tick, seen>> /\ puts' \in {puts, puts + 1}
  /\ \A o \in Handlers \ {h} : req'[o] = req[o]
  /\ req[h].at # "ticking" /\ req'[h].at \notin {"ticking", "reply"}
  /\ req'[h].put \in {0, req[h].put, puts'}

LEMMA QuietKeeps ==
  ASSUME PutsOK, Answering, AppliesBeforeReply, NEW h \in Handlers, Quiet(h)
  PROVE  PutsOK' /\ Answering' /\ AppliesBeforeReply'
<1>1. PutsOK'
  BY DEF PutsOK, Quiet
<1>2. Answering'
  BY DEF Answering, PutsOK, Quiet
<1>3. AppliesBeforeReply'
  BY DEF AppliesBeforeReply, Quiet
<1>4. QED
  BY <1>1, <1>2, <1>3

LEMMA GoesBriefly ==
  ASSUME ReqsOK, NEW h \in Handlers, NEW x, Go(h, x)
  PROVE  /\ req'[h].at = x /\ req'[h].put = req[h].put
         /\ \A o \in Handlers \ {h} : req'[o] = req[o]
<1>1. req' = [req EXCEPT ![h].at = x]
  BY DEF Go
<1>2. QED
  BY <1>1 DEF ReqsOK, ReqOK, HasFields

\* A request moves on without a word about its writes.
LEMMA GoesQuietly ==
  ASSUME ReqsOK, PutsOK, NEW h \in Handlers, UNCHANGED <<tick, seen, puts>>,
         req[h].at # "ticking",
         Reply(h) \/ \E x : x \notin {"ticking", "reply"} /\ Go(h, x)
  PROVE  Quiet(h)
<1>1. CASE Reply(h)
  BY <1>1, Replies DEF Quiet, Idle
<1>2. ASSUME NEW x, x \notin {"ticking", "reply"}, Go(h, x)
      PROVE  Quiet(h)
  <2>1. req'[h].at = x /\ req'[h].put = req[h].put /\ \A o \in Handlers \ {h} : req'[o] = req[o]
    BY <1>2, GoesBriefly
  <2>2. QED
    BY <1>2, <2>1 DEF Quiet
<1>3. QED
  BY <1>1, <1>2

LEMMA RequestsAreQuiet ==
  ASSUME DriveInv, PutsOK, NEW h \in Handlers, Request(h)
  PROVE  Quiet(h) \/ BumpControl(h)
<1>1. ReqsOK /\ ReqOK(req[h]) /\ puts \in Nat
  BY DEF DriveInv, ReqsOK, PutsOK
<1>2. CASE Arrive(h)
  <2>1. PICK k \in left.kinds, d \in Devices, p \in Authored :
          req' = [req EXCEPT ![h] = [Idle EXCEPT
            !.at = First[k], !.kind = k, !.b = IF k \in {"playBox", "stopBox"} THEN Box ELSE d,
            !.id = left.reqs, !.now = clock,
            !.pat = IF k \in {"author", "select", "playBox"} THEN p ELSE None]]
    BY <1>2 DEF Arrive
  <2> DEFINE b   == IF k \in {"playBox", "stopBox"} THEN Box ELSE d
             pat == IF k \in {"author", "select", "playBox"} THEN p ELSE None
             at  == First[k]
             s   == [Idle EXCEPT !.at = at, !.kind = k, !.b = b, !.id = left.reqs, !.now = clock,
                                 !.pat = pat]
  <2>2. req'[h] = s /\ \A o \in Handlers \ {h} : req'[o] = req[o]
    BY <1>1, <2>1 DEF ReqsOK
  <2>3. at \notin {"ticking", "reply"}
    <3>1. k \in AllKinds
      BY DEF DriveInv, LeftOK
    <3>2. QED
      BY <3>1 DEF First, AllKinds
  <2> HIDE DEF at, b, pat
  <2>4. s = [Idle EXCEPT !.at = at, !.kind = k, !.b = b, !.id = left.reqs, !.now = clock,
                         !.pat = pat]
    OBVIOUS
  <2> HIDE DEF s
  <2>5. s.at = at /\ s.put = 0
    BY <2>4 DEF Idle
  <2>6. UNCHANGED <<tick, seen, puts>> /\ req[h].at # "ticking"
    BY <1>2 DEF Arrive, stores, ticking
  <2>7. QED
    BY <2>2, <2>3, <2>5, <2>6 DEF Quiet
<1>3. CASE Load(h)
  <2> DEFINE x == CASE req[h].kind = "edit" -> "pause" [] req[h].kind = "sub" -> "inPlace"
                    [] req[h].kind = "select" -> "stop"
                    [] req[h].kind \in {"author", "clear"} -> "put"
                    [] req[h].kind = "play" -> "check"
  <2>1. req' = [req EXCEPT ![h].p = pol[req[h].b], ![h].at = x]
    BY <1>3, Zenon DEF Load
  <2>2. UNCHANGED <<tick, seen, puts>> /\ req[h].at = "load"
    BY <1>3 DEF Load, stores, ticking
  <2>3. x \notin {"ticking", "reply"}
    BY <1>1, <2>2 DEF ReqOK
  <2> HIDE DEF x
  <2>4. req'[h].at = x /\ req'[h].put = req[h].put /\ \A o \in Handlers \ {h} : req'[o] = req[o]
    BY <1>1, <2>1 DEF ReqsOK, ReqOK, HasFields
  <2>5. QED
    BY <2>2, <2>3, <2>4 DEF Quiet
<1>4. CASE \/ PauseRun(h) \/ StopRun(h) \/ InPlace(h) \/ ResumeRun(h) \/ StartRun(h)
           \/ StartScenario(h) \/ StartSweep(h) \/ StopSweep(h) \/ Answer(h)
  <2>1. UNCHANGED <<tick, seen, puts>> /\ req[h].at # "ticking"
    BY <1>4 DEF PauseRun, StopRun, InPlace, ResumeRun, StartRun, StartScenario, StartSweep,
       StopSweep, Answer, stores, ticking
  <2>2. \/ Reply(h) \/ Go(h, "bump") \/ Go(h, "put") \/ Go(h, "load") \/ Go(h, "start")
    BY <1>4 DEF PauseRun, StopRun, InPlace, ResumeRun, StartRun, StartScenario, StartSweep,
       StopSweep, Answer
  <2>3. QED
    BY <1>1, <2>1, <2>2, GoesQuietly
<1>5. CASE Commit(h)
  <2>1. UNCHANGED <<tick, seen>> /\ req[h].at = "put"
    BY <1>5 DEF Commit, ticking
  <2>2. puts' \in {puts, puts + 1}
    BY <1>5 DEF Commit, Put, stores
  <2>3. Reply(h) \/ req' = [req EXCEPT ![h].at = "bump", ![h].put = puts']
    BY <1>5, Zenon DEF Commit, Reply
  <2>4. \/ req'[h] = Idle /\ \A o \in Handlers \ {h} : req'[o] = req[o]
        \/ /\ req'[h].at = "bump" /\ req'[h].put = puts'
           /\ \A o \in Handlers \ {h} : req'[o] = req[o]
    <3>1. CASE Reply(h)
      BY <1>1, <3>1, Replies
    <3>2. CASE req' = [req EXCEPT ![h].at = "bump", ![h].put = puts']
      <4> DEFINE n == puts'
      <4>1. req' = [req EXCEPT ![h].at = "bump", ![h].put = n]
        BY <3>2
      <4> HIDE DEF n
      <4>2. req'[h].at = "bump" /\ req'[h].put = n /\ \A o \in Handlers \ {h} : req'[o] = req[o]
        BY <1>1, <4>1 DEF ReqsOK, ReqOK, HasFields
      <4>3. QED
        BY <4>2 DEF n
    <3>3. QED
      BY <2>3, <3>1, <3>2
  <2>5. QED
    BY <2>1, <2>2, <2>4 DEF Quiet, Idle
<1>6. CASE ReadAll(h)
  <2>1. req' = [req EXCEPT ![h].all = pol, ![h].at = "replace"]
        /\ UNCHANGED <<tick, seen, puts>> /\ req[h].at = "read"
    BY <1>6 DEF ReadAll, stores, ticking
  <2>2. req'[h].at = "replace" /\ req'[h].put = req[h].put
        /\ \A o \in Handlers \ {h} : req'[o] = req[o]
    BY <1>1, <2>1 DEF ReqsOK, ReqOK, HasFields
  <2>3. QED
    BY <2>1, <2>2 DEF Quiet
<1>7. CASE Import(h)
  <2>1. UNCHANGED <<tick, seen>> /\ req[h].at = "replace" /\ puts' \in {puts, puts + 1}
    BY <1>7 DEF Import, stores, ticking
  <2>2. Reply(h) \/ req' = [req EXCEPT ![h].at = "pause", ![h].put = puts', ![h].all = <<>>]
    BY <1>7, Zenon DEF Import
  <2>3. \/ req'[h] = Idle /\ \A o \in Handlers \ {h} : req'[o] = req[o]
        \/ /\ req'[h].at = "pause" /\ req'[h].put = puts'
           /\ \A o \in Handlers \ {h} : req'[o] = req[o]
    <3>1. CASE Reply(h)
      BY <1>1, <3>1, Replies
    <3>2. CASE req' = [req EXCEPT ![h].at = "pause", ![h].put = puts', ![h].all = <<>>]
      <4> DEFINE n == puts'
      <4>1. req' = [req EXCEPT ![h].at = "pause", ![h].put = n, ![h].all = <<>>]
        BY <3>2
      <4> HIDE DEF n
      <4>2. req'[h].at = "pause" /\ req'[h].put = n /\ \A o \in Handlers \ {h} : req'[o] = req[o]
        BY <1>1, <4>1 DEF ReqsOK, ReqOK, HasFields
      <4>3. QED
        BY <4>2 DEF n
    <3>3. QED
      BY <2>2, <3>1, <3>2
  <2>4. QED
    BY <2>1, <2>3 DEF Quiet, Idle
<1>8. CASE Check(h)
  <2> DEFINE now  == IF req[h].kind = "play" THEN req[h].now ELSE clock
             pats == IF req[h].kind # "scenario" THEN req[h].pats
                     ELSE [d \in Devices |-> pol[d].pat]
  <2>1. UNCHANGED <<tick, seen, puts>> /\ req[h].at = "check"
    BY <1>8 DEF Check, stores, ticking
  <2>2. Reply(h) \/ req' = [req EXCEPT ![h].at = "start", ![h].now = now, ![h].pats = pats]
    <3>1. \/ req' = [req EXCEPT ![h].at = "start",
                            ![h].now = IF req[h].kind = "play" THEN @ ELSE clock,
                            ![h].pats = IF req[h].kind # "scenario" THEN @
                                        ELSE [d \in Devices |-> pol[d].pat]]
          \/ Reply(h)
      BY <1>8, Zenon DEF Check
    <3>2. QED
      BY <1>1, <3>1 DEF ReqsOK
  <2> HIDE DEF now, pats
  <2>3. \/ req'[h] = Idle /\ \A o \in Handlers \ {h} : req'[o] = req[o]
        \/ /\ req'[h].at = "start" /\ req'[h].put = req[h].put
           /\ \A o \in Handlers \ {h} : req'[o] = req[o]
    BY <1>1, <2>2 DEF ReqsOK, ReqOK, HasFields, Reply
  <2>4. QED
    BY <2>1, <2>3 DEF Quiet, Idle
<1>9. QED
  BY <1>2, <1>3, <1>4, <1>5, <1>6, <1>7, <1>8 DEF Request

\* A request that runs its own tick has its writes read by it.
LEMMA BumpsAnswer ==
  ASSUME Inv, NEW h \in Handlers, BumpControl(h)
  PROVE  PutsOK' /\ Answering' /\ AppliesBeforeReply'
<1>1. /\ UNCHANGED <<puts, seen>> /\ tick'.by = h /\ tick'.puts = puts
      /\ tick'.at \in {"judge", "advance"} /\ tick.at = "rest"
  BY Began DEF BumpControl, Inv
<1>2. /\ req'[h].at = "ticking" /\ req'[h].put = req[h].put
      /\ \A o \in Handlers \ {h} : req'[o] = req[o]
  BY GoesBriefly DEF BumpControl, Inv, DriveInv
<1>3. PutsOK'
  BY <1>1, <1>2 DEF Inv, PutsOK
<1>4. Answering'
  <2>1. \A o \in Handlers : req[o].at # "ticking"
    BY <1>1 DEF Inv, Answering
  <2>2. \A o \in Handlers \ {h} : req'[o].at # "ticking"
    BY <1>2, <2>1
  <2>3. puts \in Nat /\ seen <= puts /\ req[h].put <= puts /\ seen \in Nat
    BY DEF Inv, PutsOK, Answering
  <2>4. QED
    BY <1>1, <1>2, <2>2, <2>3 DEF Answering
<1>5. AppliesBeforeReply'
  BY <1>1, <1>2 DEF Inv, AppliesBeforeReply
<1>6. QED
  BY <1>3, <1>4, <1>5

\* A tick that moves on, or the engine's own that begins, disturbs none of it.
LEMMA TicksAnswer ==
  ASSUME Inv, TickerTicks \/ JudgeSweep \/ TakeResult \/ KeepLadder \/ AdvanceRuns
  PROVE  PutsOK' /\ Answering' /\ AppliesBeforeReply'
<1>0. TickFields
  BY DEF Inv, DriveInv, TickOK
<1>1. UNCHANGED <<req, seen>> /\ puts' \in {puts, puts + 1}
  BY DEF TickerTicks, Begins, JudgeSweep, TakeResult, KeepLadder, AdvanceRuns, Put, stores
<1>2. CASE TickerTicks
  <2>1. /\ UNCHANGED <<puts, seen>> /\ tick'.by = None /\ tick'.puts = puts /\ tick.at = "rest"
    BY <1>2, Began DEF TickerTicks, Inv
  <2>2. QED
    BY <1>1, <2>1 DEF Inv, PutsOK, Answering, AppliesBeforeReply
<1>3. CASE JudgeSweep \/ TakeResult \/ KeepLadder \/ AdvanceRuns
  <2>1. tick.at # "rest" /\ tick'.at # "rest" /\ tick'.by = tick.by /\ tick'.puts = tick.puts
    <3>1. CASE \E x \in {"take", "advance", "apply"} : tick' = [tick EXCEPT !.at = x]
      BY <1>0, <1>3, <3>1, TickOn DEF JudgeSweep, TakeResult, KeepLadder, AdvanceRuns
    <3>2. CASE /\ TakeResult
               /\ tick' = [tick EXCEPT !.at = "keep", !.gen = sweep.gen, !.mac = sweep.mac,
                                       !.p = pol[sweep.mac]]
      BY <1>0, <3>2 DEF TickFields, TakeResult
    <3>3. QED
      BY <1>3, <3>1, <3>2 DEF JudgeSweep, TakeResult, KeepLadder, AdvanceRuns
  <2>2. QED
    BY <1>1, <2>1 DEF Inv, PutsOK, Answering, AppliesBeforeReply
<1>4. QED
  BY <1>2, <1>3

\* Applying answers the writes that were read.
LEMMA AppliesAnswer ==
  ASSUME Inv, Apply
  PROVE  PutsOK' /\ Answering' /\ AppliesBeforeReply'
<1>1. /\ tick.at = "apply" /\ seen' = tick.puts /\ puts' = puts /\ tick' = Resting
      /\ IF tick.by = None THEN UNCHANGED req ELSE Go(tick.by, "reply")
  BY DEF Apply, stores
<1>2. /\ tick.puts \in Nat /\ seen <= tick.puts /\ tick.puts <= puts
      /\ tick.by # None => tick.by \in Handlers /\ req[tick.by].at = "ticking"
      /\ \A h \in Handlers : req[h].at = "ticking" => tick.by = h /\ req[h].put <= tick.puts
  BY <1>1 DEF Inv, Answering
<1>3. tick'.at = "rest"
  BY <1>1 DEF Resting
<1>4. CASE tick.by = None
  <2>1. \A h \in Handlers : req[h].at # "ticking"
    BY <1>2, <1>4, NoneAssumption
  <2>2. req' = req
    BY <1>1, <1>4
  <2>3. QED
    BY <1>1, <1>2, <1>3, <2>1, <2>2 DEF Inv, PutsOK, Answering, AppliesBeforeReply
<1>5. CASE tick.by # None
  <2> DEFINE h == tick.by
  <2>1. h \in Handlers /\ req[h].put <= tick.puts
    BY <1>2, <1>5
  <2>2. /\ req'[h].at = "reply" /\ req'[h].put = req[h].put
        /\ \A o \in Handlers \ {h} : req'[o] = req[o]
    BY <1>1, <1>5, <2>1, GoesBriefly DEF Inv, DriveInv
  <2> HIDE DEF h
  <2>3. \A o \in Handlers \ {h} : req'[o].at # "ticking"
    BY <1>2, <2>2 DEF h
  <2>4. QED
    BY <1>1, <1>2, <1>3, <2>1, <2>2, <2>3 DEF Inv, PutsOK, Answering, AppliesBeforeReply
<1>6. QED
  BY <1>4, <1>5

LEMMA SweepKept ==
  ASSUME Inv, OwnWindows, Next
  PROVE  OwnWindows'
<1>1. CASE JudgeSweep
  <2>1. IsSweep(sweep)
    BY <1>1 DEF JudgeSweep, Inv, DriveInv, TickOK
  <2>2. \/ UNCHANGED <<sweep, heard>>
        \/ sweep.gen = tick.gen /\ sweep' \in Judged(sweep) /\ heard' = heard \cup {tick.gen}
    BY <1>1 DEF JudgeSweep
  <2>3. CASE UNCHANGED <<sweep, heard>>
    BY <2>3 DEF OwnWindows, IsSweep
  <2>4. CASE sweep.gen = tick.gen /\ sweep' \in Judged(sweep) /\ heard' = heard \cup {tick.gen}
    <3>1. sweep'.gen = sweep.gen
      BY <2>1, <2>4, Judgment
    <3>2. QED
      BY <2>1, <2>4, <3>1 DEF OwnWindows
  <2>5. QED
    BY <2>2, <2>3, <2>4
<1>2. CASE TakeResult
  <2>1. heard' = heard
    BY <1>2 DEF TakeResult
  <2>2. CASE sweep' = sweep
    BY <2>1, <2>2 DEF OwnWindows, IsSweep
  <2>3. CASE sweep # None /\ sweep' = [sweep EXCEPT !.stored = TRUE]
    <3>1. IsSweep(sweep)
      BY <2>3 DEF Inv, DriveInv, SweepOK
    <3>2. QED
      BY <2>1, <2>3, <3>1 DEF OwnWindows, IsSweep
  <2>4. QED
    BY <1>2, <2>2, <2>3 DEF TakeResult
<1>3. ASSUME NEW h \in Handlers, StartSweep(h)
      PROVE  OwnWindows'
  BY <1>3 DEF StartSweep, OwnWindows, IsSweep, sweeper
<1>4. ASSUME NEW h \in Handlers, StopSweep(h)
      PROVE  OwnWindows'
  <2>1. heard' = heard
    BY <1>4 DEF StopSweep
  <2>2. CASE Sweeping(req[h].b)
    <3>1. sweep # None /\ sweep' = [sweep EXCEPT !.state = "failed"]
      BY <1>4, <2>2 DEF StopSweep, Sweeping
    <3>2. IsSweep(sweep)
      BY <3>1 DEF Inv, DriveInv, SweepOK
    <3>3. QED
      BY <2>1, <3>1, <3>2 DEF OwnWindows, IsSweep
  <2>3. CASE ~Sweeping(req[h].b)
    BY <1>4, <2>1, <2>3 DEF StopSweep, OwnWindows, IsSweep
  <2>4. QED
    BY <2>2, <2>3
<1>5. CASE \/ TickerTicks \/ KeepLadder \/ AdvanceRuns \/ Apply \/ Pass
           \/ \E d \in Devices : Move(d)
  BY <1>5 DEF TickerTicks, Begins, KeepLadder, AdvanceRuns, Apply, Pass, Move, sweeper,
     OwnWindows, IsSweep
<1>6. ASSUME NEW h \in Handlers,
             \/ Arrive(h) \/ Load(h) \/ PauseRun(h) \/ StopRun(h) \/ InPlace(h) \/ Commit(h)
             \/ ReadAll(h) \/ Import(h) \/ ResumeRun(h) \/ Check(h) \/ StartRun(h)
             \/ StartScenario(h) \/ BumpControl(h) \/ Answer(h)
      PROVE  OwnWindows'
  BY <1>6 DEF Arrive, Load, PauseRun, StopRun, InPlace, Commit, ReadAll, Import, ResumeRun,
     Check, StartRun, StartScenario, BumpControl, Begins, Answer, sweeper, OwnWindows,
     IsSweep
<1>7. QED
  BY <1>1, <1>2, <1>3, <1>4, <1>5, <1>6, Zenon DEF Next, Tick, Request

----------------------------------------------------------------------------

LEMMA DriveStep ==
  ASSUME Inv, Next
  PROVE  Inv' /\ Drives
<1>1. DriveInv /\ PutsOK /\ Answering /\ AppliesBeforeReply
  BY DEF Inv
<1>2. ASSUME NEW h \in Handlers, Request(h)
      PROVE  Inv' /\ Drives
  <2>1. DriveInv' /\ Drives
    BY <1>1, <1>2, Arrives, Loads, PausesAndStops, InPlaces, Commits, ReadsAll, Imports,
       Resumes, Checks, StartsRuns, Sweeps, Bumps DEF Request, Arrive, Drives
  <2>2. PutsOK' /\ Answering' /\ AppliesBeforeReply'
    BY <1>1, <1>2, RequestsAreQuiet, QuietKeeps, BumpsAnswer
  <2>3. QED
    BY <2>1, <2>2 DEF Inv
<1>3. CASE Tick
  <2>1. DriveInv' /\ Drives
    <3>1. CASE Apply
      <4>1. tick.by # None => tick.by \in Handlers /\ req[tick.by].at = "ticking"
        BY <1>1, <3>1 DEF Apply, Answering
      <4>2. QED
        BY <1>1, <3>1, <4>1, Applies
    <3>2. QED
      BY <1>1, <1>3, <3>1, Ticks, Judges, TakesTheResult, KeepsLadder, Advances DEF Tick
  <2>2. PutsOK' /\ Answering' /\ AppliesBeforeReply'
    BY <1>3, TicksAnswer, AppliesAnswer DEF Tick
  <2>3. QED
    BY <2>1, <2>2 DEF Inv
<1>4. CASE Pass \/ \E d \in Devices : Move(d)
  <2>1. DriveInv' /\ Drives
    BY <1>1, <1>4, TimePasses, Moved
  <2>2. UNCHANGED <<tick, req, puts, seen>>
    BY <1>4 DEF Pass, Move, stores, ticking
  <2>3. PutsOK' /\ Answering' /\ AppliesBeforeReply'
    BY <1>1, <2>2 DEF PutsOK, Answering, AppliesBeforeReply
  <2>4. QED
    BY <2>1, <2>3 DEF Inv
<1>5. QED
  BY <1>2, <1>3, <1>4 DEF Next

LEMMA DriveStutter ==
  ASSUME UNCHANGED vars
  PROVE  (Inv => Inv') /\ Drives /\ (OwnWindows => OwnWindows')
<1>1. UNCHANGED <<clock, playerVars, pol, puts, sweep, heard, tick, seen, req, left>>
  BY DEF vars, playerVars, stores, sweeper, ticking
<1>2. DriveInv => DriveInv'
  <2>1. ReqsOK => ReqsOK'
    BY <1>1 DEF ReqsOK, ReqOK, Timed, Fresh, ArePolicies, IsPolicy
  <2>2. QED
    BY <1>1, <2>1, OnlyTick DEF DriveInv, TickOK, TickFields, Fresh, IsSweep, IsPolicy, SweepOK
<1>3. QED
  BY <1>1, <1>2 DEF Inv, PutsOK, Answering, AppliesBeforeReply, OwnWindows, IsSweep, Drives

\* What the daemon does to its Player, by requests and by the tick, is what the Player
\* allows: it is handed no stale clock, no pattern outside the library and no scenario
\* id it has seen (playPattern, startScenario, tick).
THEOREM DrivesThePlayer == Spec => PlayerSpec
<1>1. Init => PlayerInit /\ Inv
  BY InitDrive
<1>2. Inv /\ [Next]_vars => Inv' /\ [PlayerNext]_playerVars
  BY DriveStep, DriveStutter DEF Drives
<1>3. QED
  BY <1>1, <1>2, PTL DEF Spec, PlayerSpec

\* So the members of a scenario stay at one moment of it ...
THEOREM DrivenInLockstep == Spec => []Lockstep
BY DrivesThePlayer, PlaysInLockstep, PTL

\* ... and every event fires once a pass, with the API and the tick racing.
THEOREM DrivenOncePerPass == Spec => []OncePerPass
BY DrivesThePlayer, FiresOncePerPass, PTL

\* A write is answered only when a tick that had read it has been through the kernel
\* (BumpControl).
THEOREM AnswersWhatIsApplied == Spec => []AppliesBeforeReply
<1>1. Init => Inv
  BY InitDrive
<1>2. Inv /\ [Next]_vars => Inv'
  BY DriveStep, DriveStutter
<1>3. Inv => AppliesBeforeReply
  BY DEF Inv
<1>4. QED
  BY <1>1, <1>2, <1>3, PTL DEF Spec

\* A sweep is judged only on windows that were read for it (withRun).
THEOREM JudgesItsOwnSweep == Spec => []SweepKeepsItsOwn
<1>1. Init => Inv /\ OwnWindows
  BY InitDrive
<1>2. Inv /\ OwnWindows /\ [Next]_vars => (Inv /\ OwnWindows)'
  BY DriveStep, DriveStutter, SweepKept
<1>3. Inv /\ OwnWindows => SweepKeepsItsOwn
  BY DEF Inv, DriveInv, SweepOK, OwnWindows, SweepKeepsItsOwn
<1>4. QED
  BY <1>1, <1>2, <1>3, PTL DEF Spec

----------------------------------------------------------------------------
(***************************************************************************)
(* The climb of a sweep (SweepClimb), of which Drive knows only that one   *)
(* level is judged after another.                                          *)
(***************************************************************************)

----------------------------------------------------------------------------
(* Numbers.                                                                *)

LEMMA LeastNat ==
  ASSUME NEW S \in SUBSET Nat, S # {}
  PROVE  Min(S) \in S /\ \A y \in S : Min(S) <= y
<1>1. PICK x \in S : \A y \in S : ~(<<y, x>> \in OpToRel(<, Nat))
  BY NatLessThanWellFounded, WFMin
<1>2. \A y \in S : ~(y < x)
  BY <1>1 DEF OpToRel
<1>3. \A y \in S : x <= y
  BY <1>2
<1> QED BY <1>3 DEF Min

\* Of finitely many there is a greatest one.
LEMMA Greatest ==
  ASSUME NEW D, IsFiniteSet(D), D # {}, NEW f \in [D -> Nat]
  PROVE  \E i \in D : \A j \in D : f[j] <= f[i]
<1> DEFINE Above(i) == {j \in D : f[i] < f[j]}
           Sizes == {Cardinality(Above(i)) : i \in D}
<1>1. \A i \in D : IsFiniteSet(Above(i)) /\ Cardinality(Above(i)) \in Nat
  <2> TAKE i \in D
  <2>1. Above(i) \in SUBSET D
    OBVIOUS
  <2> HIDE DEF Above
  <2>2. IsFiniteSet(Above(i))
    BY <2>1, FS_Subset
  <2> QED BY <2>2, FS_CardinalityType
<1>2. Sizes \in SUBSET Nat /\ Sizes # {}
  <2> HIDE DEF Above
  <2> QED BY <1>1
<1>3. PICK n \in Sizes : \A m \in Sizes : n <= m
  <2> HIDE DEF Sizes
  <2> QED BY <1>2, LeastNat
<1>4. PICK i \in D : n = Cardinality(Above(i))
  <2> HIDE DEF Above
  <2> QED OBVIOUS
<1>5. ASSUME NEW j \in D, f[i] < f[j] PROVE FALSE
  <2>1. Above(j) \subseteq Above(i) /\ j \in Above(i) /\ j \notin Above(j)
    BY <1>5
  <2> HIDE DEF Above
  <2>2. Cardinality(Above(j)) \in Sizes /\ Cardinality(Above(j)) \in Nat /\ Cardinality(Above(i)) \in Nat
    BY <1>1
  <2>3. Above(j) \in SUBSET Above(i) /\ IsFiniteSet(Above(i)) /\ Above(i) # Above(j)
    BY <1>1, <2>1
  <2>4. Cardinality(Above(j)) <= Cardinality(Above(i)) /\ Cardinality(Above(i)) # Cardinality(Above(j))
    BY <2>3, FS_Subset
  <2> HIDE DEF Sizes
  <2> QED BY <1>3, <1>4, <2>2, <2>4
<1>6. ASSUME NEW j \in D PROVE f[j] <= f[i]
  BY <1>5
<1> QED BY <1>6

LEMMA GreatestNat ==
  ASSUME NEW S \in SUBSET Nat, IsFiniteSet(S), S # {}
  PROVE  Max(S) \in S /\ \A y \in S : y <= Max(S)
<1> DEFINE f == [x \in S |-> x]
<1>1. f \in [S -> Nat] /\ \A x \in S : f[x] = x
  OBVIOUS
<1> HIDE DEF f
<1>2. PICK x \in S : \A y \in S : f[y] <= f[x]
  BY <1>1, Greatest
<1>3. \A y \in S : x >= y
  BY <1>1, <1>2
<1> QED BY <1>3 DEF Max

\* Ratios of natural numbers.
LEMMA TimesNat ==
  ASSUME NEW x \in Nat, NEW ratio \in Nat
  PROVE  Times(x, ratio) \in Nat
BY DEF Times

LEMMA TimesMonotone ==
  ASSUME NEW x \in Nat, NEW y \in Nat, NEW ratio \in Nat, x <= y
  PROVE  Times(x, ratio) <= Times(y, ratio)
<1>1. x * ratio \in Nat /\ y * ratio \in Nat /\ x * ratio <= y * ratio
  OBVIOUS
<1> QED BY <1>1 DEF Times

\* lowPct is one of the values.
LEMMA LowPctNat ==
  ASSUME NEW D, IsFiniteSet(D), D # {}, NEW f \in [D -> Nat]
  PROVE  LowPct(f) \in Nat
<1> DEFINE S == {v \in {f[i] : i \in D} : Cardinality({i \in D : f[i] <= v}) > (Cardinality(D) - 1) \div 4}
<1>1. PICK top \in D : \A j \in D : f[j] <= f[top]
  BY Greatest
<1>2. {i \in D : f[i] <= f[top]} = D
  BY <1>1
<1>3. Cardinality(D) \in Nat /\ Cardinality(D) # 0
  BY FS_CardinalityType, FS_EmptySet
<1>4. Cardinality(D) > (Cardinality(D) - 1) \div 4
  BY <1>3
<1>5. f[top] \in S /\ S \in SUBSET Nat
  BY <1>2, <1>4
<1>6. DOMAIN f = D /\ Range(f) = {f[i] : i \in D}
  BY DEF Range
<1>7. LowPct(f) = Min(S)
  BY <1>6 DEF LowPct
<1> HIDE DEF S
<1> QED BY <1>5, <1>7, LeastNat

\* A function that begins with 1000 and widens by 1.35 at each step.
WidensTo(g, n) ==
  g \in [0..n -> Nat] /\ g[0] = 1000 /\ \A m \in 1..n : g[m] = Times(g[m - 1], 1350)

LEMMA WidensOnce ==
  ASSUME NEW n \in Nat, NEW g, WidensTo(g, n), NEW k \in 0..n, NEW h, WidensTo(h, k)
  PROVE  g[k] = h[k]
<1> DEFINE Apart == {m \in 0..k : g[m] # h[m]}
<1>1. SUFFICES ASSUME Apart # {} PROVE FALSE
  OBVIOUS
<1>2. PICK m \in Apart : \A l \in Apart : m <= l
  <2>1. Apart \in SUBSET Nat
    OBVIOUS
  <2> HIDE DEF Apart
  <2> QED BY <1>1, <2>1, LeastNat
<1>3. m # 0 /\ m \in 1..k /\ m \in 1..n
  BY <1>2 DEF WidensTo
<1>4. m - 1 \in 0..k /\ m - 1 \notin Apart
  BY <1>2, <1>3
<1>5. g[m - 1] = h[m - 1]
  BY <1>4
<1> QED BY <1>2, <1>3, <1>5 DEF WidensTo

LEMMA WidensFar == ASSUME NEW n \in Nat PROVE \E g : WidensTo(g, n)
<1> DEFINE Short == {m \in Nat : ~ \E g : WidensTo(g, m)}
<1>1. SUFFICES ASSUME Short # {} PROVE FALSE
  OBVIOUS
<1>2. PICK m \in Short : \A l \in Short : m <= l
  <2>1. Short \in SUBSET Nat
    OBVIOUS
  <2> HIDE DEF Short
  <2> QED BY <1>1, <2>1, LeastNat
<1>3. m # 0
  <2>1. WidensTo([l \in 0..0 |-> 1000], 0)
    BY DEF WidensTo
  <2> QED BY <1>2, <2>1
<1>4. m - 1 \in Nat /\ m - 1 \notin Short
  BY <1>2, <1>3
<1>5. PICK g : WidensTo(g, m - 1)
  BY <1>4
<1>6. g \in [0..(m - 1) -> Nat] /\ g[0] = 1000 /\ \A l \in 1..(m - 1) : g[l] = Times(g[l - 1], 1350)
  BY <1>5 DEF WidensTo
<1> DEFINE next == Times(g[m - 1], 1350)
           h == [l \in 0..m |-> IF l = m THEN next ELSE g[l]]
<1>7. next \in Nat
  <2> DEFINE z == g[m - 1]
  <2>1. z \in Nat
    BY <1>4, <1>6
  <2> HIDE DEF z
  <2>2. Times(z, 1350) \in Nat
    BY <2>1, TimesNat
  <2> QED BY <2>2 DEF z
<1> HIDE DEF next
<1>8. h \in [0..m -> Nat] /\ h[m] = next /\ \A l \in 0..(m - 1) : h[l] = g[l]
  BY <1>2, <1>3, <1>6, <1>7
<1> HIDE DEF h
<1>9. h[m] = Times(h[m - 1], 1350)
  BY <1>4, <1>8 DEF next
<1>10. ASSUME NEW l \in 1..m, l # m PROVE h[l] = Times(h[l - 1], 1350)
  BY <1>6, <1>8, <1>10
<1>11. h[0] = 1000
  BY <1>4, <1>6, <1>8
<1>12. WidensTo(h, m)
  BY <1>8, <1>9, <1>10, <1>11 DEF WidensTo
<1> QED BY <1>2, <1>12

LEMMA WidenedNat == \A n \in Nat : Widened[n] \in Nat
<1> DEFINE Reach(n) == CHOOSE g : WidensTo(g, n)
           W == [n \in Nat |-> Reach(n)[n]]
           Widen(w) == [n \in Nat |-> IF n = 0 THEN 1000 ELSE Times(w[n - 1], 1350)]
<1>1. \A n \in Nat : WidensTo(Reach(n), n)
  BY WidensFar
<1> HIDE DEF Reach
<1>2. ASSUME NEW n \in Nat PROVE W[n] = IF n = 0 THEN 1000 ELSE Times(W[n - 1], 1350)
  <2>1. WidensTo(Reach(n), n) /\ W[n] = Reach(n)[n]
    BY <1>1
  <2>2. CASE n = 0
    BY <2>1, <2>2 DEF WidensTo
  <2>3. CASE n # 0
    <3>1. n - 1 \in Nat /\ n - 1 \in 0..n /\ n \in 1..n
      BY <2>3
    <3>2. WidensTo(Reach(n - 1), n - 1) /\ W[n - 1] = Reach(n - 1)[n - 1]
      BY <1>1, <3>1
    <3>3. Reach(n)[n - 1] = Reach(n - 1)[n - 1]
      BY <2>1, <3>1, <3>2, WidensOnce
    <3> HIDE DEF W
    <3> QED BY <2>1, <2>3, <3>1, <3>2, <3>3 DEF WidensTo
  <2> QED BY <2>2, <2>3
<1>3. W = Widen(W)
  <2>1. W = [n \in Nat |-> W[n]]
    OBVIOUS
  <2> HIDE DEF W
  <2>2. \A n \in Nat : W[n] = Widen(W)[n]
    BY <1>2
  <2>3. Widen(W) = [n \in Nat |-> Widen(W)[n]]
    OBVIOUS
  <2> HIDE DEF Widen
  <2> QED BY <2>1, <2>2, <2>3
<1> HIDE DEF W
<1>4. Widened = Widen(Widened)
  BY <1>3 DEF Widened
<1>5. \A n \in Nat : Widened[n] = IF n = 0 THEN 1000 ELSE Times(Widened[n - 1], 1350)
  BY <1>4
<1> HIDE DEF Widen
<1> DEFINE Strange == {n \in Nat : Widened[n] \notin Nat}
<1>6. SUFFICES ASSUME Strange # {} PROVE FALSE
  OBVIOUS
<1>7. PICK n \in Strange : \A m \in Strange : n <= m
  <2>1. Strange \in SUBSET Nat
    OBVIOUS
  <2> HIDE DEF Strange
  <2> QED BY <1>6, <2>1, LeastNat
<1>8. n # 0
  BY <1>5, <1>7
<1>9. n - 1 \in Nat /\ n - 1 \notin Strange
  BY <1>7, <1>8
<1>10. Widened[n - 1] \in Nat
  BY <1>9
<1>11. Widened[n] = Times(Widened[n - 1], 1350)
  BY <1>5, <1>7, <1>8
<1>12. Widened[n] \in Nat
  <2> DEFINE z == Widened[n - 1]
  <2>1. z \in Nat
    BY <1>10
  <2> HIDE DEF z, Strange
  <2>2. Times(z, 1350) \in Nat
    BY <2>1, TimesNat
  <2> QED BY <1>11, <2>2 DEF z
<1> QED BY <1>7, <1>12

----------------------------------------------------------------------------
(* What the run has learned are numbers.                                   *)

LEMMA ParamsSound ==
  /\ Params.maxLevels \in Nat /\ Params.maxLevels >= 2
  /\ Params.start \in Nat /\ Params.start > 0
<1>1. Params.maxLevels \in Nat /\ Params.start \in Nat
  BY ParamsAssumption DEF SweepParams
<1>2. Within(Params.start, 1, 100000) /\ Within(Params.maxLevels, 2, 200)
  BY ParamsAssumption DEF ValidSweepParams
<1>3. Params.start > 0 /\ Params.maxLevels >= 2
  BY <1>1, <1>2 DEF Within
<1> QED BY <1>1, <1>2, <1>3

LEMMA OverNat == ASSUME NEW x \in Nat, NEW y \in Nat \ {0} PROVE Over(x, y) \in Nat
<1>1. x * 1000 \in Nat
  OBVIOUS
<1> DEFINE z == x * 1000
<1> HIDE DEF z
<1>2. z \in Nat => z \div y \in Nat
  OBVIOUS
<1> QED BY <1>1, <1>2 DEF Over, z

LEMMA HigherNat ==
  ASSUME NEW x \in Nat, NEW y \in Nat
  PROVE  /\ Higher(x, y) \in Nat /\ Higher(x, y) >= x /\ Higher(x, y) >= y
         /\ Lower(x, y) \in Nat /\ Lower(x, y) <= x /\ Lower(x, y) <= y
BY DEF Higher, Lower

LEMMA RungsNat ==
  ASSUME NEW r \in Runs
  PROVE  /\ Len(r.rungs) \in Nat
         /\ \A i \in 1..Len(r.rungs) : r.rungs[i] \in Rungs
         /\ \A i \in 1..Len(r.rungs) : r.rungs[i].rate \in Nat \ {0} /\ r.rungs[i].upAt \in Nat
<1>1. r.rungs \in Seq(Rungs)
  BY DEF Runs
<1>2. Len(r.rungs) \in Nat /\ \A i \in 1..Len(r.rungs) : r.rungs[i] \in Rungs
  BY <1>1
<1> QED BY <1>2 DEF Rungs

LEMMA HeadroomNat == ASSUME NEW r \in Runs PROVE HeadroomFactor(r) \in Nat
<1> DEFINE taken == {i \in 2..Len(r.rungs) : r.rungs[i].upAt > 0}
           ratio == [i \in taken |-> Over(r.rungs[i].upAt, r.rungs[i].rate)]
<1>1. IsFiniteSet(taken)
  <2>1. IsFiniteSet(2..Len(r.rungs)) /\ taken \in SUBSET (2..Len(r.rungs))
    BY FS_Interval, RungsNat
  <2> HIDE DEF taken
  <2> QED BY <2>1, FS_Subset
<1>2. ratio \in [taken -> Nat]
  <2>1. ASSUME NEW i \in taken PROVE Over(r.rungs[i].upAt, r.rungs[i].rate) \in Nat
    <3> DEFINE up == r.rungs[i].upAt  rate == r.rungs[i].rate
    <3>1. i \in 1..Len(r.rungs)
      BY RungsNat
    <3>2. up \in Nat /\ rate \in Nat \ {0}
      BY <3>1, RungsNat
    <3> HIDE DEF up, rate
    <3>3. Over(up, rate) \in Nat
      BY <3>2, OverNat
    <3> QED BY <3>3 DEF up, rate
  <2> HIDE DEF taken
  <2> QED BY <2>1
<1>3. HeadroomFactor(r) = IF taken = {} THEN 1250 ELSE Higher(1200, Lower(2500, LowPct(ratio)))
  BY DEF HeadroomFactor, DefaultHeadroom
<1> HIDE DEF ratio, taken
<1>4. taken # {} => LowPct(ratio) \in Nat
  BY <1>1, <1>2, LowPctNat
<1>5. ASSUME NEW x \in Nat PROVE Higher(1200, Lower(2500, x)) \in Nat
  BY HigherNat
<1> QED BY <1>3, <1>4, <1>5

LEMMA GapsNat ==
  ASSUME NEW r \in Runs
  PROVE  IsFiniteSet(Trusted(r)) /\ \A i \in Trusted(r) : Ratio(r, i) \in Nat
<1>1. Trusted(r) \in SUBSET (2..Len(r.rungs)) /\ IsFiniteSet(2..Len(r.rungs))
  BY RungsNat, FS_Interval DEF Trusted
<1>2. ASSUME NEW i \in 2..Len(r.rungs) PROVE Ratio(r, i) \in Nat
  <2>1. i \in 1..Len(r.rungs) /\ i - 1 \in 1..Len(r.rungs)
    BY RungsNat
  <2>2. r.rungs[i].rate \in Nat /\ r.rungs[i - 1].rate \in Nat \ {0}
    BY <2>1, RungsNat
  <2> QED BY <2>2, OverNat DEF Ratio
<1> QED BY <1>1, <1>2, FS_Subset

LEMMA SpacingNat == ASSUME NEW r \in Runs PROVE SpacingEstimate(r) \in Nat
<1> DEFINE T == Trusted(r)
           f == [i \in T |-> Ratio(r, i)]
<1>1. IsFiniteSet(T) /\ f \in [T -> Nat]
  BY GapsNat
<1>2. SpacingEstimate(r) = IF T = {} THEN 1450 ELSE LowPct(f)
  BY DEF SpacingEstimate, DefaultSpacing
<1> HIDE DEF f, T
<1>3. T # {} => LowPct(f) \in Nat
  BY <1>1, LowPctNat
<1> QED BY <1>2, <1>3

LEMMA MinRatioNat ==
  ASSUME NEW r \in Runs, Trusted(r) # {}
  PROVE  MinRatio(r) \in Nat
<1> DEFINE S == {Ratio(r, i) : i \in Trusted(r)}
<1>1. S \in SUBSET Nat /\ S # {}
  BY GapsNat
<1>2. MinRatio(r) = Min(S)
  BY DEF MinRatio
<1> HIDE DEF S
<1> QED BY <1>1, <1>2, LeastNat

LEMMA TargetNat ==
  ASSUME NEW r \in Runs, Calibrated(r)
  PROVE  Target(r) \in Nat
<1>1. Trusted(r) # {}
  BY DEF Calibrated
<1> DEFINE head == HeadroomFactor(r)
           gap == SpacingEstimate(r)
           least == MinRatio(r)
           wide == Widened[r.holds]
<1>2. r.current \in Nat /\ r.holds \in Nat
  BY DEF Runs
<1>3. head \in Nat /\ gap \in Nat /\ least \in Nat /\ wide \in Nat
  BY <1>1, <1>2, HeadroomNat, SpacingNat, MinRatioNat, WidenedNat
<1>4. Target(r) =
        Lower(Times(Times(Times(Times(r.current, gap), wide), head), 1020),
                    Times(Times(Times(Times(r.current, least), least), head), 980))
  BY DEF Target
<1> HIDE DEF head, gap, least, wide
<1>5. \A x, y \in Nat : Times(x, y) \in Nat /\ Lower(x, y) \in Nat
  BY TimesNat, HigherNat
<1> DEFINE a1 == Times(r.current, gap)
           a2 == Times(a1, wide)
           a3 == Times(a2, head)
           a4 == Times(a3, 1020)
           b1 == Times(r.current, least)
           b2 == Times(b1, least)
           b3 == Times(b2, head)
           b4 == Times(b3, 980)
<1>6. Target(r) = Lower(a4, b4)
  BY <1>4
<1>7. a1 \in Nat /\ b1 \in Nat
  BY <1>2, <1>3, <1>5
<1> HIDE DEF a1, b1
<1>8. a2 \in Nat /\ b2 \in Nat
  BY <1>3, <1>5, <1>7
<1> HIDE DEF a2, b2
<1>9. a3 \in Nat /\ b3 \in Nat
  BY <1>3, <1>5, <1>8
<1> HIDE DEF a3, b3
<1>10. a4 \in Nat /\ b4 \in Nat
  BY <1>9 DEF Times
<1> HIDE DEF a4, b4
<1> QED BY <1>5, <1>6, <1>10

\* The cap never falls.
LEMMA NextCapRises ==
  ASSUME NEW r \in Runs
  PROVE  /\ NextCap(r).cap \in Nat /\ NextCap(r).cap >= r.cap
         /\ NextCap(r).holds \in Nat
<1>1. r.cap \in Nat /\ r.current \in Nat /\ r.holds \in Nat
  BY DEF Runs
<1>2. Params.minStep \in Nat /\ Params.climbPct \in Nat
  BY ParamsAssumption DEF SweepParams
<1>3. RaiseFromCap(r) \in Nat /\ RaiseFromCap(r) >= r.cap
  <2> DEFINE more == 1000 + 10 * Params.climbPct
  <2>1. more \in Nat
    BY <1>2
  <2> HIDE DEF more
  <2>2. Times(r.cap, more) \in Nat
    BY <1>1, <2>1, TimesNat
  <2>3. r.cap + Params.minStep \in Nat /\ r.cap + Params.minStep >= r.cap
    BY <1>1, <1>2
  <2> DEFINE x == Times(r.cap, more)
             y == r.cap + Params.minStep
  <2>4. RaiseFromCap(r) = Higher(x, y)
    BY DEF RaiseFromCap, more
  <2>5. x \in Nat /\ y \in Nat /\ y >= r.cap
    BY <2>2, <2>3
  <2> HIDE DEF x, y
  <2> QED BY <1>1, <2>4, <2>5 DEF Higher
<1>4. Creep(r) \in Nat /\ Creep(r) >= r.cap
  <2> DEFINE h == Higher(r.cap, r.current)
             x == Times(h, 1220)
             y == r.cap + 20
  <2>1. h \in Nat
    BY <1>1, HigherNat
  <2> HIDE DEF h
  <2>2. x \in Nat
    BY <2>1, TimesNat
  <2>3. y \in Nat /\ y >= r.cap
    BY <1>1
  <2>4. Creep(r) = Higher(x, y)
    BY DEF Creep, CreepStep, MergeFloor, h
  <2> HIDE DEF x, y
  <2> QED BY <1>1, <2>2, <2>3, <2>4 DEF Higher
<1>5. Calibrated(r) => Target(r) \in Nat
  BY TargetNat
<1> QED BY <1>1, <1>3, <1>4, <1>5 DEF NextCap

----------------------------------------------------------------------------
(* The rungs so far.                                                       *)

\* By how much a rate must exceed another to be a new rung, and how near one is merged.
Rise == 1000 + 10 * Params.newRungPct
Near(rate) ==
  Higher(MergeFloor,
    (rate * (IF Params.mergePct = 0 THEN RungMergeDefault ELSE Params.mergePct)) \div 100)

\* A window may show it of some rendition of the client's.
ShownAs(rate) == \E i \in 1..Len(client.ladder), n \in Noise : rate = Times(client.ladder[i], n)

\* The rungs are of renditions, no higher than where the client is, each a new rung's worth
\* over those before it and too far from them to be merged.
Known(rungs, current) ==
  /\ \A k \in 1..Len(rungs) : ShownAs(rungs[k].rate) /\ rungs[k].rate <= current
  /\ \A k, l \in 1..Len(rungs) :
       k < l => /\ Times(rungs[k].rate, Rise) < rungs[l].rate
                /\ rungs[k].rate + Near(rungs[k].rate) <= rungs[l].rate

\* A rendition is shown as something, and never by so much more that it looks like another.
NarrowNoise ==
  \A c \in Clients : \A i \in 1..Len(c.ladder) : \A m, n \in Noise :
    /\ Times(c.ladder[i], n) > 0
    /\ Times(c.ladder[i], m) <= Times(Times(c.ladder[i], n), Rise)

LEMMA RiseNear ==
  /\ Rise \in Nat /\ Rise >= 1000
  /\ \A x \in Nat : Times(x, Rise) \in Nat /\ Times(x, Rise) >= x
  /\ \A x, y \in Nat : x <= y => Times(x, Rise) <= Times(y, Rise)
  /\ \A x \in Nat : Near(x) \in Nat /\ Near(x) > 0
<1>1. Rise \in Nat /\ Rise >= 1000
  BY ParamsAssumption DEF Rise, SweepParams
<1>2. ASSUME NEW x \in Nat PROVE Times(x, Rise) \in Nat /\ Times(x, Rise) >= x
  <2>1. x * Rise >= x * 1000 /\ x * Rise \in Nat
    BY <1>1
  <2> DEFINE z == x * Rise
  <2> HIDE DEF z
  <2>2. z \in Nat /\ z >= x * 1000
    BY <2>1 DEF z
  <2>3. z \div 1000 \in Nat /\ z \div 1000 >= x
    BY <2>2
  <2> QED BY <2>3 DEF Times, z
<1>3. \A x, y \in Nat : x <= y => Times(x, Rise) <= Times(y, Rise)
  BY <1>1, TimesMonotone
<1>4. ASSUME NEW x \in Nat PROVE Near(x) \in Nat /\ Near(x) > 0
  <2> DEFINE pct == IF Params.mergePct = 0 THEN RungMergeDefault ELSE Params.mergePct
  <2>1. pct \in Nat
    BY ParamsAssumption DEF SweepParams, RungMergeDefault
  <2> HIDE DEF pct
  <2> DEFINE z == x * pct
  <2>2. z \in Nat
    BY <2>1
  <2> HIDE DEF z
  <2>3. z \div 100 \in Nat
    BY <2>2
  <2> DEFINE y == z \div 100
  <2>4. Near(x) = Higher(20, y)
    BY DEF Near, MergeFloor, pct, z
  <2> HIDE DEF y
  <2>5. y \in Nat
    BY <2>3 DEF y
  <2> QED BY <2>4, <2>5 DEF Higher
<1> QED BY <1>1, <1>2, <1>3, <1>4

\* A level ends with the rungs it was judged with, and while it is observed the cap stays.
LEMMA NextLevelKeeps ==
  ASSUME NEW r \in Runs
  PROVE  LET s == NextLevel(r) IN
         /\ s \in Runs
         /\ s.rungs = r.rungs /\ s.current = r.current /\ s.phase = r.phase /\ s.stored = r.stored
         /\ s.ceiling = r.ceiling /\ s.cap >= r.cap
         /\ s.observing => r.observing /\ s.cap = r.cap
<1> DEFINE next == NextCap(r)
<1>1. next.cap \in Nat /\ next.cap >= r.cap /\ next.holds \in Nat
  BY NextCapRises
<1>2. /\ r.cap \in Nat /\ r.level \in 0..Params.maxLevels - 1 /\ Params.maxLevels \in Nat
  BY ParamsAssumption DEF Runs, SweepParams
<1> HIDE DEF next
<1> DEFINE done == Finish(r, "levels")
           top == Finish(r, "ceiling")
           past == Finish([r EXCEPT !.holds = next.holds], "past")
           on == SetCap([r EXCEPT !.holds = next.holds], next.cap)
           Fine(s) ==
             /\ s \in Runs
             /\ s.rungs = r.rungs /\ s.current = r.current /\ s.phase = r.phase /\ s.stored = r.stored
             /\ s.ceiling = r.ceiling /\ s.cap >= r.cap
             /\ s.observing => r.observing /\ s.cap = r.cap
<1>3. Fine(done) /\ Fine(top)
  <2>1. done \in Runs
    BY DEF Finish, Runs
  <2>2. top \in Runs
    BY DEF Finish, Runs
  <2>3. /\ done.rungs = r.rungs /\ done.current = r.current /\ done.phase = r.phase /\ done.stored = r.stored
        /\ done.ceiling = r.ceiling /\ done.cap = r.cap /\ done.observing = r.observing
    BY DEF Finish, Runs
  <2>4. /\ top.rungs = r.rungs /\ top.current = r.current /\ top.phase = r.phase /\ top.stored = r.stored
        /\ top.ceiling = r.ceiling /\ top.cap = r.cap /\ top.observing = r.observing
    BY DEF Finish, Runs
  <2> HIDE DEF done, top
  <2> QED BY <1>2, <2>1, <2>2, <2>3, <2>4
<1>4. Fine(past)
  <2> DEFINE h == [r EXCEPT !.holds = next.holds]
  <2>1. h \in Runs
    BY <1>1 DEF Runs
  <2>2. past \in Runs
    <3>1. past = Finish(h, "past")
      BY DEF h
    <3> HIDE DEF h, past
    <3>2. h \in Runs => Finish(h, "past") \in Runs
      BY DEF Finish, Runs
    <3> QED BY <2>1, <3>1, <3>2
  <2>3. /\ past.rungs = r.rungs /\ past.current = r.current /\ past.phase = r.phase /\ past.stored = r.stored
        /\ past.ceiling = r.ceiling /\ past.cap = r.cap /\ past.observing = r.observing
    BY DEF Finish, Runs
  <2> HIDE DEF past
  <2> QED BY <1>2, <2>2, <2>3
<1>5. r.level + 1 < Params.maxLevels => Fine(on)
  <2> DEFINE h == [r EXCEPT !.holds = next.holds]
  <2>1. h \in Runs /\ h.level = r.level
    BY <1>1 DEF Runs
  <2>2. r.level + 1 < Params.maxLevels => on \in Runs
    <3> HIDE DEF h
    <3> SUFFICES ASSUME r.level + 1 < Params.maxLevels PROVE on \in Runs
      OBVIOUS
    <3> DEFINE level == h.level + 1
               cap == next.cap
               levels == 0..Params.maxLevels - 1
    <3>1. level \in levels /\ cap \in Nat
      BY <1>1, <1>2, <2>1
    <3>2. on = [h EXCEPT !.level = level, !.cap = cap, !.observing = FALSE, !.pinned = FALSE]
      BY <2>1 DEF SetCap, h
    <3> HIDE DEF on, level, cap
    <3>3. h \in Runs => [h EXCEPT !.level = level, !.cap = cap, !.observing = FALSE, !.pinned = FALSE] \in Runs
      BY <3>1 DEF Runs
    <3> QED BY <2>1, <3>2, <3>3
  <2>3. /\ on.rungs = r.rungs /\ on.current = r.current /\ on.phase = r.phase /\ on.stored = r.stored
        /\ on.ceiling = r.ceiling /\ on.cap = next.cap /\ on.observing = FALSE
    BY DEF SetCap, Runs
  <2> HIDE DEF on
  <2> QED BY <1>1, <1>2, <2>2, <2>3
<1>6. \/ NextLevel(r) = done
      \/ NextLevel(r) = top
      \/ NextLevel(r) = past
      \/ r.level + 1 < Params.maxLevels /\ NextLevel(r) = on
  BY <1>2 DEF NextLevel, next
<1> HIDE DEF done, top, past, on
<1> QED BY <1>3, <1>4, <1>5, <1>6

\* A rung that is no other's is added to the others.
LEMMA RungAdded ==
  ASSUME NEW r \in Runs, NEW rate \in Nat \ {0}, ShownAs(rate),
         Known(r.rungs, r.current), Times(r.current, Rise) < rate,
         NEW cleaner \in BOOLEAN, Merges(r, rate) = {}
  PROVE  LET s == AddRung(r, rate, cleaner)  n == Len(r.rungs) IN
         /\ s \in Runs /\ s = [r EXCEPT !.rungs = s.rungs]
         /\ Len(s.rungs) = n + 1 /\ s.rungs[n + 1].rate = rate /\ s.rungs[n + 1].upAt = r.cap
         /\ \A k \in 1..n : /\ s.rungs[k].rate = r.rungs[k].rate /\ s.rungs[k].upAt = r.rungs[k].upAt
                           /\ s.rungs[k].suspect = r.rungs[k].suspect
         /\ Known(s.rungs, rate)
<1> DEFINE n == Len(r.rungs)
           s == AddRung(r, rate, cleaner)
           before == [i \in 1..n |-> IF i = n THEN [r.rungs[i] EXCEPT !.downAt = r.cap] ELSE r.rungs[i]]
           new == [rate |-> rate, upAt |-> r.cap, downAt |-> 0, suspect |-> FALSE]
           rungs == Append(before, new)
<1>1. n \in Nat /\ r.cap \in Nat /\ r.current \in Nat /\ \A i \in 1..n : r.rungs[i] \in Rungs
  BY RungsNat DEF Runs
<1>2. before \in Seq(Rungs) /\ Len(before) = n
  <2>1. \A i \in 1..n : before[i] \in Rungs
    BY <1>1 DEF Rungs
  <2>2. before \in [1..n -> Rungs]
    <3> HIDE DEF n
    <3> QED BY <2>1
  <2> HIDE DEF before
  <2> QED BY <1>1, <2>2
<1>3. new \in Rungs
  BY <1>1 DEF Rungs
<1>4. s = [r EXCEPT !.rungs = rungs]
  BY DEF AddRung
<1>5. \A k \in 1..n : /\ before[k].rate = r.rungs[k].rate /\ before[k].upAt = r.rungs[k].upAt
                     /\ before[k].suspect = r.rungs[k].suspect
  BY <1>1 DEF Rungs
<1>6. new.rate = rate /\ new.upAt = r.cap
  OBVIOUS
<1> HIDE DEF before, new
<1>7. /\ rungs \in Seq(Rungs) /\ Len(rungs) = n + 1 /\ rungs[n + 1] = new
      /\ \A k \in 1..n : rungs[k] = before[k]
  BY <1>1, <1>2, <1>3
<1> HIDE DEF rungs
<1>8. s \in Runs /\ s.rungs = rungs
  BY <1>4, <1>7 DEF Runs
<1>9. /\ rungs[n + 1].rate = rate /\ rungs[n + 1].upAt = r.cap
      /\ \A k \in 1..n : /\ rungs[k].rate = r.rungs[k].rate /\ rungs[k].upAt = r.rungs[k].upAt
                        /\ rungs[k].suspect = r.rungs[k].suspect
  BY <1>5, <1>6, <1>7
<1>10. Known(rungs, rate)
  <2>1. \A k \in 1..n : r.rungs[k].rate \in Nat /\ ShownAs(r.rungs[k].rate) /\ r.rungs[k].rate <= r.current
    BY <1>1 DEF Known, Rungs
  <2>2. r.current < rate
    <3> DEFINE c == r.current
    <3>1. c \in Nat /\ Times(c, Rise) < rate
      BY <1>1
    <3> HIDE DEF c
    <3>2. Times(c, Rise) \in Nat /\ Times(c, Rise) >= c
      BY <3>1, RiseNear
    <3>3. c < rate
      BY <3>1, <3>2
    <3> QED BY <3>3 DEF c
  <2>3. ASSUME NEW k \in 1..n
        PROVE  Times(r.rungs[k].rate, Rise) < rate /\ r.rungs[k].rate + Near(r.rungs[k].rate) <= rate
    <3> DEFINE x == r.rungs[k].rate
    <3>1. x \in Nat /\ x <= r.current /\ x < rate
      BY <1>1, <2>1, <2>2
    <3>2. Times(x, Rise) <= Times(r.current, Rise) /\ Times(x, Rise) \in Nat /\ Times(r.current, Rise) \in Nat
      BY <1>1, <3>1, RiseNear
    <3>3. Near(x) \in Nat
      <4>1. x \in Nat
        BY <3>1
      <4> HIDE DEF x
      <4> QED BY <4>1, RiseNear
    <3>4. ~(Higher(rate - x, x - rate) < Near(x))
      BY DEF Merges, Near
    <3>5. Higher(rate - x, x - rate) = rate - x
      BY <3>1 DEF Higher
    <3> HIDE DEF x
    <3>6. x + Near(x) <= rate
      BY <3>1, <3>3, <3>4, <3>5
    <3>7. Times(x, Rise) < rate
      BY <3>2
    <3> QED BY <3>6, <3>7 DEF x
  <2>4. \A k \in 1..Len(rungs) : ShownAs(rungs[k].rate) /\ rungs[k].rate <= rate
    <3> TAKE k \in 1..Len(rungs)
    <3>1. CASE k = n + 1
      BY <1>9, <3>1
    <3>2. CASE k \in 1..n
      <4> DEFINE x == r.rungs[k].rate  c == r.current
      <4>1. rungs[k].rate = x
        BY <1>9, <3>2
      <4>2. x \in Nat /\ ShownAs(x) /\ x <= c
        BY <2>1, <3>2
      <4>3. c \in Nat /\ c < rate
        BY <1>1, <2>2
      <4> HIDE DEF x, c
      <4> QED BY <4>1, <4>2, <4>3
    <3> QED BY <1>1, <1>7, <3>1, <3>2
  <2>5. ASSUME NEW k \in 1..Len(rungs), NEW l \in 1..Len(rungs), k < l
        PROVE  /\ Times(rungs[k].rate, Rise) < rungs[l].rate
               /\ rungs[k].rate + Near(rungs[k].rate) <= rungs[l].rate
    <3>1. k \in 1..n
      BY <1>1, <1>7, <2>5
    <3>2. CASE l = n + 1
      BY <1>9, <2>3, <3>1, <3>2
    <3>3. CASE l \in 1..n
      BY <1>9, <2>5, <3>1, <3>3 DEF Known
    <3> QED BY <1>1, <1>7, <3>2, <3>3
  <2> QED BY <2>4, <2>5 DEF Known
<1> HIDE DEF n, s
<1> QED BY <1>4, <1>7, <1>8, <1>9, <1>10 DEF n, s

\* Only the last rung can be one that a risen rate is too near to: it is kept as it was, or
\* takes the rate if that was seen more cleanly.
LEMMA RungMerged ==
  ASSUME NEW r \in Runs, NEW rate \in Nat \ {0}, ShownAs(rate),
         Known(r.rungs, r.current), Times(r.current, Rise) < rate,
         NEW cleaner \in BOOLEAN, Merges(r, rate) # {}
  PROVE  LET s == AddRung(r, rate, cleaner) IN
         /\ s \in Runs /\ s = [r EXCEPT !.rungs = s.rungs]
         /\ Known(s.rungs, rate) /\ Len(s.rungs) > 0
<1> DEFINE n == Len(r.rungs)
           s == AddRung(r, rate, cleaner)
           M == Merges(r, rate)
           last == IF cleaner THEN rate ELSE r.rungs[n].rate
           rungs == [r.rungs EXCEPT ![n].rate = last]
<1>1. n \in Nat /\ r.current \in Nat /\ \A i \in 1..n : r.rungs[i] \in Rungs
  BY RungsNat DEF Runs
<1>2. r.rungs \in Seq(Rungs)
  BY DEF Runs
<1>3. \A k \in 1..n : r.rungs[k].rate \in Nat /\ ShownAs(r.rungs[k].rate) /\ r.rungs[k].rate <= r.current
  BY <1>1 DEF Known, Rungs
<1>4. r.current < rate
  <2> DEFINE c == r.current
  <2>1. c \in Nat /\ Times(c, Rise) < rate
    BY <1>1
  <2> HIDE DEF c
  <2>2. Times(c, Rise) \in Nat /\ Times(c, Rise) >= c
    BY <2>1, RiseNear
  <2>3. c < rate
    BY <2>1, <2>2
  <2> QED BY <2>3 DEF c
<1>5. ASSUME NEW k \in 1..n, k < n PROVE k \notin M
  <2> DEFINE x == r.rungs[k].rate  y == r.rungs[n].rate
  <2>1. n \in 1..n
    BY <1>1, <1>5
  <2>2. x \in Nat /\ y \in Nat /\ x <= r.current /\ y <= r.current /\ x + Near(x) <= y
    BY <1>3, <1>5, <2>1 DEF Known
  <2>3. Near(x) \in Nat
    BY <2>2, RiseNear
  <2> SUFFICES ASSUME k \in M PROVE FALSE
    OBVIOUS
  <2>4. Higher(rate - x, x - rate) < Near(x)
    BY DEF Merges, Near
  <2> HIDE DEF x, y
  <2>5. Higher(rate - x, x - rate) = rate - x
    BY <1>1, <1>4, <2>2 DEF Higher
  <2> QED BY <1>1, <1>4, <2>2, <2>3, <2>4, <2>5
<1>6. M \subseteq 1..n /\ M # {}
  BY DEF Merges
<1>7. M = {n} /\ n > 0
  <2> HIDE DEF M, n
  <2>1. \A k \in M : k \in 1..n /\ k \in Int /\ ~(k < n)
    BY <1>5, <1>6
  <2>2. \A k \in M : k = n /\ n > 0
    BY <1>1, <2>1
  <2> QED BY <1>6, <2>2
<1>8. Min(M) = n
  <2> HIDE DEF M
  <2>1. Min(M) \in M
    BY <1>1, <1>7, LeastNat
  <2> QED BY <1>7, <2>1
<1>9. n \in 1..n
  BY <1>1, <1>7
<1>10. r.rungs[n].rate \in Nat \ {0} /\ r.rungs[n] \in Rungs
  BY <1>9, <1>1 DEF Rungs
<1>11. last \in Nat \ {0} /\ last <= rate /\ r.rungs[n].rate <= last /\ ShownAs(last)
  BY <1>1, <1>3, <1>4, <1>9, <1>10
<1>12. s = [r EXCEPT !.rungs = rungs]
  <2>1. s = [r EXCEPT !.rungs[n].rate = IF cleaner THEN rate ELSE @]
    BY <1>6, <1>8 DEF AddRung
  <2> QED BY <2>1
<1> HIDE DEF last
<1>13. /\ rungs \in Seq(Rungs) /\ Len(rungs) = n /\ rungs[n].rate = last
       /\ \A k \in 1..n : k < n => rungs[k] = r.rungs[k]
  <2> DEFINE new == [r.rungs[n] EXCEPT !.rate = last]
  <2>1. new \in Rungs /\ new.rate = last
    BY <1>10, <1>11 DEF Rungs
  <2>2. rungs = [r.rungs EXCEPT ![n] = new]
    OBVIOUS
  <2> HIDE DEF new, rungs
  <2> QED BY <1>1, <1>2, <1>9, <2>1, <2>2
<1> HIDE DEF rungs
<1>14. s \in Runs /\ s.rungs = rungs
  BY <1>12, <1>13 DEF Runs
<1>15. Known(rungs, rate)
  <2>1. \A k \in 1..n : ShownAs(rungs[k].rate) /\ rungs[k].rate <= rate
    <3> TAKE k \in 1..n
    <3>1. CASE k = n
      BY <1>11, <1>13, <3>1
    <3>2. CASE k < n
      BY <1>1, <1>3, <1>4, <1>13, <3>2
    <3> QED BY <1>1, <3>1, <3>2
  <2>2. ASSUME NEW k \in 1..n, NEW l \in 1..n, k < l
        PROVE  /\ Times(rungs[k].rate, Rise) < rungs[l].rate
               /\ rungs[k].rate + Near(rungs[k].rate) <= rungs[l].rate
    <3> DEFINE x == r.rungs[k].rate  y == r.rungs[l].rate  z == rungs[l].rate
    <3>1. rungs[k].rate = x
      BY <1>1, <1>13, <2>2
    <3>2. Times(x, Rise) < y /\ x + Near(x) <= y
      BY <2>2 DEF Known
    <3>3. x \in Nat /\ y \in Nat
      BY <1>3
    <3>4. z \in Nat /\ y <= z
      <4>1. CASE l = n
        BY <1>11, <1>13, <4>1
      <4>2. CASE l < n
        BY <1>13, <3>3, <4>2
      <4> QED BY <1>1, <4>1, <4>2
    <3>5. Times(x, Rise) \in Nat /\ Near(x) \in Nat
      BY <3>3, RiseNear
    <3> HIDE DEF x, y, z
    <3>6. Times(x, Rise) < z /\ x + Near(x) <= z
      BY <3>2, <3>3, <3>4, <3>5
    <3> QED BY <3>1, <3>6 DEF z
  <2> QED BY <1>13, <2>1, <2>2 DEF Known
<1> HIDE DEF s, n
<1> QED BY <1>7, <1>12, <1>13, <1>14, <1>15 DEF n, s

\* A client that has risen: its rung is recorded, and what was known stays so.
LEMMA ClimbedKnown ==
  ASSUME NEW r \in Runs, NEW rate \in Nat \ {0}, ShownAs(rate),
         Known(r.rungs, r.current), Times(r.current, Rise) < rate, NEW cleaner \in BOOLEAN
  PROVE  LET s == Climbed(r, rate, cleaner)  n == Len(r.rungs) IN
         /\ s \in Runs /\ Known(s.rungs, s.current) /\ s.current = rate
         /\ s.cap = r.cap /\ s.phase = r.phase /\ s.stored = r.stored /\ s.observing = r.observing
         /\ s.level = r.level
         /\ Merges(r, rate) = {} =>
              /\ Len(s.rungs) = n + 1 /\ s.rungs[n + 1].rate = rate /\ s.rungs[n + 1].upAt = r.cap
              /\ \A k \in 1..n : /\ s.rungs[k].rate = r.rungs[k].rate /\ s.rungs[k].upAt = r.rungs[k].upAt
                                /\ s.rungs[k].suspect = r.rungs[k].suspect
<1> DEFINE n == Len(r.rungs)
           added == AddRung(r, rate, cleaner)
           new == [added EXCEPT !.current = rate, !.holds = 0]
           last == Len(new.rungs)
           doubted == [new EXCEPT !.rungs[last].suspect = TRUE]
           s == Climbed(r, rate, cleaner)
<1>1. /\ added \in Runs /\ added = [r EXCEPT !.rungs = added.rungs]
      /\ Known(added.rungs, rate) /\ Len(added.rungs) > 0
      /\ Merges(r, rate) = {} =>
           /\ Len(added.rungs) = n + 1 /\ added.rungs[n + 1].rate = rate /\ added.rungs[n + 1].upAt = r.cap
           /\ \A k \in 1..n : /\ added.rungs[k].rate = r.rungs[k].rate /\ added.rungs[k].upAt = r.rungs[k].upAt
                             /\ added.rungs[k].suspect = r.rungs[k].suspect
  <2>1. n \in Nat
    BY RungsNat
  <2>2. CASE Merges(r, rate) = {}
    BY <2>1, <2>2, RungAdded
  <2>3. CASE Merges(r, rate) # {}
    BY <2>3, RungMerged
  <2> QED BY <2>2, <2>3
<1>2. /\ added.cap = r.cap /\ added.phase = r.phase /\ added.stored = r.stored
      /\ added.observing = r.observing /\ added.level = r.level
  BY <1>1 DEF Runs
<1>3. s = new \/ s = doubted
  BY DEF Climbed
<1> HIDE DEF added
<1>4. /\ new \in Runs /\ new.rungs = added.rungs /\ new.current = rate /\ new.cap = added.cap
      /\ new.phase = added.phase /\ new.stored = added.stored /\ new.observing = added.observing
      /\ new.level = added.level
  BY <1>1 DEF Runs
<1> HIDE DEF new
<1>5. /\ last \in 1..last /\ Len(new.rungs) = last /\ new.rungs \in Seq(Rungs)
      /\ \A k \in 1..last : new.rungs[k] \in Rungs
  <2>1. new.rungs \in Seq(Rungs)
    BY <1>4 DEF Runs
  <2>2. last \in Nat /\ last > 0
    BY <1>1, <1>4, <2>1
  <2>3. \A k \in 1..last : new.rungs[k] \in Rungs
    BY <2>1
  <2> QED BY <2>1, <2>2, <2>3
<1> DEFINE mark == [new.rungs[last] EXCEPT !.suspect = TRUE]
           rungs == [new.rungs EXCEPT ![last] = mark]
<1>6. mark \in Rungs /\ mark.rate = new.rungs[last].rate /\ mark.upAt = new.rungs[last].upAt
  BY <1>5 DEF Rungs
<1>7. doubted = [new EXCEPT !.rungs = rungs]
  OBVIOUS
<1> HIDE DEF mark, last
<1>8. /\ rungs \in Seq(Rungs) /\ Len(rungs) = last
      /\ \A k \in 1..last : rungs[k].rate = new.rungs[k].rate /\ rungs[k].upAt = new.rungs[k].upAt
      /\ \A k \in 1..last : k # last => rungs[k] = new.rungs[k]
  BY <1>5, <1>6
<1> HIDE DEF rungs
<1>9. /\ doubted \in Runs /\ doubted.rungs = rungs /\ doubted.current = new.current
      /\ doubted.cap = new.cap /\ doubted.phase = new.phase /\ doubted.stored = new.stored
      /\ doubted.observing = new.observing /\ doubted.level = new.level
  BY <1>4, <1>7, <1>8 DEF Runs
<1> HIDE DEF doubted, s
<1>10. /\ s \in Runs /\ s.current = rate /\ s.cap = r.cap /\ s.phase = r.phase
       /\ s.stored = r.stored /\ s.observing = r.observing /\ s.level = r.level
       /\ Len(s.rungs) = Len(added.rungs)
       /\ \A k \in 1..Len(added.rungs) :
            s.rungs[k].rate = added.rungs[k].rate /\ s.rungs[k].upAt = added.rungs[k].upAt
       /\ \A k \in 1..Len(added.rungs) :
            k # Len(added.rungs) => s.rungs[k].suspect = added.rungs[k].suspect
  BY <1>2, <1>3, <1>4, <1>5, <1>8, <1>9
<1>11. Known(s.rungs, rate)
  BY <1>1, <1>10 DEF Known
<1>12. n \in Nat /\ Len(added.rungs) \in Nat
  BY <1>1, RungsNat
<1>13. Merges(r, rate) = {} =>
         /\ Len(s.rungs) = n + 1 /\ s.rungs[n + 1].rate = rate /\ s.rungs[n + 1].upAt = r.cap
         /\ \A k \in 1..n : /\ s.rungs[k].rate = r.rungs[k].rate /\ s.rungs[k].upAt = r.rungs[k].upAt
                           /\ s.rungs[k].suspect = r.rungs[k].suspect
  <2> SUFFICES ASSUME Merges(r, rate) = {}
               PROVE  /\ Len(s.rungs) = n + 1 /\ s.rungs[n + 1].rate = rate /\ s.rungs[n + 1].upAt = r.cap
                      /\ \A k \in 1..n : /\ s.rungs[k].rate = r.rungs[k].rate
                                        /\ s.rungs[k].upAt = r.rungs[k].upAt
                                        /\ s.rungs[k].suspect = r.rungs[k].suspect
    OBVIOUS
  <2>1. /\ Len(added.rungs) = n + 1 /\ added.rungs[n + 1].rate = rate /\ added.rungs[n + 1].upAt = r.cap
        /\ \A k \in 1..n : /\ added.rungs[k].rate = r.rungs[k].rate /\ added.rungs[k].upAt = r.rungs[k].upAt
                          /\ added.rungs[k].suspect = r.rungs[k].suspect
    BY <1>1
  <2> HIDE DEF n
  <2>2. \A k \in 1..n : k \in 1..(n + 1) /\ k # n + 1
    BY <1>12
  <2>3. n + 1 \in 1..(n + 1)
    BY <1>12
  <2>4. \A k \in 1..n : /\ s.rungs[k].rate = r.rungs[k].rate /\ s.rungs[k].upAt = r.rungs[k].upAt
                       /\ s.rungs[k].suspect = r.rungs[k].suspect
    BY <1>10, <2>1, <2>2
  <2>5. s.rungs[n + 1].rate = rate /\ s.rungs[n + 1].upAt = r.cap /\ Len(s.rungs) = n + 1
    BY <1>10, <2>1, <2>3
  <2> QED BY <2>4, <2>5
<1> HIDE DEF n
<1> QED BY <1>10, <1>11, <1>13 DEF s, n

----------------------------------------------------------------------------
(* What a level shows, and the client that shows it.                       *)

ClimbInv ==
  /\ ClimbTypeOK
  /\ run.phase = "ceiling" => run.cap = 0 /\ run.level = 0 /\ run.rungs = <<>> /\ run.current = 0
  /\ run.phase = "climb" => run.cap > 0
  /\ run.observing => plays \in MayTake
  /\ Known(run.rungs, run.current)

LEMMA ClientSound ==
  ASSUME ClimbTypeOK
  PROVE  /\ Top \in Nat \ {0} /\ client.wants \in Nat /\ client.steady \in BOOLEAN
         /\ \A i \in 1..Top : client.ladder[i] \in Nat \ {0}
         /\ \A i, j \in 1..Top : i < j => client.ladder[i] < client.ladder[j]
         /\ Noise \subseteq Nat /\ run \in Runs /\ plays \in 0..Top
<1>1. client \in Clients /\ run \in Runs /\ plays \in 0..Top
  BY DEF ClimbTypeOK
<1>2. client \in [ladder : Seq(Nat \ {0}), wants : Nat, steady : BOOLEAN] /\ Len(client.ladder) > 0 /\ Noise \subseteq Nat
  BY <1>1, ClientAssumption
<1>3. client.ladder \in Seq(Nat \ {0}) /\ client.wants \in Nat /\ client.steady \in BOOLEAN
  BY <1>2
<1>4. Top = Len(client.ladder)
  BY DEF Top
<1>5. \A i, j \in 1..Len(client.ladder) : i < j => client.ladder[i] < client.ladder[j]
  BY <1>1, ClientAssumption
<1> QED BY <1>1, <1>2, <1>3, <1>4, <1>5

\* The best a client accepts is what it falls to, or what it takes.
LEMMA BestOfTaken ==
  ASSUME ClimbTypeOK
  PROVE  /\ Bottom \in {0, 1}
         /\ Best \in Takes \cup {Bottom}
         /\ \A i \in Takes \cup {Bottom} : i <= Best
         /\ MayTake \subseteq 0..Top
<1> DEFINE S == Takes \cup {Bottom}
           top == Top
<1>1. top \in Nat /\ top >= 1
  BY ClientSound
<1>2. Bottom \in {0, 1}
  BY DEF Bottom
<1>3. Takes \subseteq 1..top
  BY DEF Takes
<1> HIDE DEF top
<1>4. S \subseteq 0..top /\ S # {} /\ 0..top \subseteq Nat /\ IsFiniteSet(0..top)
  BY <1>1, <1>2, <1>3, FS_Interval
<1> HIDE DEF S
<1>5. IsFiniteSet(S) /\ S \in SUBSET Nat
  BY <1>4, FS_Subset
<1>6. Max(S) \in S /\ \A i \in S : i <= Max(S)
  BY <1>4, <1>5, GreatestNat
<1>7. Best = Max(S)
  BY DEF Best, S
<1>8. Best \in 0..top
  BY <1>4, <1>6, <1>7
<1>9. MayTake \subseteq 0..top
  BY <1>1, <1>2, <1>8 DEF MayTake
<1> QED BY <1>2, <1>6, <1>7, <1>9 DEF S, top

LEMMA RatesNat ==
  ASSUME ClimbTypeOK, NEW rate \in Rates
  PROVE  rate \in Nat
<1>1. run.cap \in Nat
  BY ClientSound DEF Runs
<1>2. CASE plays = 0
  <2>1. rate = run.cap \/ rate = Times(run.cap, 955)
    BY <1>2 DEF Rates
  <2>2. Times(run.cap, 955) \in Nat
    BY <1>1 DEF Times
  <2> QED BY <1>1, <2>1, <2>2
<1>3. CASE plays # 0
  <2>1. PICK n \in Noise : rate = IF run.cap = 0 THEN Shown(n) ELSE Lower(Shown(n), run.cap)
    BY <1>3 DEF Rates
  <2>2. client.ladder[plays] \in Nat /\ n \in Nat
    BY <1>3, ClientSound
  <2>3. Shown(n) \in Nat
    BY <2>2, TimesNat DEF Shown
  <2> QED BY <1>1, <2>1, <2>3 DEF Lower
<1> QED BY <1>2, <1>3

\* A client that is not starved shows the rendition it plays.
LEMMA UnstarvedShows ==
  ASSUME NarrowNoise, ClimbTypeOK, run.cap > 0,
         NEW rate \in Rates, ~Starved(rate)
  PROVE  /\ plays \in 1..Top /\ \E n \in Noise : rate = Times(client.ladder[plays], n)
         /\ rate \in Nat \ {0} /\ ShownAs(rate)
<1>1. run.cap \in Nat
  BY ClientSound DEF Runs
<1>2. ~run.pinned /\ ~(rate >= Times(run.cap, 970))
  BY DEF Starved, PinnedToCap
<1>3. run.cap >= Times(run.cap, 970)
  BY <1>1 DEF Times
<1>4. rate # run.cap
  BY <1>2, <1>3
<1>5. plays # 0
  BY <1>2, <1>4 DEF Rates
<1>6. PICK n \in Noise : rate = Lower(Shown(n), run.cap)
  BY <1>1, <1>5 DEF Rates
<1>7. rate = Shown(n)
  BY <1>4, <1>6 DEF Lower
<1>8. plays \in 1..Top /\ client \in Clients /\ Top = Len(client.ladder)
  BY <1>5, ClientSound DEF ClimbTypeOK, Top
<1>9. rate = Times(client.ladder[plays], n)
  BY <1>7 DEF Shown
<1>10. Times(client.ladder[plays], n) > 0
  BY <1>8 DEF NarrowNoise
<1>11. rate \in Nat
  BY RatesNat
<1>12. rate \in Nat \ {0}
  BY <1>9, <1>10, <1>11
<1> QED BY <1>8, <1>9, <1>12 DEF ShownAs

LEMMA RisenEnough ==
  ASSUME run \in Runs, NEW rate \in Nat \ {0}, Risen(rate)
  PROVE  Times(run.current, Rise) < rate
<1>1. CASE run.current = 0
  <2>1. Rise \in Nat
    BY RiseNear
  <2>2. Times(0, Rise) = 0
    BY <2>1 DEF Times
  <2> QED BY <1>1, <2>2
<1>2. CASE run.current # 0
  <2>1. rate > Times(run.current, Rise)
    BY <1>2, Zenon DEF Risen, Rise
  <2>2. run.current \in Nat
    BY RungsNat DEF Runs
  <2>3. Times(run.current, Rise) \in Nat
    BY <2>2, RiseNear
  <2> DEFINE x == Times(run.current, Rise)
  <2> HIDE DEF x
  <2>4. x < rate
    BY <2>1, <2>3 DEF x
  <2> QED BY <2>4 DEF x
<1> QED BY <1>1, <1>2

----------------------------------------------------------------------------
(* Every step keeps it.                                                    *)

LEMMA ClimbInvInit == ASSUME ClimbInit PROVE ClimbInv
<1>1. 0 \in 0..Params.maxLevels - 1
  BY ParamsSound
<1>2. run \in Runs
  <2>1. <<>> \in Seq(Rungs)
    OBVIOUS
  <2> DEFINE levels == 0..Params.maxLevels - 1
             rungs == <<>>
             lists == Seq(Rungs)
  <2>2. 0 \in levels /\ rungs \in lists
    BY <1>1, <2>1
  <2>3. run = [phase |-> "ceiling", level |-> 0, cap |-> 0, observing |-> FALSE, pinned |-> FALSE,
               limited |-> FALSE, ceiling |-> 0, current |-> 0, rungs |-> rungs, holds |-> 0,
               state |-> "running", reason |-> "", stored |-> FALSE]
    BY DEF ClimbInit
  <2>4. Runs =
          [phase : {"ceiling", "climb"}, level : levels, cap : Nat, observing : BOOLEAN,
           pinned : BOOLEAN, limited : BOOLEAN, ceiling : Nat, current : Nat, rungs : lists,
           holds : Nat, state : {"running", "done", "failed"}, stored : BOOLEAN,
           reason : {"", "levels", "ceiling", "past", "stopped", "no traffic", "samples", "left"}]
    BY DEF Runs
  <2> HIDE DEF levels, rungs, lists
  <2> QED BY <2>2, <2>3, <2>4
<1>3. client \in Clients /\ plays = 0 /\ run.rungs = <<>> /\ run.cap = 0 /\ run.current = 0
      /\ run.phase = "ceiling" /\ run.level = 0 /\ ~run.observing
  BY DEF ClimbInit
<1>4. Len(client.ladder) \in Nat
  <2>1. client \in [ladder : Seq(Nat \ {0}), wants : Nat, steady : BOOLEAN]
    BY <1>3, ClientAssumption
  <2> QED BY <2>1
<1>5. plays \in 0..Top
  BY <1>3, <1>4 DEF Top
<1>6. Known(run.rungs, run.current)
  BY <1>3 DEF Known
<1> QED BY <1>2, <1>3, <1>5, <1>6 DEF ClimbInv, ClimbTypeOK

\* What a step is to keep, when the client is what it was.
LEMMA ClimbKept ==
  ASSUME ClimbInv, client' = client, plays' \in 0..Top, run' \in Runs,
         run'.phase = "ceiling" => run'.cap = 0 /\ run'.level = 0 /\ run'.rungs = <<>> /\ run'.current = 0,
         run'.phase = "climb" => run'.cap > 0,
         run'.observing => run'.cap = run.cap /\ plays' \in MayTake,
         Known(run'.rungs, run'.current)
  PROVE  ClimbInv'
<1>1. ClimbTypeOK'
  BY DEF ClimbInv, ClimbTypeOK, Top
<1>2. run'.cap = run.cap => MayTake' = MayTake
  BY DEF MayTake, Best, Bottom, Takes, Fits, Top
<1>3. \A rate : ShownAs(rate)' <=> ShownAs(rate)
  BY DEF ShownAs
<1>4. Known(run.rungs, run.current)'
  BY <1>3 DEF Known
<1> QED BY <1>1, <1>2, <1>4 DEF ClimbInv

\* When the run ends, or its result is taken, nothing it has learned changes.
LEMMA ClimbEnds ==
  ASSUME ClimbInv, UNCHANGED <<client, plays>>,
         \/ \E reason \in {"stopped", "no traffic", "samples", "left"} :
              run' = Finish(run, reason) \/ run' = Fail(run, reason)
         \/ run' = [run EXCEPT !.stored = TRUE]
  PROVE  ClimbInv'
<1>1. run \in Runs /\ plays \in 0..Top
  BY DEF ClimbInv, ClimbTypeOK
<1> DEFINE Same ==
             /\ run' \in Runs /\ run'.phase = run.phase /\ run'.cap = run.cap
             /\ run'.level = run.level /\ run'.rungs = run.rungs /\ run'.current = run.current
             /\ run'.observing = run.observing
<1>2. Same
  <2>1. CASE run' = [run EXCEPT !.stored = TRUE]
    BY <1>1, <2>1 DEF Runs
  <2>2. ASSUME NEW reason \in {"stopped", "no traffic", "samples", "left"}, run' = Finish(run, reason)
        PROVE  Same
    BY <1>1, <2>2 DEF Runs, Finish
  <2>3. ASSUME NEW reason \in {"stopped", "no traffic", "samples", "left"}, run' = Fail(run, reason)
        PROVE  Same
    BY <1>1, <2>3 DEF Runs, Fail
  <2> QED BY <2>1, <2>2, <2>3
<1> QED BY <1>1, <1>2, ClimbKept DEF ClimbInv

\* A level of the climb ends with the rungs it has come to know.
LEMMA ClimbGoesOn ==
  ASSUME ClimbInv, run.phase = "climb", UNCHANGED <<client, plays>>,
         NEW r \in Runs, Known(r.rungs, r.current), r.cap = run.cap, r.phase = run.phase,
         r.observing = run.observing, run' = NextLevel(r)
  PROVE  ClimbInv'
<1>1. /\ run' \in Runs /\ run'.rungs = r.rungs /\ run'.current = r.current /\ run'.phase = "climb"
      /\ run'.cap >= run.cap
      /\ run'.observing => run.observing /\ run'.cap = run.cap
  BY NextLevelKeeps
<1>2. plays \in 0..Top /\ run.cap > 0 /\ run.cap \in Nat /\ run'.cap \in Nat
  BY <1>1 DEF ClimbInv, ClimbTypeOK, Runs
<1> DEFINE before == run.cap  after == run'.cap
<1>3. run'.cap > 0
  <2>1. after >= before /\ before > 0 /\ after \in Nat /\ before \in Nat
    BY <1>1, <1>2
  <2> HIDE DEF before, after
  <2>2. after > 0
    BY <2>1
  <2> QED BY <2>2 DEF after
<1> HIDE DEF before, after
<1>4. Known(run'.rungs, run'.current)
  BY <1>1
<1> QED BY <1>1, <1>2, <1>3, <1>4, ClimbKept DEF ClimbInv

LEMMA ClimbDwells == ASSUME ClimbInv, Dwell PROVE ClimbInv'
<1>1. PICK i \in MayTake : \E mark \in Ready(i) :
        /\ plays' = i
        /\ run' = [run EXCEPT !.observing = TRUE, !.pinned = (mark = "fetching"),
                              !.limited = @ \/ (mark = "fetching" /\ run.phase = "ceiling")]
  BY DEF Dwell
<1>2. PICK mark \in Ready(i) :
        run' = [run EXCEPT !.observing = TRUE, !.pinned = (mark = "fetching"),
                           !.limited = @ \/ (mark = "fetching" /\ run.phase = "ceiling")]
  BY <1>1
<1>3. ClimbTypeOK /\ run \in Runs /\ client' = client
  BY DEF ClimbInv, ClimbTypeOK, Dwell
<1>4. plays' \in MayTake /\ plays' \in 0..Top
  BY <1>1, <1>3, BestOfTaken
<1> DEFINE limited == run.limited \/ (mark = "fetching" /\ run.phase = "ceiling")
           pinned == (mark = "fetching")
<1>5. limited \in BOOLEAN /\ pinned \in BOOLEAN
  BY <1>3
<1>6. run' = [run EXCEPT !.observing = TRUE, !.pinned = pinned, !.limited = limited]
  BY <1>2
<1> HIDE DEF limited, pinned
<1>7. /\ run' \in Runs /\ run'.phase = run.phase /\ run'.cap = run.cap /\ run'.level = run.level
      /\ run'.rungs = run.rungs /\ run'.current = run.current
  BY <1>3, <1>5, <1>6 DEF Runs
<1> QED BY <1>3, <1>4, <1>7, ClimbKept DEF ClimbInv

LEMMA ClimbSeesCeiling ==
  ASSUME ClimbInv, NEW rate \in Rates, JudgeCeiling(rate)
  PROVE  ClimbInv'
<1>1. /\ UNCHANGED <<client, plays>> /\ run.phase = "ceiling"
      /\ run' = SetCap([run EXCEPT !.phase = "climb", !.ceiling = rate], Params.start)
  BY DEF JudgeCeiling, Judging
<1>2. /\ ClimbTypeOK /\ run \in Runs /\ plays \in 0..Top /\ run.level = 0
      /\ Known(run.rungs, run.current)
  BY <1>1 DEF ClimbInv, ClimbTypeOK
<1>3. rate \in Nat
  BY <1>2, RatesNat
<1> DEFINE levels == 0..Params.maxLevels - 1
           level == run.level + 1
           cap == Params.start
           h == [run EXCEPT !.phase = "climb", !.ceiling = rate]
<1>4. level \in levels /\ cap \in Nat /\ cap > 0
  BY <1>2, ParamsSound
<1>5. /\ h \in Runs /\ h.level = run.level /\ h.rungs = run.rungs /\ h.current = run.current
      /\ h.phase = "climb"
  BY <1>2, <1>3 DEF Runs
<1>6. run' = [h EXCEPT !.level = level, !.cap = cap, !.observing = FALSE, !.pinned = FALSE]
  BY <1>1, <1>5 DEF SetCap
<1> HIDE DEF h, level, cap
<1>7. /\ run' \in Runs /\ run'.phase = "climb" /\ run'.cap = cap /\ run'.rungs = h.rungs
      /\ run'.current = h.current /\ run'.observing = FALSE
  BY <1>4, <1>5, <1>6 DEF Runs
<1>8. Known(run'.rungs, run'.current)
  BY <1>2, <1>5, <1>7
<1> QED BY <1>1, <1>2, <1>4, <1>7, <1>8, ClimbKept

LEMMA ClimbClimbs ==
  ASSUME NarrowNoise, ClimbInv, NEW rate \in Rates, JudgeClimbed(rate)
  PROVE  ClimbInv'
<1>1. PICK cleaner \in BOOLEAN : run' = NextLevel(Climbed(run, rate, cleaner))
  BY DEF JudgeClimbed
<1>2. /\ run.phase = "climb" /\ UNCHANGED <<client, plays>> /\ ~Starved(rate) /\ Risen(rate)
  BY DEF JudgeClimbed, Judging
<1>3. ClimbTypeOK /\ run \in Runs /\ run.cap > 0 /\ Known(run.rungs, run.current)
  BY <1>2 DEF ClimbInv, ClimbTypeOK
<1>4. rate \in Nat \ {0} /\ ShownAs(rate)
  BY <1>2, <1>3, UnstarvedShows
<1>5. Times(run.current, Rise) < rate
  BY <1>2, <1>3, <1>4, RisenEnough
<1> DEFINE r == Climbed(run, rate, cleaner)
<1>6. /\ r \in Runs /\ Known(r.rungs, r.current) /\ r.cap = run.cap /\ r.phase = run.phase
      /\ r.observing = run.observing
  BY <1>3, <1>4, <1>5, ClimbedKnown
<1>7. run' = NextLevel(r)
  BY <1>1
<1> HIDE DEF r
<1> QED BY <1>2, <1>6, <1>7, ClimbGoesOn

LEMMA ClimbInvNext ==
  ASSUME NarrowNoise, ClimbInv, [ClimbNext]_climbVars
  PROVE  ClimbInv'
<1>1. run \in Runs /\ Known(run.rungs, run.current)
  BY DEF ClimbInv, ClimbTypeOK
<1>2. CASE Dwell
  BY <1>2, ClimbDwells
<1>3. CASE JudgeSilent \/ JudgeNothing \/ Leave \/ TakeLadder
  <2>1. UNCHANGED <<client, plays>>
    BY <1>3 DEF JudgeSilent, JudgeNothing, Leave, TakeLadder, Judging
  <2>2. \/ run' = Fail(run, "no traffic") \/ run' = Finish(run, "stopped")
        \/ run' = Fail(run, "samples") \/ run' = Fail(run, "left")
        \/ run' = [run EXCEPT !.stored = TRUE]
    BY <1>3 DEF JudgeSilent, JudgeNothing, Leave, TakeLadder
  <2> QED BY <2>1, <2>2, ClimbEnds
<1>4. ASSUME NEW rate \in Rates, Judge(rate) PROVE ClimbInv'
  <2>1. CASE JudgeCeiling(rate)
    BY <2>1, ClimbSeesCeiling
  <2>2. CASE JudgeClimbed(rate)
    BY <2>2, ClimbClimbs
  <2>3. CASE JudgeStarved(rate) \/ JudgeSame(rate)
    <3>1. run.phase = "climb" /\ UNCHANGED <<client, plays>> /\ run' = NextLevel(run)
      BY <2>3 DEF JudgeStarved, JudgeSame, Judging
    <3> QED BY <1>1, <3>1, ClimbGoesOn
  <2> QED BY <1>4, <2>1, <2>2, <2>3 DEF Judge
<1>5. CASE UNCHANGED climbVars
  <2>1. client' = client /\ plays' = plays /\ run' = run
    BY <1>5 DEF climbVars
  <2>2. plays \in 0..Top
    BY DEF ClimbInv, ClimbTypeOK
  <2> QED BY <1>1, <2>1, <2>2, ClimbKept DEF ClimbInv
<1> QED BY <1>2, <1>3, <1>4, <1>5 DEF ClimbNext

\* Two rungs, the later one shown high above the earlier, are of different renditions.
LEMMA RungsOfRenditions ==
  ASSUME NarrowNoise, ClimbInv
  PROVE  RungsAreRenditions
<1> DEFINE R(k) == Renditions(run.rungs[k])
           top == Top
<1>1. ClimbTypeOK /\ client \in Clients /\ top = Len(client.ladder)
  BY DEF ClimbInv, ClimbTypeOK, Top
<1>2. top \in Nat /\ IsFiniteSet(1..top)
  BY <1>1, ClientSound, FS_Interval
<1>3. ASSUME NEW k \in 1..Len(run.rungs)
      PROVE  /\ R(k) \subseteq 1..top /\ R(k) \in SUBSET Nat /\ R(k) # {} /\ IsFiniteSet(R(k))
             /\ \A i \in R(k) : \E n \in Noise : run.rungs[k].rate = Times(client.ladder[i], n)
  <2>1. ShownAs(run.rungs[k].rate)
    BY DEF ClimbInv, Known
  <2>2. R(k) \subseteq 1..top /\ R(k) # {}
    BY <1>1, <2>1 DEF ShownAs, Renditions
  <2>3. \A i \in R(k) : \E n \in Noise : run.rungs[k].rate = Times(client.ladder[i], n)
    BY DEF Renditions
  <2> HIDE DEF R, top
  <2>4. R(k) \in SUBSET Nat
    BY <1>2, <2>2
  <2>5. IsFiniteSet(R(k))
    BY <1>2, <2>2, FS_Subset
  <2> QED BY <2>2, <2>3, <2>4, <2>5
<1>4. ASSUME NEW k \in 1..Len(run.rungs), k > 1
      PROVE  Max(R(k - 1)) < Min(R(k))
  <2> DEFINE i == Max(R(k - 1))
             j == Min(R(k))
             low == run.rungs[k - 1].rate
             high == run.rungs[k].rate
  <2>1. k - 1 \in 1..Len(run.rungs) /\ k - 1 < k
    BY <1>1, <1>4, ClientSound, RungsNat
  <2>2. i \in R(k - 1)
    <3> HIDE DEF R
    <3> QED BY <1>3, <2>1, GreatestNat
  <2>3. j \in R(k)
    <3> HIDE DEF R
    <3> QED BY <1>3, LeastNat
  <2>4. Times(low, Rise) < high
    BY <2>1 DEF ClimbInv, Known
  <2>5. PICK m \in Noise : low = Times(client.ladder[i], m)
    <3> HIDE DEF R, i, low
    <3> QED BY <1>3, <2>1, <2>2 DEF low
  <2>6. PICK n \in Noise : high = Times(client.ladder[j], n)
    <3> HIDE DEF R, j, high
    <3> QED BY <1>3, <2>3 DEF high
  <2>7. i \in 1..top /\ j \in 1..top
    <3> HIDE DEF R, i, j, top
    <3> QED BY <1>3, <2>1, <2>2, <2>3
  <2> HIDE DEF i, j, low, high
  <2>8. SUFFICES ASSUME ~(i < j) PROVE FALSE
    BY DEF i, j
  <2> DEFINE x == client.ladder[i]  y == client.ladder[j]
  <2>9. x \in Nat /\ y \in Nat /\ y <= x /\ m \in Nat /\ n \in Nat
    <3>1. i \in Nat /\ j \in Nat /\ (j < i \/ j = i)
      BY <1>2, <2>7, <2>8
    <3> QED BY <1>1, <2>7, <3>1, ClientSound
  <2>10. Times(x, n) <= Times(Times(x, m), Rise)
    BY <1>1, <2>7 DEF NarrowNoise
  <2> HIDE DEF x, y
  <2>11. Times(y, n) <= Times(x, n) /\ Times(y, n) \in Nat /\ Times(x, n) \in Nat
    BY <2>9, TimesMonotone, TimesNat
  <2>12. low \in Nat /\ low = Times(x, m) /\ high = Times(y, n)
    BY <2>5, <2>6, <2>9, TimesNat DEF x, y
  <2>13. Times(low, Rise) \in Nat
    BY <2>12, RiseNear
  <2> QED BY <2>4, <2>10, <2>11, <2>12, <2>13
<1> QED BY <1>3, <1>4 DEF RungsAreRenditions

\* What a sweep records is a rendition its client has, once, and in ascending order, whatever
\* the client plays when, and however its cap was aimed, if what a window shows of a rendition
\* never differs by as much as a new rung: a starved client, or one that shows the cap, leaves
\* none (evaluate, addRung).
THEOREM SweepFindsRenditions ==
  ASSUME NarrowNoise
  PROVE  ClimbSpec => []RungsAreRenditions
<1>1. ClimbInit => ClimbInv
  BY ClimbInvInit
<1>2. ClimbInv /\ [ClimbNext]_climbVars => ClimbInv'
  BY ClimbInvNext
<1>3. ClimbInv => RungsAreRenditions
  BY RungsOfRenditions
<1> QED BY <1>1, <1>2, <1>3, PTL DEF ClimbSpec

----------------------------------------------------------------------------
(* The cap kept with a rung.                                               *)

\* No rendition is so slow, nor are rungs merged so freely, that a risen rate is merged.
Resolved ==
  \A c \in Clients : \A i \in 1..Len(c.ladder) : \A n \in Noise :
    LET x == Times(c.ladder[i], n) IN x + Near(x) <= Times(x, Rise) + 1

\* Under this cap a steady client plays what is shown as that rate.
Produces(c, rate, cap) ==
  LET best == Max({i \in 1..Len(c.ladder) : c.ladder[i] * c.wants <= cap * 1000} \cup {1}) IN
  best \in 1..Len(c.ladder) /\ \E n \in Noise : rate = Times(c.ladder[best], n)

CapsInv ==
  client.steady => \A k \in 1..Len(run.rungs) : Produces(client, run.rungs[k].rate, run.rungs[k].upAt)

LEMMA NothingMerges ==
  ASSUME Resolved, ClimbInv, NEW rate \in Nat \ {0}, Times(run.current, Rise) < rate
  PROVE  Merges(run, rate) = {}
<1>1. run \in Runs /\ client \in Clients /\ run.current \in Nat
  BY DEF ClimbInv, ClimbTypeOK, Runs
<1>2. ASSUME NEW k \in 1..Len(run.rungs)
      PROVE  ~(Higher(rate - run.rungs[k].rate, run.rungs[k].rate - rate) < Near(run.rungs[k].rate))
  <2> DEFINE x == run.rungs[k].rate
             c == run.current
  <2>1. x \in Nat /\ c \in Nat
    BY <1>1, RungsNat
  <2>2. x <= c /\ ShownAs(x)
    BY DEF ClimbInv, Known
  <2>3. x + Near(x) <= Times(x, Rise) + 1
    <3> HIDE DEF x
    <3>1. PICK i \in 1..Len(client.ladder), n \in Noise : x = Times(client.ladder[i], n)
      BY <2>2 DEF ShownAs
    <3> QED BY <1>1, <3>1 DEF Resolved
  <2>4. Times(c, Rise) < rate
    OBVIOUS
  <2> HIDE DEF x, c
  <2>5. /\ Times(x, Rise) \in Nat /\ Times(c, Rise) \in Nat /\ Near(x) \in Nat
        /\ Times(x, Rise) <= Times(c, Rise) /\ Near(x) > 0
    BY <2>1, <2>2, RiseNear
  <2>6. x + Near(x) <= rate
    BY <2>1, <2>3, <2>4, <2>5
  <2>7. Higher(rate - x, x - rate) = rate - x
    BY <2>1, <2>5, <2>6 DEF Higher
  <2>8. ~(Higher(rate - x, x - rate) < Near(x))
    BY <2>1, <2>5, <2>6, <2>7
  <2> QED BY <2>8 DEF x
<1> QED BY <1>2 DEF Merges, Near

\* A steady client that is not starved plays the best it accepts under the cap.
LEMMA BestUnderCap ==
  ASSUME ClimbInv, client.steady, run.observing, run.cap > 0, plays \in 1..Top
  PROVE  Max(Admitted(run.cap) \cup {1}) = plays
<1> DEFINE A == Admitted(run.cap)
           S == A \cup {1}
           top == Top
<1>1. ClimbTypeOK /\ plays \in MayTake /\ run.cap \in Nat
  BY DEF ClimbInv, ClimbTypeOK, Runs
<1>2. plays = Best
  BY <1>1 DEF MayTake
<1>3. Takes = A
  BY <1>1 DEF Takes, Admitted
<1>4. /\ Bottom \in {0, 1} /\ plays \in A \cup {Bottom}
      /\ \A i \in A \cup {Bottom} : i <= plays
  BY <1>1, <1>2, <1>3, BestOfTaken
<1>5. A \subseteq 1..top
  BY DEF Admitted
<1>6. top \in Nat /\ top >= 1
  BY <1>1, ClientSound
<1> HIDE DEF A, top
<1>7. S \subseteq 1..top /\ S # {} /\ 1..top \subseteq Nat /\ IsFiniteSet(1..top)
  BY <1>5, <1>6, FS_Interval
<1>8. plays \in S /\ plays >= 1 /\ plays \in Nat
  BY <1>4, <1>6 DEF top
<1>9. \A i \in S : i <= plays
  BY <1>4, <1>8
<1> HIDE DEF S
<1>10. S \in SUBSET Nat /\ IsFiniteSet(S)
  BY <1>7, FS_Subset
<1>11. Max(S) \in S /\ \A i \in S : i <= Max(S)
  BY <1>7, <1>10, GreatestNat
<1>12. Max(S) \in Nat /\ Max(S) <= plays /\ plays <= Max(S)
  BY <1>8, <1>9, <1>10, <1>11
<1>13. Max(S) = plays
  BY <1>8, <1>12
<1> QED BY <1>13 DEF S, A

LEMMA CapsKept ==
  ASSUME CapsInv, client' = client,
         client.steady => \A k \in 1..Len(run'.rungs) :
           \/ k \in 1..Len(run.rungs) /\ run'.rungs[k].rate = run.rungs[k].rate
                                      /\ run'.rungs[k].upAt = run.rungs[k].upAt
           \/ Produces(client, run'.rungs[k].rate, run'.rungs[k].upAt)
  PROVE  CapsInv'
<1>1. ASSUME client.steady, NEW k \in 1..Len(run'.rungs)
      PROVE  Produces(client, run'.rungs[k].rate, run'.rungs[k].upAt)
  BY <1>1 DEF CapsInv
<1> QED BY <1>1 DEF CapsInv

LEMMA CapsClimb ==
  ASSUME NarrowNoise, Resolved, ClimbInv, CapsInv,
         NEW rate \in Rates, JudgeClimbed(rate), run.observing
  PROVE  CapsInv'
<1>1. PICK cleaner \in BOOLEAN : run' = NextLevel(Climbed(run, rate, cleaner))
  BY DEF JudgeClimbed
<1>2. /\ run.phase = "climb" /\ UNCHANGED <<client, plays>> /\ ~Starved(rate) /\ Risen(rate)
  BY DEF JudgeClimbed, Judging
<1>3. ClimbTypeOK /\ run \in Runs /\ run.cap > 0 /\ Known(run.rungs, run.current)
  BY <1>2 DEF ClimbInv, ClimbTypeOK
<1>4. /\ rate \in Nat \ {0} /\ ShownAs(rate) /\ plays \in 1..Top
      /\ \E n \in Noise : rate = Times(client.ladder[plays], n)
  BY <1>2, <1>3, UnstarvedShows
<1>5. Times(run.current, Rise) < rate
  BY <1>2, <1>3, <1>4, RisenEnough
<1>6. Merges(run, rate) = {}
  BY <1>4, <1>5, NothingMerges
<1> DEFINE r == Climbed(run, rate, cleaner)
           n == Len(run.rungs)
<1>7. /\ r \in Runs /\ Len(r.rungs) = n + 1
      /\ r.rungs[n + 1].rate = rate /\ r.rungs[n + 1].upAt = run.cap
      /\ \A k \in 1..n : r.rungs[k].rate = run.rungs[k].rate /\ r.rungs[k].upAt = run.rungs[k].upAt
  BY <1>3, <1>4, <1>5, <1>6, ClimbedKnown
<1>8. run' = NextLevel(r)
  BY <1>1
<1> HIDE DEF r
<1>9. run'.rungs = r.rungs
  BY <1>7, <1>8, NextLevelKeeps
<1>10. client.steady => Produces(client, rate, run.cap)
  <2> SUFFICES ASSUME client.steady PROVE Produces(client, rate, run.cap)
    OBVIOUS
  <2>1. Max(Admitted(run.cap) \cup {1}) = plays
    BY <1>3, <1>4, BestUnderCap
  <2>2. Admitted(run.cap) = {i \in 1..Len(client.ladder) : client.ladder[i] * client.wants <= run.cap * 1000}
    BY DEF Admitted, Top
  <2>3. Top = Len(client.ladder)
    BY DEF Top
  <2> QED BY <1>4, <2>1, <2>2, <2>3 DEF Produces
<1>11. n \in Nat
  BY <1>3, RungsNat
<1>12. ASSUME NEW k \in 1..Len(run'.rungs), client.steady
       PROVE  \/ k \in 1..n /\ run'.rungs[k].rate = run.rungs[k].rate
                            /\ run'.rungs[k].upAt = run.rungs[k].upAt
              \/ Produces(client, run'.rungs[k].rate, run'.rungs[k].upAt)
  <2>1. CASE k = n + 1
    BY <1>7, <1>9, <1>10, <1>12, <2>1
  <2>2. CASE k \in 1..n
    BY <1>7, <1>9, <2>2
  <2> QED BY <1>7, <1>9, <1>11, <2>1, <2>2
<1> QED BY <1>2, <1>12, CapsKept

LEMMA CapsNext ==
  ASSUME NarrowNoise, Resolved, ClimbInv, CapsInv, [ClimbNext]_climbVars
  PROVE  CapsInv'
<1>1. run \in Runs
  BY DEF ClimbInv, ClimbTypeOK
<1>2. ASSUME NEW rate \in Rates, JudgeClimbed(rate), run.observing PROVE CapsInv'
  BY <1>2, CapsClimb
<1>3. ASSUME client' = client, run'.rungs = run.rungs PROVE CapsInv'
  BY <1>3, CapsKept
<1>4. CASE Dwell
  <2>1. client' = client
    BY <1>4 DEF Dwell
  <2>2. run'.rungs = run.rungs
    BY <1>1, <1>4 DEF Dwell, Runs
  <2> QED BY <1>3, <2>1, <2>2
<1>5. CASE JudgeSilent \/ JudgeNothing \/ Leave \/ TakeLadder
  <2>1. client' = client
    BY <1>5 DEF JudgeSilent, JudgeNothing, Leave, TakeLadder, Judging
  <2>2. run'.rungs = run.rungs
    BY <1>1, <1>5 DEF JudgeSilent, JudgeNothing, Leave, TakeLadder,
                      Finish, Fail, Runs
  <2> QED BY <1>3, <2>1, <2>2
<1>6. ASSUME NEW rate \in Rates, JudgeCeiling(rate) PROVE CapsInv'
  <2>1. client' = client
    BY <1>6 DEF JudgeCeiling, Judging
  <2>2. run'.rungs = run.rungs
    BY <1>1, <1>6 DEF JudgeCeiling, SetCap, Runs
  <2> QED BY <1>3, <2>1, <2>2
<1>7. ASSUME NEW rate \in Rates, JudgeStarved(rate) \/ JudgeSame(rate) PROVE CapsInv'
  <2>1. client' = client /\ run' = NextLevel(run)
    BY <1>7 DEF JudgeStarved, JudgeSame, Judging
  <2>2. run'.rungs = run.rungs
    BY <1>1, <2>1, NextLevelKeeps
  <2> QED BY <1>3, <2>1, <2>2
<1>8. CASE UNCHANGED climbVars
  <2>1. client' = client /\ run'.rungs = run.rungs
    BY <1>8 DEF climbVars
  <2> QED BY <1>3, <2>1
<1> QED BY <1>2, <1>4, <1>5, <1>6, <1>7, <1>8 DEF ClimbNext, Judge

\* The ladder handed over is the rungs as they were recorded: each higher than those before.
LEMMA LadderInOrder ==
  ASSUME ClimbInv
  PROVE  LET ladder == Ladder(run) IN
         /\ DOMAIN ladder = 1..Len(run.rungs)
         /\ \A k \in 1..Len(run.rungs) :
              ladder[k].rate = run.rungs[k].rate /\ ladder[k].upAt = run.rungs[k].upAt
<1> DEFINE n == Len(run.rungs)
           at(k) == CHOOSE i \in 1..n : Cardinality(Below(run, i)) = k - 1
<1>1. run \in Runs /\ n \in Nat
  BY RungsNat DEF ClimbInv, ClimbTypeOK
<1>2. \A k \in 1..n : run.rungs[k].rate \in Nat
  BY <1>1, RungsNat
<1>3. ASSUME NEW k \in 1..n, NEW l \in 1..n, k < l PROVE run.rungs[k].rate < run.rungs[l].rate
  <2> DEFINE x == run.rungs[k].rate  y == run.rungs[l].rate
  <2>1. x \in Nat /\ y \in Nat /\ Times(x, Rise) < y
    BY <1>2, <1>3 DEF ClimbInv, Known
  <2> HIDE DEF x, y
  <2>2. Times(x, Rise) \in Nat /\ Times(x, Rise) >= x
    BY <2>1, RiseNear
  <2>3. x < y
    BY <2>1, <2>2
  <2> QED BY <2>3 DEF x, y
<1>4. ASSUME NEW i \in 1..n PROVE Cardinality(Below(run, i)) = i - 1
  <2>1. Below(run, i) = 1..(i - 1)
    <3>1. ASSUME NEW j \in 1..n
          PROVE  (\/ run.rungs[j].rate < run.rungs[i].rate
                  \/ run.rungs[j].rate = run.rungs[i].rate /\ j < i) <=> j < i
      <4>1. j < i => run.rungs[j].rate < run.rungs[i].rate
        BY <1>3
      <4>2. i < j => run.rungs[i].rate < run.rungs[j].rate
        BY <1>3
      <4>3. run.rungs[i].rate \in Nat /\ run.rungs[j].rate \in Nat
        BY <1>2
      <4>4. i \in Nat /\ j \in Nat
        BY <1>1
      <4> DEFINE x == run.rungs[i].rate  y == run.rungs[j].rate
      <4>5. i = j => x = y
        OBVIOUS
      <4> HIDE DEF x, y
      <4>6. (y < x \/ (y = x /\ j < i)) <=> j < i
        <5>1. /\ j < i => y < x
              /\ i < j => x < y
              /\ x \in Nat /\ y \in Nat
          BY <4>1, <4>2, <4>3 DEF x, y
        <5>2. CASE j < i
          BY <5>1, <5>2
        <5>3. CASE i < j
          <6>1. ~ (j < i) /\ x < y
            BY <4>4, <5>1, <5>3
          <6>2. ~ (y < x) /\ y # x
            BY <5>1, <6>1
          <6> QED BY <6>1, <6>2
        <5>4. CASE i = j
          <6>1. ~ (j < i) /\ ~ (y < x)
            BY <4>4, <4>5, <5>1, <5>4
          <6> QED BY <6>1
        <5> QED BY <4>4, <5>2, <5>3, <5>4
      <4> QED BY <4>6 DEF x, y
    <3>2. Below(run, i) = {j \in 1..n : j < i}
      <4>1. Below(run, i) =
              {j \in 1..n : \/ run.rungs[j].rate < run.rungs[i].rate
                            \/ run.rungs[j].rate = run.rungs[i].rate /\ j < i}
        BY DEF Below
      <4> QED BY <3>1, <4>1
    <3>3. {j \in 1..n : j < i} = 1..(i - 1)
      BY <1>1
    <3> QED BY <3>2, <3>3
  <2>2. Cardinality(1..(i - 1)) = i - 1
    BY <1>1, FS_Interval
  <2> QED BY <2>1, <2>2
<1>5. ASSUME NEW k \in 1..n PROVE at(k) = k
  <2>1. \A i \in 1..n : Cardinality(Below(run, i)) = k - 1 <=> i = k
    BY <1>1, <1>4
  <2> QED BY <2>1
<1>6. Ladder(run) =
        [k \in 1..n |->
           [rate |-> run.rungs[at(k)].rate, upAt |-> run.rungs[at(k)].upAt,
            downAt |-> run.rungs[at(k)].downAt,
            unsure |-> run.limited /\ run.rungs[at(k)].rate = run.ceiling]]
  BY DEF Ladder
<1> HIDE DEF at
<1>7. \A k \in 1..n : /\ Ladder(run)[k].rate = run.rungs[at(k)].rate
                      /\ Ladder(run)[k].upAt = run.rungs[at(k)].upAt
  BY <1>6
<1>8. DOMAIN Ladder(run) = 1..n
  BY <1>6
<1> HIDE DEF n
<1> QED BY <1>5, <1>7, <1>8 DEF n

LEMMA CapsProduce == ASSUME ClimbInv, CapsInv PROVE CapsProduceTheirRungs
<1> DEFINE ladder == Ladder(run)
<1> SUFFICES ASSUME client.steady, NEW k \in DOMAIN ladder
             PROVE  Max(Admitted(ladder[k].upAt) \cup {1}) \in Renditions(ladder[k])
  BY DEF CapsProduceTheirRungs
<1>1. /\ k \in 1..Len(run.rungs)
      /\ ladder[k].rate = run.rungs[k].rate /\ ladder[k].upAt = run.rungs[k].upAt
  BY LadderInOrder
<1> HIDE DEF ladder
<1>2. Produces(client, ladder[k].rate, ladder[k].upAt)
  BY <1>1 DEF CapsInv
<1>3. Admitted(ladder[k].upAt) =
        {i \in 1..Len(client.ladder) : client.ladder[i] * client.wants <= ladder[k].upAt * 1000}
  BY DEF Admitted, Top
<1>4. Top = Len(client.ladder)
  BY DEF Top
<1> QED BY <1>2, <1>3, <1>4 DEF Produces, Renditions

\* The cap a ladder gives for a rendition makes a steady client play that rendition, however
\* the caps were aimed and whatever was starved or skipped on the way, if what a window shows
\* of a rendition never differs by as much as a new rung and no rendition is so slow that a
\* risen rate is merged (addRung, TakeResult, Rung.UpAtMbps).
THEOREM LadderCapsWork ==
  ASSUME NarrowNoise, Resolved
  PROVE  ClimbSpec => []CapsProduceTheirRungs
<1>1. ClimbInit => ClimbInv /\ CapsInv
  <2>1. ClimbInit => ClimbInv
    BY ClimbInvInit
  <2>2. ClimbInit => CapsInv
    <3> SUFFICES ASSUME ClimbInit PROVE CapsInv
      OBVIOUS
    <3>1. run.rungs = <<>>
      BY DEF ClimbInit
    <3>2. Len(run.rungs) = 0
      BY <3>1
    <3> QED BY <3>2 DEF CapsInv
  <2> QED BY <2>1, <2>2
<1>2. (ClimbInv /\ CapsInv) /\ [ClimbNext]_climbVars => (ClimbInv /\ CapsInv)'
  <2> SUFFICES ASSUME ClimbInv, CapsInv, [ClimbNext]_climbVars PROVE ClimbInv' /\ CapsInv'
    OBVIOUS
  <2> QED BY ClimbInvNext, CapsNext
<1>3. ClimbInv /\ CapsInv => CapsProduceTheirRungs
  BY CapsProduce
<1> QED BY <1>1, <1>2, <1>3, PTL DEF ClimbSpec

----------------------------------------------------------------------------
(* What creeping skips.                                                    *)

\* The renditions of a steady client are further apart than the cap creeps in a step, than the
\* least step there is, and than what a window shows of them hides.
WellApart ==
  \A c \in Clients : c.steady => \A i \in 2..Len(c.ladder) :
    /\ c.ladder[i - 1] * CreepStep <= c.ladder[i] * 1000
    /\ c.ladder[i - 1] * c.wants + MergeFloor * 1000 <= c.ladder[i] * c.wants
    /\ \A n \in Noise : c.ladder[i - 1] <= Times(c.ladder[i], n)
    /\ \A m, n \in Noise : Times(Times(c.ladder[i - 1], m), Rise) < Times(c.ladder[i], n)

\* A steady client that has taken a rendition does not look starved: what it wants over the
\* rendition's rate is more than a window shows, and leaves it time to pause.
Headroom ==
  \A c \in Clients : c.steady => \A i \in 1..Len(c.ladder) :
    /\ c.ladder[i] * 1000000 <= c.ladder[i] * c.wants * StarvedDuty
    /\ \A n \in Noise : (Times(c.ladder[i], n) + 1) * 1000000 <= c.ladder[i] * c.wants * PinnedToCap

\* While it creeps, a sweep of a steady client has found each of its renditions from the first
\* rung to the one it is on, and the cap admits one more at most.
CreepInv ==
  client.steady /\ ~Calibrated(run) /\ run.rungs # <<>> =>
    \E p \in 1..Top :
      /\ \E n \in Noise : run.current = Times(client.ladder[p], n)
      /\ \A i \in 1..p : client.ladder[i] > run.rungs[1].rate => Found(i)
      /\ ~run.observing => plays <= p
      /\ Climbing => \A i \in Admitted(run.cap) : i <= p + 1

LEMMA Needs ==
  ASSUME ClimbTypeOK
  PROVE  /\ \A i \in 1..Top : client.ladder[i] * client.wants \in Nat
         /\ \A i, j \in 1..Top : i <= j => client.ladder[i] * client.wants <= client.ladder[j] * client.wants
<1>1. /\ client.wants \in Nat /\ \A i \in 1..Top : client.ladder[i] \in Nat
      /\ \A i, j \in 1..Top : i < j => client.ladder[i] < client.ladder[j]
      /\ Top \in Nat
  BY ClientSound
<1>2. \A i \in 1..Top : client.ladder[i] * client.wants \in Nat
  BY <1>1
<1>3. ASSUME NEW i \in 1..Top, NEW j \in 1..Top, i <= j
      PROVE  client.ladder[i] * client.wants <= client.ladder[j] * client.wants
  <2>1. client.ladder[i] <= client.ladder[j]
    <3>1. CASE i = j
      BY <1>1, <3>1
    <3>2. CASE i < j
      <4>1. client.ladder[i] < client.ladder[j] /\ client.ladder[i] \in Nat /\ client.ladder[j] \in Nat
        BY <1>1, <3>2
      <4> QED BY <4>1
    <3> QED BY <1>1, <1>3, <3>1, <3>2
  <2> DEFINE x == client.ladder[i]  y == client.ladder[j]  w == client.wants
  <2>2. x \in Nat /\ y \in Nat /\ w \in Nat /\ x <= y
    BY <1>1, <2>1
  <2> HIDE DEF x, y, w
  <2>3. x * w <= y * w
    BY <2>2
  <2> QED BY <2>3 DEF x, y, w
<1> QED BY <1>2, <1>3

\* The next cap, for one that does not admit the rendition above, admits one more at most.
LEMMA CreepAdmits ==
  ASSUME WellApart, Headroom, ClimbTypeOK, client.steady, NEW cap \in Nat, NEW current \in Nat,
         NEW q \in 1..Top, NEW n \in Noise, current = Times(client.ladder[q], n),
         \A i \in Admitted(cap) : i <= q,
         NEW next, next = Higher(Times(Higher(cap, current), CreepStep), cap + MergeFloor)
  PROVE  \A i \in Admitted(next) : i <= q + 1
<1> SUFFICES ASSUME NEW i \in Admitted(next), ~(i <= q + 1) PROVE FALSE
  OBVIOUS
<1>1. /\ Top \in Nat /\ client \in Clients /\ Top = Len(client.ladder) /\ client.wants \in Nat
      /\ \A j \in 1..Top : client.ladder[j] \in Nat
  BY ClientSound DEF ClimbTypeOK, Top
<1>2. i \in 1..Top /\ client.ladder[i] * client.wants <= next * 1000
  BY DEF Admitted
<1>3. q + 1 \in 1..Top /\ q + 2 \in 1..Top /\ q + 2 <= i /\ q + 1 \in 2..Len(client.ladder)
      /\ q + 2 \in 2..Len(client.ladder) /\ (q + 1) - 1 = q /\ (q + 2) - 1 = q + 1 /\ q \in Nat
  BY <1>1, <1>2
<1>4. \A j \in 2..Len(client.ladder) :
        /\ client.ladder[j - 1] * CreepStep <= client.ladder[j] * 1000
        /\ client.ladder[j - 1] * client.wants + MergeFloor * 1000 <= client.ladder[j] * client.wants
  BY <1>1 DEF WellApart
<1> DEFINE A == client.ladder[q] * client.wants
           B == client.ladder[q + 1] * client.wants
           C == client.ladder[q + 2] * client.wants
<1>5. A \in Nat /\ B \in Nat /\ C \in Nat /\ A <= B
  BY <1>3, Needs
<1>6. C <= client.ladder[i] * client.wants
  BY <1>2, <1>3, Needs
<1>7. cap * 1000 < B
  <2>1. q + 1 \notin Admitted(cap)
    BY <1>3
  <2>2. ~(B <= cap * 1000)
    BY <1>3, <2>1 DEF Admitted
  <2> HIDE DEF B
  <2> QED BY <1>5, <2>2
<1>8. B + 20000 <= C
  <2>1. client.ladder[(q + 2) - 1] * client.wants + MergeFloor * 1000 <= client.ladder[q + 2] * client.wants
    BY <1>4, <1>3
  <2>2. B + MergeFloor * 1000 <= C
    BY <1>3, <2>1
  <2> HIDE DEF B, C
  <2> QED BY <2>2 DEF MergeFloor
<1>9. B * 1220 <= C * 1000
  <2> DEFINE x == client.ladder[q + 1]  y == client.ladder[q + 2]  w == client.wants
  <2>1. client.ladder[(q + 2) - 1] * CreepStep <= client.ladder[q + 2] * 1000
    BY <1>4, <1>3
  <2>2. x \in Nat /\ y \in Nat /\ w \in Nat
    BY <1>1, <1>3
  <2>3. x * CreepStep <= y * 1000
    BY <1>3, <2>1
  <2> HIDE DEF x, y, w
  <2>4. x * 1220 <= y * 1000
    BY <2>3 DEF CreepStep
  <2>5. (x * w) * 1220 = (x * 1220) * w /\ (y * w) * 1000 = (y * 1000) * w
    BY <2>2
  <2>6. (x * 1220) * w <= (y * 1000) * w
    <3> DEFINE u == x * 1220  v == y * 1000
    <3>1. u \in Nat /\ v \in Nat /\ u <= v
      BY <2>2, <2>4
    <3> HIDE DEF u, v
    <3>2. u * w <= v * w
      BY <2>2, <3>1
    <3> QED BY <3>2 DEF u, v
  <2>7. (x * w) * 1220 <= (y * w) * 1000
    BY <2>5, <2>6
  <2> QED BY <2>7 DEF x, y, w
<1>10. current * 1000 < A
  <2>1. (Times(client.ladder[q], n) + 1) * 1000000 <= A * 970
    BY <1>1 DEF Headroom, PinnedToCap
  <2> HIDE DEF A
  <2>2. (current + 1) * 1000000 <= A * 970
    BY <2>1
  <2> QED BY <1>5, <2>2
<1> HIDE DEF A, B, C
<1>11. next \in Nat /\ next * 1000 < C
  <2>1. ASSUME NEW x \in Nat, x * 1000 < B PROVE Times(x, CreepStep) \in Nat /\ Times(x, CreepStep) * 1000 < C
    <3> DEFINE y == (x * 1220) \div 1000
    <3>1. y \in Nat /\ y * 1000 <= x * 1220
      OBVIOUS
    <3>2. Times(x, CreepStep) = y
      BY DEF Times, CreepStep
    <3> HIDE DEF y
    <3> QED BY <1>5, <1>9, <2>1, <3>1, <3>2
  <2>2. Higher(cap, current) \in Nat /\ Higher(cap, current) * 1000 < B
    <3>1. Higher(cap, current) = cap \/ Higher(cap, current) = current
      BY DEF Higher
    <3> QED BY <1>5, <1>7, <1>10, <3>1
  <2>3. Times(Higher(cap, current), CreepStep) \in Nat /\ Times(Higher(cap, current), CreepStep) * 1000 < C
    BY <2>1, <2>2
  <2>4. cap + MergeFloor \in Nat /\ (cap + MergeFloor) * 1000 < C
    BY <1>5, <1>7, <1>8 DEF MergeFloor
  <2>5. next = Times(Higher(cap, current), CreepStep) \/ next = cap + MergeFloor
    BY DEF Higher
  <2> QED BY <2>3, <2>4, <2>5
<1> QED
  <2> DEFINE z == client.ladder[i] * client.wants
  <2>1. z \in Nat /\ z <= next * 1000 /\ C <= z
    BY <1>2, <1>6, Needs
  <2> HIDE DEF z
  <2> QED BY <1>5, <1>11, <2>1

\* A level that goes on after another has the next cap, and one of a run that has not learned
\* enough is a step of a creep.
LEMMA NextLevelCreeps ==
  ASSUME NEW r \in Runs, r.current > 0, ~Calibrated(r), NextLevel(r).state = "running"
  PROVE  NextLevel(r).cap = Higher(Times(Higher(r.cap, r.current), CreepStep), r.cap + MergeFloor)
<1>1. NextCap(r).cap = Creep(r)
  <2>1. r.current \in Nat /\ r.current # 0
    <3>1. r.current \in Nat
      BY DEF Runs
    <3> QED BY <3>1
  <2>2. NextCap(r) = [cap |-> Creep(r), holds |-> 0]
    BY <2>1 DEF NextCap
  <2> QED BY <2>2
<1>2. \A h \in Runs : \A reason : Finish(h, reason).state = "done"
  BY DEF Finish, Runs
<1> DEFINE h == [r EXCEPT !.holds = NextCap(r).holds]
<1>3. h \in Runs
  BY NextCapRises DEF Runs
<1>4. \/ NextLevel(r) \in {Finish(r, "levels"), Finish(r, "ceiling"), Finish(h, "past")}
      \/ NextLevel(r) = SetCap(h, NextCap(r).cap)
  BY DEF NextLevel
<1>5. SetCap(h, NextCap(r).cap).cap = NextCap(r).cap
  <2> HIDE DEF h
  <2> QED BY <1>3 DEF SetCap, Runs
<1> HIDE DEF h
<1>6. NextLevel(r) = SetCap(h, NextCap(r).cap)
  BY <1>2, <1>3, <1>4
<1> QED BY <1>1, <1>5, <1>6 DEF Creep

\* A steady client is taken for a fetching one when what it plays leaves little of the cap.
PinInv ==
  Climbing /\ client.steady /\ run.observing /\ plays > 0 /\ run.pinned =>
    client.ladder[plays] * 1000 > StarvedDuty * run.cap

\* What a steady client plays is the best the cap admits.
LEMMA PlaysTheBest ==
  ASSUME ClimbInv, client.steady, run.observing, run.cap > 0
  PROVE  /\ plays \in 0..Top /\ \A i \in Admitted(run.cap) : i <= plays
         /\ plays > 1 => plays \in Admitted(run.cap)
<1>1. ClimbTypeOK /\ plays \in MayTake /\ run.cap \in Nat
  BY DEF ClimbInv, ClimbTypeOK, Runs
<1>2. plays = Best
  BY <1>1 DEF MayTake
<1>3. Takes = Admitted(run.cap)
  BY <1>1 DEF Takes, Admitted
<1>4. /\ Bottom \in {0, 1} /\ plays \in Admitted(run.cap) \cup {Bottom}
      /\ \A i \in Admitted(run.cap) : i <= plays
  BY <1>1, <1>2, <1>3, BestOfTaken
<1>5. plays \in 0..Top /\ Top \in Nat
  BY <1>1, ClientSound
<1> QED BY <1>4, <1>5

\* One that plays what the cap admits is not judged starved.
LEMMA TakenIsNotStarved ==
  ASSUME Headroom, ClimbInv, PinInv, Climbing, client.steady, run.observing, run.cap > 0,
         plays \in Admitted(run.cap), NEW rate \in Rates
  PROVE  ~Starved(rate)
<1>1. /\ ClimbTypeOK /\ run.cap \in Nat /\ client \in Clients /\ Top = Len(client.ladder)
      /\ plays \in 1..Top /\ client.ladder[plays] * client.wants <= run.cap * 1000
  <2>1. ClimbTypeOK
    BY DEF ClimbInv
  <2>2. run.cap \in Nat
    BY <2>1 DEF ClimbTypeOK, Runs
  <2>3. client \in Clients /\ Top = Len(client.ladder)
    BY <2>1 DEF ClimbTypeOK, Top
  <2>4. plays \in 1..Top /\ client.ladder[plays] * client.wants <= run.cap * 1000
    BY DEF Admitted
  <2> QED BY <2>1, <2>2, <2>3, <2>4
<1>2. client.ladder[plays] \in Nat /\ Top \in Nat /\ client.ladder[plays] * client.wants \in Nat
  BY <1>1, ClientSound, Needs
<1> DEFINE x == client.ladder[plays]
           A == client.ladder[plays] * client.wants
           cap == run.cap
<1>3. /\ x * 1000000 <= A * 960
      /\ \A n \in Noise : (Times(client.ladder[plays], n) + 1) * 1000000 <= A * 970
  BY <1>1 DEF Headroom, StarvedDuty, PinnedToCap
<1>4. x \in Nat /\ A \in Nat /\ cap \in Nat /\ A <= cap * 1000
  BY <1>1, <1>2
<1>5. ~run.pinned
  <2> SUFFICES ASSUME run.pinned PROVE FALSE
    OBVIOUS
  <2>1. plays > 0
    BY <1>1, <1>2
  <2>2. x * 1000 > 960 * cap
    BY <2>1 DEF PinInv, StarvedDuty
  <2> HIDE DEF x, A, cap
  <2> QED BY <1>3, <1>4, <2>2
<1>6. PICK n \in Noise : rate = Lower(Shown(n), cap)
  BY <1>1, <1>2 DEF Rates
<1> DEFINE shown == Times(client.ladder[plays], n)
<1>7. shown \in Nat /\ (shown + 1) * 1000000 <= A * 970
  <2>1. n \in Nat
    BY <1>1, ClientSound
  <2>2. shown \in Nat
    BY <1>2, <2>1, TimesNat
  <2> QED BY <1>3, <2>2
<1>8. rate \in Nat /\ rate <= shown
  <2>1. Shown(n) = shown
    BY DEF Shown
  <2> HIDE DEF shown, cap
  <2>2. rate = Lower(shown, cap)
    BY <1>6, <2>1
  <2> QED BY <1>4, <1>7, <2>2 DEF Lower
<1>9. rate < Times(cap, 970) /\ Times(cap, 970) \in Nat
  <2> DEFINE y == (cap * 970) \div 1000
  <2>1. Times(cap, 970) = y
    BY DEF Times
  <2> HIDE DEF shown, A, cap
  <2>2. (rate + 1) * 1000 <= cap * 970
    BY <1>4, <1>7, <1>8
  <2>3. y \in Nat /\ cap * 970 < y * 1000 + 1000
    BY <1>4
  <2> HIDE DEF y
  <2>4. cap \in Nat
    BY <1>4
  <2>5. rate < y
    BY <1>8, <2>2, <2>3, <2>4
  <2> QED BY <2>1, <2>3, <2>5
<1> DEFINE high == Times(cap, 970)
<1> HIDE DEF high, cap
<1>10. ~(rate >= high)
  BY <1>8, <1>9 DEF high
<1>11. ~(rate >= Times(run.cap, PinnedToCap))
  BY <1>10 DEF high, cap, PinnedToCap
<1> QED BY <1>5, <1>11 DEF Starved

\* A level that goes on is a new one.
LEMMA NextLevelGoesOn ==
  ASSUME NEW r \in Runs, NextLevel(r).state = "running"
  PROVE  NextLevel(r).observing = FALSE
<1>1. \A h \in Runs : \A reason : Finish(h, reason).state = "done"
  BY DEF Finish, Runs
<1> DEFINE h == [r EXCEPT !.holds = NextCap(r).holds]
<1>2. h \in Runs
  BY NextCapRises DEF Runs
<1>3. \/ NextLevel(r) \in {Finish(r, "levels"), Finish(r, "ceiling"), Finish(h, "past")}
      \/ NextLevel(r) = SetCap(h, NextCap(r).cap)
  BY DEF NextLevel
<1>4. SetCap(h, NextCap(r).cap).observing = FALSE
  <2> HIDE DEF h
  <2> QED BY <1>2 DEF SetCap, Runs
<1> HIDE DEF h
<1> QED BY <1>1, <1>2, <1>3, <1>4

\* What the run has learned is not forgotten with another rung.
LEMMA LearnedIsKept ==
  ASSUME NEW r \in Runs, NEW s \in Runs, Calibrated(r), Len(s.rungs) = Len(r.rungs) + 1,
         \A k \in 1..Len(r.rungs) : s.rungs[k].rate = r.rungs[k].rate /\ s.rungs[k].suspect = r.rungs[k].suspect
  PROVE  Calibrated(s)
<1>1. Len(r.rungs) \in Nat
  BY RungsNat
<1>2. ASSUME NEW i \in Trusted(r) PROVE i \in Trusted(s)
  <2>1. i \in 2..Len(r.rungs) /\ ~r.rungs[i].suspect /\ r.rungs[i].rate > r.rungs[i - 1].rate
    BY DEF Trusted
  <2>2. i \in 2..Len(s.rungs) /\ i \in 1..Len(r.rungs) /\ i - 1 \in 1..Len(r.rungs)
    BY <1>1, <2>1
  <2>3. ~s.rungs[i].suspect
    BY <2>1, <2>2, Zenon
  <2>4. s.rungs[i].rate > s.rungs[i - 1].rate
    <3>1. s.rungs[i].rate = r.rungs[i].rate /\ s.rungs[i - 1].rate = r.rungs[i - 1].rate
      BY <2>2
    <3> QED BY <2>1, <3>1
  <2> QED BY <2>2, <2>3, <2>4 DEF Trusted
<1> QED BY <1>2 DEF Calibrated

\* Nothing about the sweep changes: it waits, gives up or is over.
LEMMA CreepKept ==
  ASSUME CreepInv, client' = client, run'.rungs = run.rungs, run'.current = run.current,
         ~run'.observing => ~run.observing /\ plays' = plays,
         run'.state = "running" => run.state = "running" /\ run'.cap = run.cap
  PROVE  CreepInv'
<1> SUFFICES ASSUME client'.steady, ~Calibrated(run'), run'.rungs # <<>>
             PROVE  \E p \in 1..Top' :
                      /\ \E n \in Noise : run'.current = Times(client'.ladder[p], n)
                      /\ \A i \in 1..p : client'.ladder[i] > run'.rungs[1].rate => Found(i)'
                      /\ ~run'.observing => plays' <= p
                      /\ Climbing' => \A i \in Admitted(run.cap)' : i <= p + 1
  BY DEF CreepInv
<1>1. ~Calibrated(run)
  <2>1. Calibrated(run') <=> Calibrated(run)
    BY DEF Calibrated, Trusted
  <2> QED BY <2>1
<1>2. PICK p \in 1..Top :
      /\ \E n \in Noise : run.current = Times(client.ladder[p], n)
      /\ \A i \in 1..p : client.ladder[i] > run.rungs[1].rate => Found(i)
      /\ ~run.observing => plays <= p
      /\ Climbing => \A i \in Admitted(run.cap) : i <= p + 1
  BY <1>1 DEF CreepInv
<1>3. Top' = Top
  BY DEF Top
<1>4. \A i : Found(i)' <=> Found(i)
  BY DEF Found, Renditions, Top
<1>5. Climbing' => Climbing /\ Admitted(run.cap)' = Admitted(run.cap)
  BY DEF Climbing, Admitted, Top
<1>6. \A i \in 1..p : client'.ladder[i] > run'.rungs[1].rate => Found(i)'
  BY <1>2, <1>4
<1>7. Climbing' => \A i \in Admitted(run.cap)' : i <= p + 1
  BY <1>2, <1>5
<1> QED BY <1>2, <1>3, <1>6, <1>7

\* A level starved, or at the rendition of the one before: the run has learned nothing, and
\* what it is on is no higher than what it has found.
LEMMA CreepStays ==
  ASSUME WellApart, Headroom, ClimbInv, CreepInv, run.phase = "climb",
         UNCHANGED <<client, plays>>, run' = NextLevel(run),
         client.steady, ~Calibrated(run), run.rungs # <<>>,
         NEW p \in 1..Top, NEW n \in Noise, run.current = Times(client.ladder[p], n), run.current > 0,
         \A i \in 1..p : client.ladder[i] > run.rungs[1].rate => Found(i),
         plays <= p, \A i \in Admitted(run.cap) : i <= p
  PROVE  CreepInv'
<1>1. /\ ClimbTypeOK /\ run \in Runs /\ run.cap \in Nat /\ run.current \in Nat
  BY DEF ClimbInv, ClimbTypeOK, Runs
<1>2. run' \in Runs /\ run'.rungs = run.rungs /\ run'.current = run.current
  BY <1>1, NextLevelKeeps
<1>3. Top' = Top
  BY DEF Top
<1>4. \A i : Found(i)' <=> Found(i)
  BY <1>2 DEF Found, Renditions, Top
<1>5. Climbing' => \A i \in Admitted(run.cap)' : i <= p + 1
  <2> SUFFICES ASSUME run'.state = "running" PROVE \A i \in Admitted(run.cap)' : i <= p + 1
    BY DEF Climbing
  <2>1. run'.cap = Higher(Times(Higher(run.cap, run.current), CreepStep), run.cap + MergeFloor)
    BY <1>1, NextLevelCreeps
  <2> DEFINE next == run'.cap
  <2>2. \A i \in Admitted(next) : i <= p + 1
    BY <1>1, <2>1, CreepAdmits
  <2>3. Admitted(run.cap)' = Admitted(next)
    BY DEF Admitted, Top
  <2> QED BY <2>2, <2>3
<1>6. \A i \in 1..p : client'.ladder[i] > run'.rungs[1].rate => Found(i)'
  BY <1>2, <1>4
<1>7. run'.current = Times(client'.ladder[p], n) /\ plays' <= p
  BY <1>2
<1> QED BY <1>3, <1>5, <1>6, <1>7 DEF CreepInv

LEMMA CreepJudgedSame ==
  ASSUME NarrowNoise, WellApart, Headroom, ClimbInv, PinInv, CreepInv, run.observing, Climbing,
         NEW rate \in Rates, JudgeStarved(rate) \/ JudgeSame(rate)
  PROVE  CreepInv'
<1>1. /\ run.phase = "climb" /\ UNCHANGED <<client, plays>> /\ run' = NextLevel(run)
      /\ Starved(rate) \/ ~Risen(rate)
  BY DEF JudgeStarved, JudgeSame, Judging
<1>2. /\ ClimbTypeOK /\ run \in Runs /\ run.cap > 0 /\ run.cap \in Nat /\ run.current \in Nat
      /\ client \in Clients /\ Top = Len(client.ladder) /\ Top \in Nat
  BY <1>1, ClientSound DEF ClimbInv, ClimbTypeOK, Runs, Top
<1>3. run' \in Runs /\ run'.rungs = run.rungs
  BY <1>1, <1>2, NextLevelKeeps
<1>4. Calibrated(run') <=> Calibrated(run)
  BY <1>3 DEF Calibrated, Trusted
<1>5. CASE ~client.steady \/ Calibrated(run) \/ run.rungs = <<>>
  BY <1>1, <1>3, <1>4, <1>5 DEF CreepInv
<1>6. CASE client.steady /\ ~Calibrated(run) /\ run.rungs # <<>>
  <2>1. PICK p \in 1..Top :
          /\ \E n \in Noise : run.current = Times(client.ladder[p], n)
          /\ \A i \in 1..p : client.ladder[i] > run.rungs[1].rate => Found(i)
          /\ \A i \in Admitted(run.cap) : i <= p + 1
    BY <1>6 DEF CreepInv
  <2>2. PICK n \in Noise : run.current = Times(client.ladder[p], n)
    BY <2>1
  <2>3. run.current > 0
    BY <1>2, <2>2 DEF NarrowNoise
  <2>4. /\ plays \in 0..Top /\ \A i \in Admitted(run.cap) : i <= plays
        /\ plays > 1 => plays \in Admitted(run.cap)
    BY <1>2, <1>6, PlaysTheBest
  <2>5. plays <= p
    <3> SUFFICES ASSUME ~(plays <= p) PROVE FALSE
      OBVIOUS
    <3>1. plays > 1 /\ plays \in Admitted(run.cap) /\ plays = p + 1 /\ plays \in 2..Top /\ plays - 1 = p
      BY <1>2, <2>1, <2>4
    <3>2. ~Starved(rate)
      BY <1>2, <1>6, <3>1, TakenIsNotStarved
    <3>3. PICK m \in Noise : rate = Times(client.ladder[plays], m)
      BY <1>2, <3>2, UnstarvedShows
    <3>4. \A i \in 2..Len(client.ladder) : \A k, l \in Noise :
            Times(Times(client.ladder[i - 1], k), Rise) < Times(client.ladder[i], l)
      BY <1>2, <1>6 DEF WellApart
    <3>5. Times(run.current, Rise) < rate
      BY <1>2, <2>2, <3>1, <3>3, <3>4
    <3>6. Times(run.current, Rise) \in Nat /\ rate \in Nat
      BY <1>2, RiseNear, RatesNat
    <3> DEFINE high == Times(run.current, Rise)
    <3> HIDE DEF high
    <3>7. rate > high
      BY <3>5, <3>6 DEF high
    <3>8. Risen(rate)
      BY <3>7 DEF Risen, Rise, high
    <3> QED BY <1>1, <3>2, <3>8
  <2>6. \A i \in Admitted(run.cap) : i <= p
    <3> SUFFICES ASSUME NEW i \in Admitted(run.cap) PROVE i <= p
      OBVIOUS
    <3>1. i \in 1..Top /\ i <= plays
      BY <2>4 DEF Admitted
    <3> QED BY <1>2, <2>4, <2>5, <3>1
  <2> QED BY <1>1, <1>6, <2>1, <2>2, <2>3, <2>5, <2>6, CreepStays
<1> QED BY <1>5, <1>6

\* The client has risen: to the rendition above the one it was on, or to its first.
LEMMA CreepFinds ==
  ASSUME NarrowNoise, Resolved, WellApart, Headroom, ClimbInv, CreepInv, run.observing, Climbing,
         NEW rate \in Rates, JudgeClimbed(rate)
  PROVE  CreepInv'
<1> DEFINE n == Len(run.rungs)
<1>1. PICK cleaner \in BOOLEAN : run' = NextLevel(Climbed(run, rate, cleaner))
  BY DEF JudgeClimbed
<1>2. run.phase = "climb" /\ UNCHANGED <<client, plays>> /\ ~Starved(rate) /\ Risen(rate)
  BY DEF JudgeClimbed, Judging
<1>3. /\ ClimbTypeOK /\ run \in Runs /\ run.cap > 0 /\ run.cap \in Nat /\ Known(run.rungs, run.current)
      /\ client \in Clients /\ Top = Len(client.ladder) /\ Top \in Nat /\ n \in Nat
  BY <1>2, ClientSound, RungsNat DEF ClimbInv, ClimbTypeOK, Runs, Top
<1>4. rate \in Nat \ {0} /\ ShownAs(rate) /\ plays \in 1..Top
  BY <1>2, <1>3, UnstarvedShows
<1>5. PICK noise \in Noise : rate = Times(client.ladder[plays], noise)
  BY <1>2, <1>3, UnstarvedShows
<1>6. Times(run.current, Rise) < rate
  BY <1>2, <1>3, <1>4, RisenEnough
<1>7. Merges(run, rate) = {}
  BY <1>4, <1>6, NothingMerges
<1> DEFINE r == Climbed(run, rate, cleaner)
<1>8. /\ r \in Runs /\ r.current = rate /\ r.cap = run.cap
      /\ Len(r.rungs) = n + 1 /\ r.rungs[n + 1].rate = rate
      /\ \A k \in 1..n : r.rungs[k].rate = run.rungs[k].rate /\ r.rungs[k].suspect = run.rungs[k].suspect
  <2>1. /\ r \in Runs /\ r.current = rate /\ r.cap = run.cap
        /\ Merges(run, rate) = {} =>
             /\ Len(r.rungs) = n + 1 /\ r.rungs[n + 1].rate = rate /\ r.rungs[n + 1].upAt = run.cap
             /\ \A k \in 1..n : /\ r.rungs[k].rate = run.rungs[k].rate /\ r.rungs[k].upAt = run.rungs[k].upAt
                               /\ r.rungs[k].suspect = run.rungs[k].suspect
    BY <1>3, <1>4, <1>6, ClimbedKnown
  <2> HIDE DEF r, n
  <2> QED BY <1>7, <2>1
<1>9. run' = NextLevel(r)
  BY <1>1
<1> HIDE DEF r
<1>10. /\ run' \in Runs /\ run'.rungs = r.rungs /\ run'.current = rate
  BY <1>8, <1>9, NextLevelKeeps
<1> SUFFICES ASSUME client'.steady, ~Calibrated(run')
             PROVE  \E p \in 1..Top' :
                      /\ \E m \in Noise : run'.current = Times(client'.ladder[p], m)
                      /\ \A i \in 1..p : client'.ladder[i] > run'.rungs[1].rate => Found(i)'
                      /\ ~run'.observing => plays' <= p
                      /\ Climbing' => \A i \in Admitted(run.cap)' : i <= p + 1
  BY DEF CreepInv
<1>11. client.steady /\ ~Calibrated(run) /\ ~Calibrated(r)
  <2>1. Calibrated(run') <=> Calibrated(r)
    BY <1>10 DEF Calibrated, Trusted
  <2>2. Calibrated(run) => Calibrated(r)
    BY <1>3, <1>8, LearnedIsKept
  <2> QED BY <1>2, <2>1, <2>2
<1>12. \A i \in Admitted(run.cap) : i <= plays
  BY <1>3, <1>11, PlaysTheBest
<1>13. Climbing' => \A i \in Admitted(run.cap)' : i <= plays + 1
  <2> SUFFICES ASSUME run'.state = "running" PROVE \A i \in Admitted(run.cap)' : i <= plays + 1
    BY DEF Climbing
  <2>1. r.current > 0
    BY <1>4, <1>8
  <2>2. run'.cap = Higher(Times(Higher(r.cap, r.current), CreepStep), r.cap + MergeFloor)
    BY <1>8, <1>9, <1>11, <2>1, NextLevelCreeps
  <2> DEFINE next == run'.cap
  <2>3. next = Higher(Times(Higher(run.cap, rate), CreepStep), run.cap + MergeFloor)
    BY <1>8, <2>2
  <2> HIDE DEF next
  <2>4. \A i \in Admitted(next) : i <= plays + 1
    BY <1>3, <1>4, <1>5, <1>11, <1>12, <2>3, CreepAdmits
  <2>5. Admitted(run.cap)' = Admitted(next)
    BY <1>2 DEF Admitted, Top, next
  <2> QED BY <2>4, <2>5
<1>14. \A i \in 1..Top : Found(i)' <=>
         \E k \in 1..n + 1 : \E m \in Noise : r.rungs[k].rate = Times(client.ladder[i], m)
  BY <1>2, <1>8, <1>10 DEF Found, Renditions, Top
<1>15. \A i \in 1..Top : Found(i) => Found(i)'
  <2> SUFFICES ASSUME NEW i \in 1..Top, Found(i) PROVE Found(i)'
    OBVIOUS
  <2>1. PICK k \in 1..n : \E m \in Noise : run.rungs[k].rate = Times(client.ladder[i], m)
    BY DEF Found, Renditions
  <2>2. k \in 1..n + 1 /\ r.rungs[k].rate = run.rungs[k].rate
    BY <1>3, <1>8
  <2> QED BY <1>14, <2>1, <2>2
<1>16. \A i \in 1..Top : i = plays => Found(i)'
  <2>1. n + 1 \in 1..n + 1
    BY <1>3
  <2> QED BY <1>4, <1>5, <1>8, <1>14, <2>1
<1>17. \A i \in 1..plays : client.ladder[i] > run'.rungs[1].rate => Found(i)'
  <2> SUFFICES ASSUME NEW i \in 1..plays, client.ladder[i] > run'.rungs[1].rate, i # plays PROVE Found(i)'
    BY <1>4, <1>16
  <2>1. i \in 1..Top /\ i < plays /\ plays \in 2..Top /\ plays - 1 \in 1..Top /\ i <= plays - 1 /\ plays \in Nat
    BY <1>3, <1>4
  <2>2. CASE n = 0
    <3>1. run'.rungs[1].rate = rate
      BY <1>8, <1>10, <2>2
    <3>2. client.ladder[plays - 1] <= rate
      <4>1. \A j \in 2..Len(client.ladder) : \A m \in Noise : client.ladder[j - 1] <= Times(client.ladder[j], m)
        BY <1>3, <1>11 DEF WellApart
      <4>2. plays \in 2..Len(client.ladder)
        BY <1>3, <2>1
      <4>3. client.ladder[plays - 1] <= Times(client.ladder[plays], noise)
        BY <4>1, <4>2
      <4> QED BY <1>5, <4>3
    <3> DEFINE x == client.ladder[i]  y == client.ladder[plays - 1]
    <3>3. x \in Nat /\ y \in Nat /\ (i < plays - 1 => x < y) /\ (i = plays - 1 => x = y)
      BY <1>3, <2>1, ClientSound
    <3> HIDE DEF x, y
    <3>4. x <= y
      BY <2>1, <3>3
    <3>5. x > rate /\ y <= rate
      BY <3>1, <3>2 DEF x, y
    <3> QED BY <1>4, <3>3, <3>4, <3>5
  <2>3. CASE n # 0
    <3>1. run.rungs # <<>> /\ 1 \in 1..n
      BY <1>3, <2>3
    <3>2. PICK p \in 1..Top :
            /\ \E m \in Noise : run.current = Times(client.ladder[p], m)
            /\ \A j \in 1..p : client.ladder[j] > run.rungs[1].rate => Found(j)
            /\ \A j \in Admitted(run.cap) : j <= p + 1
      BY <1>11, <3>1 DEF CreepInv
    <3>3. run'.rungs[1].rate = run.rungs[1].rate
      BY <1>8, <1>10, <3>1
    <3>4. plays \in Admitted(run.cap)
      BY <1>3, <1>11, <2>1, PlaysTheBest
    <3>5. plays <= p + 1
      BY <3>2, <3>4
    <3>6. i \in 1..p
      BY <1>3, <2>1, <3>2, <3>5
    <3>7. Found(i)
      BY <3>2, <3>3, <3>6
    <3> QED BY <1>15, <2>1, <3>7
  <2> QED BY <2>2, <2>3
<1>18. Top' = Top
  BY <1>2 DEF Top
<1> QED BY <1>2, <1>4, <1>5, <1>10, <1>13, <1>17, <1>18

LEMMA PinNext ==
  ASSUME NarrowNoise, ClimbInv, PinInv, [ClimbNext]_climbVars
  PROVE  PinInv'
<1>1. ClimbTypeOK /\ run \in Runs
  BY DEF ClimbInv, ClimbTypeOK
<1> SUFFICES ASSUME run'.state = "running", client'.steady, run'.observing, plays' > 0, run'.pinned
             PROVE  client'.ladder[plays'] * 1000 > StarvedDuty * run'.cap
  BY DEF PinInv, Climbing
<1>2. CASE Dwell
  <2>1. PICK i \in MayTake : \E mark \in Ready(i) :
          /\ plays' = i
          /\ run' = [run EXCEPT !.observing = TRUE, !.pinned = (mark = "fetching"),
                                !.limited = @ \/ (mark = "fetching" /\ run.phase = "ceiling")]
    BY <1>2 DEF Dwell
  <2>2. PICK mark \in Ready(i) :
          /\ plays' = i /\ client' = client
          /\ run' = [run EXCEPT !.observing = TRUE, !.pinned = (mark = "fetching"),
                                !.limited = @ \/ (mark = "fetching" /\ run.phase = "ceiling")]
    BY <1>2, <2>1 DEF Dwell
  <2>3. run'.pinned = (mark = "fetching") /\ run'.cap = run.cap
    BY <1>1, <2>2 DEF Runs
  <2>4. mark = "fetching" /\ client.steady
    BY <2>2, <2>3
  <2>5. i # 0
    <3>1. i \in 0..Top
      BY <1>1, <2>2, BestOfTaken
    <3> QED BY <1>1, <2>2, <3>1, ClientSound
  <2>6. Fetching(i) = {run.cap > 0 /\ client.ladder[i] * 1000 > StarvedDuty * run.cap}
    BY <2>4, <2>5 DEF Fetching
  <2>7. PICK f \in Fetching(i) : mark = IF f THEN "fetching" ELSE "steady"
    BY <2>4 DEF Ready
  <2>8. client.ladder[i] * 1000 > StarvedDuty * run.cap
    BY <2>4, <2>6, <2>7
  <2> QED BY <2>2, <2>3, <2>8
<1>3. ASSUME NEW r \in Runs, run' = NextLevel(r) PROVE FALSE
  BY <1>3, NextLevelGoesOn
<1>4. ASSUME NEW rate \in Rates, Judge(rate) PROVE FALSE
  <2>1. CASE JudgeCeiling(rate)
    <3>1. run' = SetCap([run EXCEPT !.phase = "climb", !.ceiling = rate], Params.start)
      BY <2>1 DEF JudgeCeiling
    <3>2. rate \in Nat
      BY <1>1, RatesNat
    <3>3. run'.observing = FALSE
      BY <1>1, <3>1, <3>2 DEF SetCap, Runs
    <3> QED BY <3>3
  <2>2. CASE JudgeStarved(rate) \/ JudgeSame(rate)
    BY <1>1, <1>3, <2>2 DEF JudgeStarved, JudgeSame
  <2>3. CASE JudgeClimbed(rate)
    <3>1. PICK cleaner \in BOOLEAN : run' = NextLevel(Climbed(run, rate, cleaner))
      BY <2>3 DEF JudgeClimbed
    <3>2. Climbed(run, rate, cleaner) \in Runs
      <4>1. run.phase = "climb" /\ ~Starved(rate) /\ Risen(rate)
        BY <2>3 DEF JudgeClimbed, Judging
      <4>2. run.cap > 0 /\ Known(run.rungs, run.current)
        BY <4>1 DEF ClimbInv
      <4>3. rate \in Nat \ {0} /\ ShownAs(rate) /\ Times(run.current, Rise) < rate
        BY <1>1, <4>1, <4>2, UnstarvedShows, RisenEnough
      <4> QED BY <1>1, <4>2, <4>3, ClimbedKnown
    <3> QED BY <1>3, <3>1, <3>2
  <2> QED BY <1>4, <2>1, <2>2, <2>3 DEF Judge
<1>5. CASE JudgeSilent \/ JudgeNothing \/ Leave
  <2>1. run'.state \in {"failed", "done"}
    BY <1>1, <1>5 DEF JudgeSilent, JudgeNothing, Leave, Fail, Finish, Runs
  <2> QED BY <2>1
<1>6. CASE TakeLadder
  <2>1. run' = [run EXCEPT !.stored = TRUE] /\ run.state = "done"
    BY <1>6 DEF TakeLadder
  <2>2. run'.state = run.state
    BY <1>1, <2>1 DEF Runs
  <2>3. run'.state # "running"
    BY <2>1, <2>2
  <2> QED BY <2>3
<1>7. CASE UNCHANGED climbVars
  BY <1>7 DEF climbVars, PinInv, Climbing
<1> QED BY <1>2, <1>4, <1>5, <1>6, <1>7 DEF ClimbNext

LEMMA CreepNext ==
  ASSUME NarrowNoise, Resolved, WellApart, Headroom, ClimbInv, PinInv, CreepInv, [ClimbNext]_climbVars
  PROVE  CreepInv'
<1>1. run \in Runs
  BY DEF ClimbInv, ClimbTypeOK
<1>2. CASE Dwell
  <2>1. client' = client /\ run.state = "running"
    BY <1>2 DEF Dwell, Climbing
  <2>2. /\ run'.rungs = run.rungs /\ run'.current = run.current /\ run'.observing = TRUE
        /\ run'.cap = run.cap
    BY <1>1, <1>2 DEF Dwell, Runs
  <2> QED BY <2>1, <2>2, CreepKept
<1>3. CASE JudgeSilent \/ JudgeNothing \/ Leave \/ TakeLadder
  <2>1. UNCHANGED <<client, plays>>
    BY <1>3 DEF JudgeSilent, JudgeNothing, Leave, TakeLadder, Judging
  <2>2. /\ run'.rungs = run.rungs /\ run'.current = run.current /\ run'.observing = run.observing
        /\ run'.state # "running"
    BY <1>1, <1>3 DEF JudgeSilent, JudgeNothing, Leave, TakeLadder, Finish, Fail, Runs
  <2> QED BY <2>1, <2>2, CreepKept
<1>4. ASSUME NEW rate \in Rates, Judge(rate), run.observing PROVE CreepInv'
  <2>1. CASE JudgeCeiling(rate)
    <3>1. run.rungs = <<>>
      BY <2>1 DEF ClimbInv, JudgeCeiling, Judging
    <3>2. run'.rungs = run.rungs
      BY <1>1, <2>1 DEF JudgeCeiling, SetCap, Runs
    <3> QED BY <3>1, <3>2 DEF CreepInv
  <2>2. Climbing
    BY <1>4 DEF Judge, JudgeCeiling, JudgeStarved, JudgeClimbed, JudgeSame, Judging
  <2>3. CASE JudgeStarved(rate) \/ JudgeSame(rate)
    BY <1>4, <2>2, <2>3, CreepJudgedSame
  <2>4. CASE JudgeClimbed(rate)
    BY <1>4, <2>2, <2>4, CreepFinds
  <2> QED BY <1>4, <2>1, <2>3, <2>4 DEF Judge
<1>5. CASE UNCHANGED climbVars
  <2>1. client' = client /\ plays' = plays /\ run' = run
    BY <1>5 DEF climbVars
  <2> QED BY <2>1, CreepKept
<1> QED BY <1>2, <1>3, <1>4, <1>5 DEF ClimbNext

\* While the cap creeps, until three gaps between rungs are trusted, a sweep of a steady client
\* misses no rendition between its first rung and the best the client has taken ("A small step
\* cannot skip"), if its renditions are wider apart than a creeping step, what it wants over one
\* is more than what a window shows of it, and what a window shows tells them apart (nextCap,
\* evaluate).
THEOREM CreepSkipsNothing ==
  ASSUME NarrowNoise, Resolved, WellApart, Headroom
  PROVE  ClimbSpec => [](~Calibrated(run) => NothingSkipped)
<1>1. ClimbInit => ClimbInv /\ PinInv /\ CreepInv
  <2> SUFFICES ASSUME ClimbInit PROVE ClimbInv /\ PinInv /\ CreepInv
    OBVIOUS
  <2>1. run.rungs = <<>> /\ run.observing = FALSE
    BY DEF ClimbInit
  <2> QED BY <2>1, ClimbInvInit DEF PinInv, CreepInv
<1>2. (ClimbInv /\ PinInv /\ CreepInv) /\ [ClimbNext]_climbVars => (ClimbInv /\ PinInv /\ CreepInv)'
  <2> SUFFICES ASSUME ClimbInv, PinInv, CreepInv, [ClimbNext]_climbVars
               PROVE  ClimbInv' /\ PinInv' /\ CreepInv'
    OBVIOUS
  <2>1. ClimbInv'
    BY ClimbInvNext
  <2>2. PinInv'
    BY PinNext
  <2> QED BY <2>1, <2>2, CreepNext
<1>3. ClimbInv /\ PinInv /\ CreepInv => (~Calibrated(run) => NothingSkipped)
  <2> SUFFICES ASSUME ClimbInv, CreepInv, ~Calibrated(run), client.steady, run.rungs # <<>>,
                      NEW i \in 1..plays, client.ladder[i] > run.rungs[1].rate, ~run.observing
               PROVE  Found(i)
    BY DEF NothingSkipped
  <2>1. PICK p \in 1..Top : /\ \A j \in 1..p : client.ladder[j] > run.rungs[1].rate => Found(j)
                            /\ plays <= p
    BY DEF CreepInv
  <2>2. plays \in Nat /\ Top \in Nat
    BY ClientSound DEF ClimbInv
  <2>3. i \in 1..p
    BY <2>1, <2>2
  <2> QED BY <2>1, <2>3
<1> QED BY <1>1, <1>2, <1>3, PTL DEF ClimbSpec

=============================================================================
