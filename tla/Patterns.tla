------------------------------ MODULE Patterns ------------------------------
(***************************************************************************)
(* One run of a pattern (Pattern and Player in pattern.go): what a         *)
(* timeline is, where its playhead stands, and which events a tick fires.  *)
(* Times count half seconds, the grid validPattern holds keyframes to.     *)
(***************************************************************************)
EXTENDS Integers, Sequences

CONSTANTS MaxKeys, MaxSec   \* maxKeys, and maxPatternSec in half seconds

\* A timeline: when its keyframes and its link and radio events are, and whether
\* it starts over.  What a keyframe or an event asks for is left out.
Timelines == [keys : Seq(Nat), events : SUBSET Nat, loop : BOOLEAN]

ValidPattern(p) ==
  /\ Len(p.keys) \in 2..MaxKeys
  /\ p.keys[1] = 0
  /\ \A i \in 2..Len(p.keys) : p.keys[i] > p.keys[i - 1] /\ p.keys[i] <= MaxSec
  /\ \A t \in p.events : t <= MaxSec

DurSec(p) == p.keys[Len(p.keys)]

\* The keyframe in force at pos; what a ramp interpolates is left out.
At(p, pos) == CHOOSE i \in 1..Len(p.keys) :
  p.keys[i] <= pos /\ \A j \in i + 1..Len(p.keys) : pos < p.keys[j]

MutantCrossed(prev, pos, looped, dur, at) ==
  IF looped THEN at > prev \/ at <= pos ELSE prev <= at /\ at <= pos

Crossed(prev, pos, looped, dur, at) ==
  IF looped THEN (prev < at /\ at <= dur) \/ at <= pos
            ELSE prev < at /\ at <= pos

Fires(p, prev, pos, looped) ==
  {t \in p.events : Crossed(prev, pos, looped, DurSec(p), t)}

NewRun(p, now, group) ==
  [pat |-> p, state |-> "running", pos |-> 0, lastAt |-> now, laps |-> 0,
   idx |-> At(p, 0), group |-> group]

\* Where a running playhead stands at now, and whether it went round on the way.
Step(r, now) ==
  LET dur == DurSec(r.pat)
      far == r.pos + (now - r.lastAt)
      to  == IF far < dur THEN far ELSE IF r.pat.loop THEN far % dur ELSE dur
  IN  [looped |-> far >= dur /\ r.pat.loop,
       run |-> [r EXCEPT !.lastAt = now, !.pos = to, !.idx = At(r.pat, to),
                         !.laps = IF far >= dur /\ r.pat.loop THEN @ + far \div dur ELSE @,
                         !.state = IF far >= dur /\ ~r.pat.loop THEN "done" ELSE @]]

\* A tick that reads the clock no later than the run was last moved moves nothing,
\* but takes the run's clock back to its own.
Advanced(r, now) == IF now <= r.lastAt THEN [r EXCEPT !.lastAt = now] ELSE Step(r, now).run

Fired(r, now) == IF now <= r.lastAt THEN {}
  ELSE LET s == Step(r, now) IN Fires(r.pat, r.pos, s.run.pos, s.looped)
=============================================================================
