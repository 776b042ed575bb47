------------------------------- MODULE Player -------------------------------
(***************************************************************************)
(* The Player (pattern.go): which devices, and the box itself, are being   *)
(* driven along a pattern.  Every operation is one step under its lock;    *)
(* who calls them, and with which reading of the clock, is left open:      *)
(* Drive composes them with the API and the tick.                          *)
(*                                                                         *)
(* fired counts what a run has fired, for the properties only.             *)
(***************************************************************************)
EXTENDS Patterns

CONSTANTS
  Bindings,   \* what a run can drive: the devices and BoxBinding
  Library,    \* the patterns runs are started with
  Groups,     \* the ids scenarios get
  NoGroup,    \* "", the group of a lone run
  Gap,        \* how far a reading of the clock, or a tick, may lag
  NoRun

ASSUME LibraryAssumption ==
  /\ Library \subseteq Timelines
  /\ \A p \in Library : ValidPattern(p) /\ DurSec(p) >= Gap
ASSUME SizeAssumption == MaxKeys \in Nat /\ MaxSec \in Nat /\ Gap \in Nat
ASSUME NamesAssumption == NoGroup \notin Groups

VARIABLES
  clock,   \* the wall clock
  runs,    \* Player.runs: the run of each binding, or NoRun
  fired    \* how often each run's events have fired since it started

playerVars == <<clock, runs, fired>>

Silent == [t \in 0..MaxSec |-> 0]
Running(b) == runs[b] # NoRun /\ runs[b].state = "running"
Paused(b)  == runs[b] # NoRun /\ runs[b].state = "paused"

\* Those whose run belongs to the group of b's, b among them even when it is alone.
GroupOf(b) == {b} \cup {o \in Bindings :
  runs[o] # NoRun /\ runs[o].group = runs[b].group /\ runs[o].group # NoGroup}

\* A reading of the clock that may still be acted on.
Reading(now) == now \in Nat /\ now <= clock /\ clock - now <= Gap

PlayerInit ==
  /\ clock = 0
  /\ runs = [b \in Bindings |-> NoRun]
  /\ fired = [b \in Bindings |-> Silent]

\* Nobody dawdles: time does not leave a running run, or a reading in somebody's
\* hands, more than Gap behind.
Wait == /\ \A b \in Bindings : Running(b) => clock - runs[b].lastAt < Gap
        /\ clock' = clock + 1
        /\ UNCHANGED <<runs, fired>>

Begin(members, pats, now, group) ==
  /\ \A b \in members : ~Running(b)
  /\ runs'  = [b \in Bindings |-> IF b \in members THEN NewRun(pats[b], now, group) ELSE runs[b]]
  /\ fired' = [b \in Bindings |-> IF b \in members THEN Silent ELSE fired[b]]
  /\ UNCHANGED clock

Start(b, p, now) == Begin({b}, [o \in Bindings |-> p], now, NoGroup)

\* All or nothing; the id is one no scenario ever had.
StartGroup(members, pats, now, group) ==
  /\ members # {} /\ group # NoGroup
  /\ \A b \in Bindings : runs[b] # NoRun => runs[b].group # group
  /\ Begin(members, pats, now, group)

Stop(b) ==
  /\ runs[b] # NoRun
  /\ runs' = [o \in Bindings |-> IF o \in GroupOf(b) THEN NoRun ELSE runs[o]]
  /\ UNCHANGED <<clock, fired>>

Pause(b) ==
  /\ Running(b)
  /\ runs' = [o \in Bindings |-> IF o \in GroupOf(b) /\ Running(o)
                                 THEN [runs[o] EXCEPT !.state = "paused"] ELSE runs[o]]
  /\ UNCHANGED <<clock, fired>>

MutantResume(b, now) ==
  /\ Paused(b)
  /\ runs' = [o \in Bindings |-> IF o \in GroupOf(b) /\ Paused(o)
       THEN [runs[o] EXCEPT !.state = "running", !.lastAt = IF o = b THEN now ELSE @]
       ELSE runs[o]]
  /\ UNCHANGED <<clock, fired>>

Resume(b, now) ==
  /\ Paused(b)
  /\ runs' = [o \in Bindings |-> IF o \in GroupOf(b) /\ Paused(o)
                THEN [runs[o] EXCEPT !.state = "running", !.lastAt = now] ELSE runs[o]]
  /\ UNCHANGED <<clock, fired>>

\* The tick moves every running playhead to its own reading of the clock.
Advance(now) ==
  /\ runs'  = [b \in Bindings |-> IF Running(b) THEN Advanced(runs[b], now) ELSE runs[b]]
  /\ fired' = [b \in Bindings |-> [t \in 0..MaxSec |->
       fired[b][t] + (IF Running(b) /\ t \in Fired(runs[b], now) THEN 1 ELSE 0)]]
  /\ UNCHANGED clock

PlayerNext ==
  \/ Wait
  \/ \E now \in (clock - Gap)..clock : now >= 0 /\
       \/ Advance(now)
       \/ \E b \in Bindings :
            \/ Resume(b, now)
            \/ \E p \in Library : Start(b, p, now)
       \/ \E members \in SUBSET Bindings, g \in Groups : \E pats \in [members -> Library] :
            StartGroup(members, pats, now, g)
  \/ \E b \in Bindings : Stop(b) \/ Pause(b)

PlayerSpec == PlayerInit /\ [][PlayerNext]_playerVars

-----------------------------------------------------------------------------
\* How far round a run has been since it began.
Covered(r) == r.laps * DurSec(r.pat) + r.pos

\* The members of a scenario that are still playing stand at the same moment of
\* it, whatever pauses, resumes and late ticks came ("they stay in lockstep for
\* the life of the run rather than merely starting together", StartGroup).
Lockstep == \A a, b \in Bindings :
  /\ runs[a] # NoRun /\ runs[b] # NoRun
  /\ runs[a].group = runs[b].group /\ runs[a].group # NoGroup
  /\ runs[a].state # "done" /\ runs[b].state # "done"
  => /\ runs[a].state = runs[b].state
     /\ runs[a].state = "running" => runs[a].lastAt = runs[b].lastAt
     /\ Covered(runs[a]) = Covered(runs[b])

\* An event fires once on every pass over it, as long as a tick is no longer than
\* a lap: ticks on it, across the end of a lap, or late never repeat or skip it.
\* (One at 0 is not passed on the first lap, and crossed does not fire it then.)
OncePerPass == \A b \in Bindings : runs[b] # NoRun =>
  \A t \in runs[b].pat.events : t > 0 /\ t <= DurSec(runs[b].pat) =>
    fired[b][t] = runs[b].laps + (IF runs[b].pos >= t THEN 1 ELSE 0)
=============================================================================
