------------------------------- MODULE Drive --------------------------------
(***************************************************************************)
(* What conditions a device: its stored policy, a pattern run or a ladder  *)
(* sweep (store.go, pattern.go, sweep.go), changed by API requests that    *)
(* read a policy, decide and write it back, and put in force by the tick   *)
(* (state.go), which runs after every write as well as by itself.          *)
(*                                                                         *)
(* A policy is a record; its sub-classes are a cell it points to, since    *)
(* every copy of a Policy shares the array behind its Sub slice.           *)
(*                                                                         *)
(* puts, seen, heard and refused record what happened, for the properties. *)
(***************************************************************************)
EXTENDS Player, FiniteSets

CONSTANTS
  Devices,    \* the devices' MACs
  Stored,     \* the patterns they may have from before,
  Authored,   \*   and those that requests bring
  Box,        \* BoxBinding
  Handlers,   \* the goroutines that serve requests
  MaxClock,   \* how far time runs
  MaxReqs,    \* no more requests than this come
  Workloads,  \* what may come: so many requests of such kinds, to be served by so
              \*   many handlers, moves of devices, and saves that fail
  MaxLevels,  \* SweepParams.MaxLevels
  None

AllKinds == {"edit", "sub", "author", "select", "clear", "play", "stop", "scenario",
             "sweep", "unsweep", "import", "playBox", "stopBox"}

ASSUME BindingsAssumption == Bindings = Devices \cup {Box} /\ Box \notin Devices
ASSUME WorkloadsAssumption == Workloads \subseteq
  [kinds : SUBSET AllKinds, reqs : 0..MaxReqs, busy : Nat, moves : Nat, faults : Nat]
ASSUME NoneAssumption == None \notin Handlers
ASSUME PatternsAssumption == Stored \cup Authored \subseteq Library
ASSUME IdsAssumption == 1..MaxReqs \subseteq Groups
ASSUME BoundsAssumption ==
  /\ {MaxClock, MaxReqs} \subseteq Nat /\ MaxLevels \in Nat \ {0}

VARIABLES
  pol, file,   \* Store.pol, and what its file holds
  sub,         \* the shape in each array of sub-classes a policy has had
  sweep,       \* Sweeper.run, or None
  gen,         \* Sweeper.gen
  live,        \* who is on the network with an address
  tick,        \* the tick under way, or at rest
  due,         \* whether the engine's ticker has gone off since it was last heard
  snap,        \* who the last snapshot says can be shaped
  applied,     \* what conditions each device
  req,         \* the request each handler serves
  left,        \* requests, moves and faults still to come
  puts, seen,  \* writes to the store; of those, how many the last tick had read
  heard        \* the gens whose windows the sweep's levels were judged from

stores == <<pol, file, sub, puts>>
sweeper == <<sweep, gen, heard>>
ticking == <<tick, snap, applied, seen>>
vars == <<playerVars, stores, sweeper, live, ticking, due, req, left>>

Shapes == 0..MaxReqs          \* a shape is named by the request that set it
Blank == [rev |-> 0, shape |-> 0, cell |-> 0, pat |-> None, ladder |-> 0]

Resting == [at |-> "rest", by |-> None, now |-> 0, pols |-> [d \in Devices |-> Blank],
            live |-> {}, gen |-> 0, mac |-> None, p |-> Blank, puts |-> 0]
Idle == [at |-> "idle", kind |-> None, b |-> None, id |-> 0, now |-> 0,
         p |-> Blank, pat |-> None, pats |-> <<>>, all |-> <<>>, put |-> 0]

Sweeping(d) == sweep # None /\ sweep.state = "running" /\ sweep.mac = d

Init ==
  /\ PlayerInit
  /\ pol \in [Devices -> {[Blank EXCEPT !.pat = p] : p \in Stored}] /\ file = pol
  /\ sub = [c \in Devices \X Shapes |-> 0]
  /\ puts = 0 /\ seen = 0
  /\ sweep = None /\ gen = 0 /\ heard = {}
  /\ live = Devices /\ snap = Devices
  /\ tick = Resting /\ due = FALSE
  /\ applied = [d \in Devices |-> [by |-> "policy", what |-> 0, sub |-> 0]]
  /\ req = [h \in Handlers |-> Idle]
  /\ left \in Workloads

-----------------------------------------------------------------------------
(* The store. *)

\* Put writes the whole map out; when that fails the change stays in memory.
Put(d, p, saved) ==
  /\ saved \/ left.faults > 0
  /\ left' = IF saved THEN left ELSE [left EXCEPT !.faults = @ - 1]
  /\ pol' = [pol EXCEPT ![d] = p]
  /\ file' = IF saved THEN pol' ELSE file
  /\ puts' = puts + 1

-----------------------------------------------------------------------------
(* Requests.  A handler's steps are the critical sections of what it calls. *)

Go(h, at) == req' = [req EXCEPT ![h].at = at]
Reply(h) == req' = [req EXCEPT ![h] = Idle]

First == [k \in AllKinds |->
  CASE k \in {"edit", "sub", "author", "select"} -> "load"
    [] k \in {"clear", "stop", "stopBox"} -> "stop"
    [] k \in {"play", "playBox"} -> "resume"
    [] k \in {"scenario", "sweep"} -> "check"
    [] k = "unsweep" -> "cancel"
    [] k = "import" -> "read"]

Arrive(h) == \E k \in left.kinds, d \in Devices, p \in Authored :
  /\ req[h].at = "idle" /\ left.reqs > 0
  /\ Cardinality({o \in Handlers : req[o].at # "idle"}) < left.busy
  /\ left' = [left EXCEPT !.reqs = @ - 1]
  /\ req' = [req EXCEPT ![h] = [Idle EXCEPT
       !.at = First[k], !.kind = k, !.b = IF k \in {"playBox", "stopBox"} THEN Box ELSE d,
       !.id = left.reqs, !.now = clock,
       !.pat = IF k \in {"author", "select", "playBox"} THEN p ELSE None]]
  /\ UNCHANGED <<playerVars, stores, sweeper, live, ticking, due>>

\* load, then checkRev: a request that names the revision it last saw goes on only
\* when that is the one stored, so both come to this.
Load(h) == LET r == req[h] IN
  /\ r.at = "load"
  /\ req' = [req EXCEPT ![h].p = pol[r.b], ![h].at =
       CASE r.kind = "edit" -> "pause" [] r.kind = "sub" -> "inPlace"
         [] r.kind = "select" -> "stop" [] r.kind \in {"author", "clear"} -> "put"
         [] r.kind = "play" -> "check"]
  /\ UNCHANGED <<playerVars, stores, sweeper, live, ticking, due, left>>

\* patchPolicy and deletePattern before they commit, postConfig after it has.
PauseRun(h) ==
  /\ req[h].at = "pause"
  /\ \/ Pause(req[h].b)
     \/ ~Running(req[h].b) /\ UNCHANGED playerVars
  /\ Go(h, IF req[h].kind = "import" THEN "bump" ELSE "put")
  /\ UNCHANGED <<stores, sweeper, live, ticking, due, left>>

MutantStopRun(h) ==
  /\ req[h].at = "stop"
  /\ runs' = [runs EXCEPT ![req[h].b] = NoRun] /\ UNCHANGED <<clock, fired>>
  /\ CASE req[h].kind = "clear" -> Go(h, "load")
       [] req[h].kind = "select" -> Go(h, "put")
       [] OTHER -> Reply(h)
  /\ UNCHANGED <<stores, sweeper, live, ticking, due, left>>

\* deletePattern and selectPattern go on whether or not there was a run.
StopRun(h) ==
  /\ req[h].at = "stop"
  /\ \/ Stop(req[h].b)
     \/ runs[req[h].b] = NoRun /\ UNCHANGED playerVars
  /\ CASE req[h].kind = "clear" -> Go(h, "load")
       [] req[h].kind = "select" -> Go(h, "put")
       [] OTHER -> Reply(h)
  /\ UNCHANGED <<stores, sweeper, live, ticking, due, left>>

\* patchSub writes the first half of the request into the array it shares with the
\* store, and may then refuse the second.
InPlace(h) ==
  /\ req[h].at = "inPlace"
  /\ sub' = [sub EXCEPT ![<<req[h].b, req[h].p.cell>>] = req[h].id]
  /\ Go(h, "put") \/ Reply(h)
  /\ UNCHANGED <<playerVars, pol, file, puts, sweeper, live, ticking, due, left>>

\* commit: the revision counts up from the one loaded.
Commit(h) == LET r == req[h]
                 p == [r.p EXCEPT !.rev = @ + 1,
                         !.shape = IF r.kind = "edit" THEN r.id ELSE @,
                         !.pat = IF r.kind \in {"author", "select", "clear"} THEN r.pat ELSE @] IN
  /\ r.at = "put"
  /\ IF r.kind = "clear" /\ r.p.pat = None
     THEN Reply(h) /\ UNCHANGED <<stores, left>>
     ELSE \E saved \in BOOLEAN :
       /\ Put(r.b, p, saved)
       /\ req' = IF saved THEN [req EXCEPT ![h].at = "bump", ![h].put = puts']
                          ELSE [req EXCEPT ![h] = Idle]
       /\ UNCHANGED sub
  /\ UNCHANGED <<playerVars, sweeper, live, ticking, due>>

\* postConfig works out every device's policy from those it read, the document's
\* devices counted up and the others as they were, and stores them in one write,
\* which is undone if it fails.
ReadAll(h) ==
  /\ req[h].at = "read"
  /\ req' = [req EXCEPT ![h].all = pol, ![h].at = "replace"]
  /\ UNCHANGED <<playerVars, stores, sweeper, live, ticking, due, left>>

Import(h) == LET r == req[h] IN
  /\ r.at = "replace"
  /\ \/ /\ pol' = [r.all EXCEPT ![r.b] = [Blank EXCEPT !.rev = r.all[r.b].rev + 1,
                                             !.shape = r.id, !.cell = r.id]]
        /\ file' = pol' /\ puts' = puts + 1
        /\ req' = [req EXCEPT ![h].at = "pause", ![h].put = puts', ![h].all = <<>>]
        /\ UNCHANGED <<sub, left>>
     \/ /\ left.faults > 0 /\ left' = [left EXCEPT !.faults = @ - 1]
        /\ Reply(h) /\ UNCHANGED stores
  /\ UNCHANGED <<playerVars, sweeper, live, ticking, due>>

\* playPattern and playAdapterPattern: resume a paused run, else go on to start one.
ResumeRun(h) == LET r == req[h] IN
  /\ r.at = "resume"
  /\ \/ Resume(r.b, r.now) /\ Reply(h)
     \/ ~Paused(r.b) /\ Go(h, IF r.b = Box THEN "start" ELSE "load") /\ UNCHANGED playerVars
  /\ UNCHANGED <<stores, sweeper, live, ticking, due, left>>

\* What must hold for a pattern, a scenario or a sweep to be started: everybody in
\* it can be shaped, and nothing else drives them.
MayPlay(r) == r.p.pat # None /\ r.b \in snap /\ ~Sweeping(r.b)
MayPlayAll == Devices \subseteq snap /\ \A d \in Devices : pol[d].pat # None /\ ~Sweeping(d)
MaySweep(r) == r.b \in snap /\ ~Running(r.b)

Check(h) == LET r == req[h] IN
  /\ r.at = "check"
  /\ IF \/ r.kind = "play" /\ MayPlay(r)
        \/ r.kind = "scenario" /\ MayPlayAll
        \/ r.kind = "sweep" /\ MaySweep(r)
     THEN req' = [req EXCEPT ![h].at = "start", ![h].now = IF r.kind = "play" THEN @ ELSE clock,
                            ![h].pats = IF r.kind # "scenario" THEN @
                                        ELSE [d \in Devices |-> pol[d].pat]]
     ELSE Reply(h)
  /\ UNCHANGED <<playerVars, stores, sweeper, live, ticking, due, left>>

StartRun(h) == LET r == req[h] IN
  /\ r.at = "start" /\ r.kind \in {"play", "playBox"}
  /\ \/ Start(r.b, IF r.kind = "play" THEN r.p.pat ELSE r.pat, r.now)
     \/ Running(r.b) /\ UNCHANGED playerVars
  /\ Reply(h)
  /\ UNCHANGED <<stores, sweeper, live, ticking, due, left>>

StartScenario(h) == LET r == req[h] IN
  /\ r.at = "start" /\ r.kind = "scenario"
  /\ \/ StartGroup(Devices, r.pats, r.now, r.id)
     \/ (\E d \in Devices : Running(d)) /\ UNCHANGED playerVars
  /\ Reply(h)
  /\ UNCHANGED <<stores, sweeper, live, ticking, due, left>>

StartSweep(h) == LET r == req[h] IN
  /\ r.at = "start" /\ r.kind = "sweep"
  /\ IF sweep # None /\ sweep.state = "running" THEN UNCHANGED sweeper
     ELSE /\ gen' = gen + 1
          /\ sweep' = [mac |-> r.b, gen |-> gen', level |-> 0, state |-> "running",
                       stored |-> FALSE]
          /\ heard' = {}
  /\ Reply(h)
  /\ UNCHANGED <<playerVars, stores, live, ticking, due, left>>

StopSweep(h) ==
  /\ req[h].at = "cancel"
  /\ sweep' = IF Sweeping(req[h].b) THEN [sweep EXCEPT !.state = "failed"] ELSE sweep
  /\ Reply(h)
  /\ UNCHANGED <<playerVars, stores, gen, heard, live, ticking, due, left>>

-----------------------------------------------------------------------------
(* The tick, serialised by tickMu: by is the handler whose BumpControl runs it, *)
(* or None when it is the engine's own ticker, of which one tick may be pending. *)

\* The policies and the devices of this tick are read as it begins, and whether a
\* sweep is running whose window it will read.
Begins(by) ==
  /\ tick.at = "rest"
  /\ tick' = [Resting EXCEPT !.by = by, !.now = clock, !.pols = pol, !.live = live,
                 !.puts = puts, !.gen = gen,
                 !.at = IF sweep # None /\ sweep.state = "running" THEN "judge" ELSE "advance"]
  /\ UNCHANGED <<playerVars, stores, sweeper, live, snap, applied, seen, left>>

TickerTicks == due /\ Begins(None) /\ due' = FALSE /\ UNCHANGED req

MutantBumpControl(h) ==
  /\ req[h].at = "bump"
  /\ \/ Begins(h) /\ Go(h, "ticking") /\ UNCHANGED due
     \/ /\ tick.at # "rest" /\ Go(h, "reply")
        /\ UNCHANGED <<playerVars, stores, sweeper, live, ticking, due, left>>

BumpControl(h) == req[h].at = "bump" /\ Begins(h) /\ Go(h, "ticking") /\ UNCHANGED due

\* What a tick makes of a running sweep: hold on, another level, or the end of it.
Judged(s) == IF s.mac \notin tick.live THEN {[s EXCEPT !.state = "failed"]}
  ELSE {s, [s EXCEPT !.state = "done"], [s EXCEPT !.state = "failed"]} \cup
       IF s.level + 1 < MaxLevels THEN {[s EXCEPT !.level = @ + 1]} ELSE {}

MutantJudge ==
  /\ tick.at = "judge"
  /\ tick' = [tick EXCEPT !.at = "take"]
  /\ IF sweep.state = "running"
     THEN sweep' \in Judged(sweep) /\ heard' = heard \cup {tick.gen}
     ELSE UNCHANGED <<sweep, heard>>
  /\ UNCHANGED <<playerVars, stores, gen, live, snap, applied, seen, due, req, left>>

\* withRun: the window was read without the lock, so the run may be another by now.
JudgeSweep ==
  /\ tick.at = "judge"
  /\ tick' = [tick EXCEPT !.at = "take"]
  /\ IF sweep.state = "running" /\ sweep.gen = tick.gen
     THEN sweep' \in Judged(sweep) /\ heard' = heard \cup {tick.gen}
     ELSE UNCHANGED <<sweep, heard>>
  /\ UNCHANGED <<playerVars, stores, gen, live, snap, applied, seen, due, req, left>>

\* TakeResult hands a finished sweep's ladder over once.
TakeResult ==
  /\ tick.at = "take"
  /\ IF sweep # None /\ sweep.state = "done" /\ ~sweep.stored
     THEN /\ sweep' = [sweep EXCEPT !.stored = TRUE]
          /\ tick' = [tick EXCEPT !.at = "keep", !.gen = sweep.gen, !.mac = sweep.mac,
                                  !.p = pol[sweep.mac]]
     ELSE tick' = [tick EXCEPT !.at = "advance"] /\ UNCHANGED sweep
  /\ UNCHANGED <<playerVars, stores, gen, heard, live, snap, applied, seen, due, req, left>>

\* storeSweepResult: the policy is the one read before, whatever came since.
KeepLadder == \E saved \in BOOLEAN :
  /\ tick.at = "keep"
  /\ Put(tick.mac, [tick.p EXCEPT !.ladder = tick.gen, !.rev = @ + 1], saved)
  /\ tick' = [tick EXCEPT !.at = "advance"]
  /\ UNCHANGED <<playerVars, sub, sweeper, live, snap, applied, seen, due, req>>

AdvanceRuns ==
  /\ tick.at = "advance"
  /\ Advance(tick.now)
  /\ tick' = [tick EXCEPT !.at = "apply"]
  /\ UNCHANGED <<stores, sweeper, live, snap, applied, seen, due, req, left>>

\* desired: a pattern over a sweep over the policy, for whoever has an address.
Desired(d) == [sub |-> sub[d, tick.pols[d].cell],
  by |-> IF Running(d) THEN "pattern" ELSE IF Sweeping(d) THEN "sweep" ELSE "policy",
  what |-> IF Running(d) THEN runs[d].idx
           ELSE IF Sweeping(d) THEN sweep.level ELSE tick.pols[d].shape]

Apply ==
  /\ tick.at = "apply"
  /\ applied' = [d \in Devices |-> IF d \in tick.live THEN Desired(d) ELSE applied[d]]
  /\ seen' = tick.puts
  /\ snap' = tick.live
  /\ tick' = Resting
  /\ IF tick.by = None THEN UNCHANGED req ELSE Go(tick.by, "reply")
  /\ UNCHANGED <<playerVars, stores, sweeper, live, due, left>>

Answer(h) ==
  /\ req[h].at = "reply"
  /\ Reply(h)
  /\ UNCHANGED <<playerVars, stores, sweeper, live, ticking, due, left>>

-----------------------------------------------------------------------------
(* The world. *)

Move(d) ==
  /\ left.moves > 0 /\ left' = [left EXCEPT !.moves = @ - 1]
  /\ live' = IF d \in live THEN live \ {d} ELSE live \cup {d}
  /\ UNCHANGED <<playerVars, stores, sweeper, ticking, due, req>>

\* Time passes; a reading of the clock is acted on before it is Gap old.
Pass ==
  /\ clock < MaxClock
  /\ \A h \in Handlers : req[h].at \in {"resume", "load", "check", "start"} => clock - req[h].now < Gap
  /\ tick.at # "rest" => clock - tick.now < Gap
  /\ Wait
  /\ due' = TRUE
  /\ UNCHANGED <<stores, sweeper, live, ticking, req, left>>

Request(h) ==
  \/ Arrive(h) \/ Load(h) \/ PauseRun(h) \/ StopRun(h) \/ InPlace(h) \/ Commit(h)
  \/ ReadAll(h) \/ Import(h) \/ ResumeRun(h) \/ Check(h) \/ StartRun(h) \/ StartScenario(h)
  \/ StartSweep(h) \/ StopSweep(h) \/ BumpControl(h) \/ Answer(h)

Tick == \/ TickerTicks \/ JudgeSweep \/ TakeResult
        \/ KeepLadder \/ AdvanceRuns \/ Apply

Next == Tick \/ Pass \/ \E h \in Handlers : Request(h) \/ \E d \in Devices : Move(d)

Spec == Init /\ [][Next]_vars

-----------------------------------------------------------------------------
TypeOK ==
  /\ clock \in 0..MaxClock /\ gen \in 0..MaxReqs /\ {puts, seen} \subseteq Nat
  /\ \A d \in Devices : pol[d].shape \in Shapes /\ pol[d].pat \in Library \cup {None}
  /\ live \subseteq Devices /\ snap \subseteq Devices
  /\ sweep # None => sweep.mac \in Devices /\ sweep.level < MaxLevels
  /\ tick.at # "rest" => tick.by = None \/ req[tick.by].at = "ticking"
  /\ \A h \in Handlers : req[h].at = "ticking" => tick.by = h

\* "Apply immediately rather than waiting up to a full tick, so the UI sees its own
\* write reflected" (BumpControl): by the time a write is answered, a tick that had
\* read it, or a later one, has been through the kernel, whoever else was ticking.
AppliesBeforeReply ==
  \A h \in Handlers : req[h].at = "reply" => seen >= req[h].put

\* A sweep is judged only on windows that were read for it: not on those of one
\* cancelled, or finished and replaced, while the tick was looking (withRun).
SweepKeepsItsOwn == sweep # None => heard \subseteq {sweep.gen}

\* "Rev increments on every write to THIS device ... a mismatch means someone else
\* edited" (Policy in model.go): what a policy says does not change under a revision.
RevCountsWrites == [][\A d \in Devices :
  \/ pol'[d].rev > pol[d].rev
  \/ pol'[d] = pol[d] /\ sub'[d, pol'[d].cell] = sub[d, pol[d].cell]]_vars

\* A sweep and a pattern never drive a device together ("the API refuses to start
\* one while the other is running", desired).
OneDriver == \A d \in Devices : ~(Running(d) /\ Sweeping(d))
=============================================================================
