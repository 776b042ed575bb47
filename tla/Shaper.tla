------------------------------- MODULE Shaper -------------------------------
(***************************************************************************)
(* The shaper's reconciler: once a tick, Apply (shape.go) brings the       *)
(* kernel's queueing into line with what is wanted for every client, by    *)
(* comparing the wanted set with its own record of what it last wrote.     *)
(*                                                                         *)
(* The record and the kernel can part company: an interface is unplugged   *)
(* and comes back under the same name, between two ticks or in the middle  *)
(* of one; the daemon is killed and starts over while the kernel keeps     *)
(* what it had.  A tc command obeys the kernel's rules: an add fails on    *)
(* what exists, a change on what does not.                                 *)
(*                                                                         *)
(* Downlink lives on the port a client is on, uplink on the WAN port, whose *)
(* interface is assumed to stay.  A class is named by its minor number.    *)
(***************************************************************************)
EXTENDS Integers, FiniteSets

CONSTANTS
  Keys,        \* Desired.Key, as numbers in the order Apply sorts them
  Ports, Wan,  \* the bridge's ports, the WAN port
  Addrs, Shapes, Clean, LowCaps,
  NoPort, NoAddr,
  Asks,        \* what may be wanted for a key: an address, a port, two shapes
  Unwanted,    \* a key that is not in the wanted set
  Pluggable,   \* ports that may be unplugged
  Stubborn,    \* interfaces whose driver keeps GRO on
  OffElsewhere, \* interfaces somebody else may have turned GRO off on
  FirstMinor, MaxMinor,
  Unnoticed,   \* TRUE: an interface may be replaced without a tick seeing it gone
  Patience,    \* ticks in a row without a disturbance after which all must be in line
  MaxTroubles  \* unplugs, refused commands and kills a behaviour may meet

Devs   == Ports \cup {Wan}
Minors == FirstMinor .. MaxMinor
NoMinor == FirstMinor - 1

ASSUME KeysAssumption == Keys \subseteq Nat /\ IsFiniteSet(Keys)
ASSUME DevsAssumption == Wan \notin Ports /\ NoPort \notin Ports \cup {Wan}
ASSUME PluggableAssumption == Pluggable \subseteq Ports /\ Stubborn \subseteq Ports \cup {Wan}
ASSUME ElsewhereAssumption == OffElsewhere \subseteq (Ports \cup {Wan}) \ Stubborn
ASSUME ShapesAssumption == Clean \in Shapes /\ LowCaps \subseteq Shapes \ {Clean}
ASSUME AsksAssumption ==
  /\ Asks \subseteq [addr : Addrs, port : Ports \cup {NoPort}, down : Shapes, up : Shapes]
  /\ Unwanted \notin Asks /\ NoAddr \notin Addrs
ASSUME BoundsAssumption ==
  /\ FirstMinor \in Nat \ {0} /\ MaxMinor \in Nat /\ FirstMinor <= MaxMinor
  /\ Unnoticed \in BOOLEAN /\ Patience \in Nat \ {0} /\ MaxTroubles \in Nat

VARIABLES
  \* the kernel
  present,      \* interfaces that exist
  root,         \* interfaces with our root HTB
  cls,          \* classes, by interface
  leaf,         \* netem leaf of each class: its shape, and whether its queue is sized in time
  fil,          \* the address each class's filters select
  merging,      \* interfaces with GRO on
  \* Shaper
  ports,        \* Shaper.ports
  minors, nextMin,
  applied,      \* Shaper.applied, one rule per key
  gro,          \* Shaper.gro: no hold, a hold on this interface, or on an earlier one
  \* one Apply
  pc, want,
  paced,        \* the ports syncGRO found not merging
  todo,         \* keys still to visit
  job,          \* the key in hand
  \* history and bounds
  calm,         \* ticks begun since an interface last came or went or the daemon died,
                \* counted up to Patience
  theirs,       \* interfaces whose GRO this run of the daemon did not turn off
  hurt,         \* keys a command for which the kernel refused
  killed,       \* the daemon has been killed
  troubles

kernel  == <<present, root, cls, leaf, fil, merging>>
shaper  == <<ports, minors, nextMin, applied, gro>>
tick    == <<pc, want, paced, todo, job>>
history == <<calm, theirs, hurt, killed, troubles>>
vars == <<kernel, shaper, tick, history>>

Leaf == [shape : Shapes, paced : BOOLEAN]   \* paced as NetemLimit has it
NoLeaf == [shape |-> Clean, paced |-> FALSE]
Rules == [ask : Asks, port : Ports \cup {NoPort}, haveDown : BOOLEAN, haveUp : BOOLEAN,
          paced : BOOLEAN]
NoRule == [ask |-> Unwanted, port |-> NoPort, haveDown |-> FALSE, haveUp |-> FALSE,
           paced |-> FALSE]
Jobs == [key : Keys, prev : Rules \cup {NoRule}, port : Ports \cup {NoPort},
         haveDown : BOOLEAN]

KernelOK ==
  /\ present \in SUBSET Devs /\ root \in SUBSET Devs /\ merging \in SUBSET Devs
  /\ cls \in [Devs -> SUBSET Minors]
  /\ leaf \in [Devs -> [Minors -> Leaf]]
  /\ fil \in [Devs -> [Minors -> Addrs \cup {NoAddr}]]

ShaperOK ==
  /\ ports \in SUBSET Devs
  /\ minors \in [Keys -> Minors \cup {NoMinor}] /\ nextMin \in FirstMinor .. (MaxMinor + 1)
  /\ applied \in [Keys -> Rules \cup {NoRule}]
  /\ gro \in [Devs -> {"none", "held", "stale"}]

TickOK ==
  /\ pc \in {"idle", "next", "down", "up", "stopped"}
  /\ want \in [Keys -> Asks \cup {Unwanted}]
  /\ paced \in SUBSET Devs /\ todo \in SUBSET Keys
  /\ pc \in {"down", "up"} => job \in Jobs

TypeOK ==
  /\ KernelOK /\ ShaperOK /\ TickOK
  /\ calm \in 0 .. Patience /\ theirs \in SUBSET Devs
  /\ hurt \in SUBSET Keys /\ killed \in BOOLEAN /\ troubles \in Nat

Bare == [m \in Minors |-> NoLeaf]
Unfiltered == [m \in Minors |-> NoAddr]
NoJob == [key |-> 0, prev |-> NoRule, port |-> NoPort, haveDown |-> FALSE]

\* NewShaper and Setup on a box nobody has shaped: the WAN port has its root.
Init ==
  /\ present = Devs /\ root = {Wan}
  /\ cls = [d \in Devs |-> {}] /\ leaf = [d \in Devs |-> Bare]
  /\ fil = [d \in Devs |-> Unfiltered]
  /\ theirs \in SUBSET OffElsewhere /\ merging = Devs \ theirs
  /\ ports = {Wan} /\ gro = [d \in Devs |-> "none"]
  /\ minors = [k \in Keys |-> NoMinor] /\ nextMin = FirstMinor
  /\ applied = [k \in Keys |-> NoRule]
  /\ pc = "idle" /\ want = [k \in Keys |-> Unwanted]
  /\ paced = {} /\ todo = {} /\ job = NoJob
  /\ calm = 0 /\ hurt = {} /\ killed = FALSE /\ troubles = 0

----------------------------------------------------------------------------
\* The start of a tick: what is wanted now, and GRO (gro.go).

Wanted(w) == {k \in Keys : w[k] # Unwanted}

\* Traffic arrives on the client's port for an uplink cap, on the WAN for a downlink one.
GroPorts(w) ==
  {d \in Devs : \E k \in Wanted(w) :
      \/ w[k].up \in LowCaps /\ d = w[k].port
      \/ w[k].down \in LowCaps /\ d = Wan}

\* Interfaces this sync turns off, those it finds not merging, those it gives back.
GroTurnedOff(need) ==
  {d \in need \cap present : gro[d] # "held" /\ d \in merging /\ d \notin Stubborn}
GroOff(need) ==
  {d \in need \cap present : gro[d] = "held" \/ d \notin merging \/ d \notin Stubborn}
MutantNothingReturned(need) == {}
GroReturned(need) == {d \in present \ need : gro[d] = "held"}

SyncGro(need) ==
  /\ paced' = GroOff(need)
  /\ merging' = (merging \ GroTurnedOff(need)) \cup GroReturned(need)
  /\ gro' = [d \in Devs |->
               IF d \notin need THEN "none"
               ELSE IF d \in GroTurnedOff(need) \/ (d \in GroOff(need) /\ gro[d] = "stale")
               THEN "held" ELSE gro[d]]

\* Bound: keys that would need a minor past MaxMinor are not asked for.
MinorsSuffice(w) ==
  nextMin + Cardinality({k \in Wanted(w) : minors[k] = NoMinor}) <= MaxMinor + 1

BeginTick ==
  /\ pc = "idle" /\ pc' = "next"
  /\ calm' = IF calm < Patience THEN calm + 1 ELSE calm
  /\ \E w \in [Keys -> Asks \cup {Unwanted}] :
       /\ MinorsSuffice(w)
       /\ want' = w /\ todo' = Wanted(w)
       /\ SyncGro(GroPorts(w))
  /\ UNCHANGED <<present, root, cls, leaf, fil, ports, minors, nextMin, applied, job,
                 theirs, hurt, killed, troubles>>

----------------------------------------------------------------------------
\* Apply visits the wanted keys in order: first the minor and the port ...

First(k) == k \in todo /\ \A j \in todo : k <= j

MinorOf(k) == IF minors[k] # NoMinor THEN minors[k] ELSE nextMin

AssignMinor(k) ==
  /\ minors' = [minors EXCEPT ![k] = MinorOf(k)]
  /\ nextMin' = IF minors[k] # NoMinor THEN nextMin ELSE nextMin + 1

\* prefBase: a class's filters take a block of priorities of its own, and those of a
\* sub-class come before every device default.  fil speaks of a class's filters, not of
\* priorities, because both hold for the first 2416 minors (ShaperProofs).
PrefSlots == 12
PrefSubBase == 1000
PrefDefaultBase == 30000
PrefBase(minor, isSub) ==
  (IF isSub THEN PrefSubBase ELSE PrefDefaultBase) + (minor - FirstMinor) * PrefSlots

\* netemLimit: how many packets a leaf may queue, its cap in kbps, or 0 for none, and its
\* delay and jitter together in ms.  A cap's queue is sized in time, 200 ms on top of what
\* the delay keeps in flight; the uplink of a port that merges keeps a deep one (shape.go:443).
PacketBits == 12000
NetemQueueMs == 200
NetemMinPackets == 10
DeepPackets == 1000
MostPackets == 200000
Unlimited == 1000000
CeilDiv(n, d) == (n + d - 1) \div d
ClampLimit(limit, floor) ==
  IF limit < floor THEN floor ELSE IF limit > MostPackets THEN MostPackets ELSE limit
InFlight(rate, delay) == 3 * (rate * delay)
Gigabit(rate) == IF rate = 0 THEN Unlimited ELSE rate
NetemLimitUp(rate, delay) ==
  ClampLimit(CeilDiv(InFlight(Gigabit(rate), delay), PacketBits), DeepPackets)
NetemLimit(rate, delay, up, pace) ==
  IF (up /\ ~pace) \/ rate = 0 THEN NetemLimitUp(rate, delay)
  ELSE ClampLimit(CeilDiv(InFlight(rate, delay) + rate * NetemQueueMs, PacketBits),
                  NetemMinPackets)

\* The kernel after a root is built on the ports in fresh (which drops what was under an
\* old one) and minor m is deleted from the port gone.
Rebuilt(fresh, gone, m) ==
  /\ root' = root \cup fresh
  /\ cls' = [d \in Devs |-> IF d \in fresh THEN {}
                            ELSE cls[d] \ (IF d = gone THEN {m} ELSE {})]
  /\ leaf' = [d \in Devs |-> IF d \in fresh THEN Bare
                             ELSE IF d = gone THEN [leaf[d] EXCEPT ![m] = NoLeaf]
                             ELSE leaf[d]]
  /\ fil' = [d \in Devs |-> IF d \in fresh THEN Unfiltered
                            ELSE IF d = gone THEN [fil[d] EXCEPT ![m] = NoAddr]
                            ELSE fil[d]]

\* ensurePort on p leaves port down usable, builds a root on the ports in fresh, and forgets
\* where the rules were on the ports in lost.
PortKept(p, down, fresh, lost) ==
  /\ p = NoPort \/ (p \in ports /\ p \in root)
  /\ down = p /\ fresh = {} /\ lost = {}
PortBuilt(p, down, fresh, lost) ==
  /\ p # NoPort /\ p \in present /\ ~(p \in ports /\ p \in root)
  /\ down = p /\ fresh = {p} /\ lost = {p} \cap ports
PortGone(p, down, fresh, lost) ==
  /\ p # NoPort /\ p \notin present /\ ~(p \in ports /\ p \in root)
  /\ down = NoPort /\ fresh = {} /\ lost = {p} \cap ports

Forgotten(lost) ==
  [k \in Keys |-> IF applied[k].port \in lost
                  THEN [applied[k] EXCEPT !.port = NoPort, !.haveDown = FALSE]
                  ELSE applied[k]]

\* The port a class is deleted from when its key is found on another.
LeftPort(prev, down) == IF prev # NoRule /\ prev.port # down THEN prev.port ELSE NoPort

MutantIgnoreAddr(prev, ask, down) ==
  /\ prev # NoRule /\ prev.port = down
  /\ prev.ask.down = ask.down /\ prev.ask.up = ask.up
  /\ prev.paced = (down \in paced)
MutantIgnorePaced(prev, ask, down) ==
  /\ prev # NoRule /\ prev.port = down
  /\ prev.ask.addr = ask.addr /\ prev.ask.down = ask.down /\ prev.ask.up = ask.up

\* Whether the record in hand says the kernel already has what is asked.
Unchanged(prev, ask, down) ==
  /\ prev # NoRule /\ prev.port = down
  /\ prev.ask.addr = ask.addr /\ prev.ask.down = ask.down /\ prev.ask.up = ask.up
  /\ prev.paced = (down \in paced)

\* The record is read before ensurePort, which may change it.
Ensure(k) ==
  LET prev == applied[k] p == want[k].port IN
  /\ pc = "next" /\ First(k)
  /\ AssignMinor(k)
  /\ \E down \in Ports \cup {NoPort}, fresh, lost \in SUBSET {p} :
       /\ \/ PortKept(p, down, fresh, lost)
          \/ PortBuilt(p, down, fresh, lost)
          \/ PortGone(p, down, fresh, lost)
       /\ Rebuilt(fresh, LeftPort(prev, down), MinorOf(k))
       /\ ports' = (ports \ lost) \cup fresh
       /\ applied' = Forgotten(lost)
       /\ IF Unchanged(prev, want[k], down)
            THEN pc' = "next" /\ todo' = todo \ {k} /\ job' = NoJob
            ELSE /\ pc' = IF down = NoPort THEN "up" ELSE "down"
                 /\ job' = [key |-> k, prev |-> prev, port |-> down, haveDown |-> FALSE]
                 /\ todo' = todo
  /\ UNCHANGED <<present, merging, gro, want, paced, history>>

Trouble == troubles < MaxTroubles /\ troubles' = troubles + 1

\* ... then the two writes.  A class command fails without a root, or when the class's
\* presence is not what the verb needs; after a failure nothing more is written there.
Exists   == job.prev # NoRule
Moved    == Exists /\ job.prev.port # job.port
Refilter == ~Exists \/ job.prev.ask.addr # want[job.key].addr

ClassAllowed(d, m, exists) == d \in root /\ (exists <=> m \in cls[d])

\* writeNetem: a clean shape deletes the leaf there was; add and change need it absent
\* and present.  have is what it returns.
LeafWritten(d, m, shape, pace, had) ==
  IF shape = Clean
    THEN leaf' = IF had THEN [leaf EXCEPT ![d][m] = NoLeaf] ELSE leaf
    ELSE leaf' = IF had <=> leaf[d][m] # NoLeaf
                   THEN [leaf EXCEPT ![d][m] = [shape |-> shape, paced |-> pace]] ELSE leaf
Have(d, m, shape, had) == shape # Clean /\ (had \/ leaf[d][m] = NoLeaf)

\* A class command fails where it is not allowed, and may fail where it is.
Refused(d, m, exists) ==
  \/ /\ ~ClassAllowed(d, m, exists)
     /\ UNCHANGED <<hurt, troubles>>
  \/ /\ ClassAllowed(d, m, exists)
     /\ Trouble /\ hurt' = hurt \cup {job.key}

\* The class, its leaf and, when refilter, its filters; or, when refused, nothing.
Write(d, m, exists, shape, pace, had, refilter) ==
  /\ ClassAllowed(d, m, exists)
  /\ cls' = [cls EXCEPT ![d] = @ \cup {m}]
  /\ LeafWritten(d, m, shape, pace, had)
  /\ fil' = IF refilter THEN [fil EXCEPT ![d][m] = want[job.key].addr] ELSE fil

WriteDown ==
  LET d == job.port m == minors[job.key] shape == want[job.key].down
      exists == Exists /\ ~Moved
      had == exists /\ job.prev.haveDown IN
  /\ pc = "down" /\ pc' = "up"
  /\ \/ /\ Write(d, m, exists, shape, FALSE, had, Refilter \/ Moved)
        /\ job' = [job EXCEPT !.haveDown = Have(d, m, shape, had)]
        /\ UNCHANGED <<hurt, troubles>>
     \/ /\ Refused(d, m, exists)
        /\ UNCHANGED <<cls, leaf, fil, job>>
  /\ UNCHANGED <<present, root, merging, shaper, want, paced, todo, calm, theirs, killed>>

\* The record is written whatever failed.
WriteUp ==
  LET k == job.key m == minors[k] shape == want[k].up
      pace == job.port \in paced
      had == job.prev.haveUp
      rule(have) == [ask |-> want[k], port |-> job.port, haveDown |-> job.haveDown,
                     haveUp |-> have, paced |-> pace] IN
  /\ pc = "up" /\ pc' = "next"
  /\ \/ /\ Write(Wan, m, Exists, shape, pace, had, Refilter)
        /\ applied' = [applied EXCEPT ![k] = rule(Have(Wan, m, shape, had))]
        /\ UNCHANGED <<hurt, troubles>>
     \/ /\ Refused(Wan, m, Exists)
        /\ applied' = [applied EXCEPT ![k] = rule(FALSE)]
        /\ UNCHANGED <<cls, leaf, fil>>
  /\ todo' = todo \ {k} /\ job' = NoJob
  /\ UNCHANGED <<present, root, merging, ports, minors, nextMin, gro, want, paced,
                 calm, theirs, killed>>

\* Last, what is no longer wanted goes.
Departed == {k \in Keys : applied[k] # NoRule /\ want[k] = Unwanted}

MutantUplinkOnly(k) == {Wan}
PortsOf(k) == {applied[k].port, Wan} \cap Devs

Depart(k) ==
  LET m == minors[k] gone == PortsOf(k) IN
  /\ pc = "next" /\ todo = {} /\ k \in Departed
  /\ cls' = [d \in Devs |-> cls[d] \ (IF d \in gone THEN {m} ELSE {})]
  /\ leaf' = [d \in Devs |-> IF d \in gone THEN [leaf[d] EXCEPT ![m] = NoLeaf] ELSE leaf[d]]
  /\ fil' = [d \in Devs |-> IF d \in gone THEN [fil[d] EXCEPT ![m] = NoAddr] ELSE fil[d]]
  /\ applied' = [applied EXCEPT ![k] = NoRule]
  /\ minors' = [minors EXCEPT ![k] = NoMinor] /\ hurt' = hurt \ {k}
  /\ UNCHANGED <<present, root, merging, ports, nextMin, gro, tick, calm, theirs, killed,
                 troubles>>

EndTick ==
  /\ pc = "next" /\ todo = {} /\ Departed = {} /\ pc' = "idle"
  /\ UNCHANGED <<kernel, shaper, want, paced, todo, job, history>>

----------------------------------------------------------------------------
\* What happens around it.

Unplug(d) ==
  /\ d \in Pluggable \cap present /\ pc # "stopped"
  /\ Trouble
  /\ present' = present \ {d} /\ root' = root \ {d}
  /\ cls' = [cls EXCEPT ![d] = {}] /\ leaf' = [leaf EXCEPT ![d] = Bare]
  /\ fil' = [fil EXCEPT ![d] = Unfiltered]
  /\ merging' = merging \ {d} /\ theirs' = theirs \ {d}
  /\ gro' = [gro EXCEPT ![d] = IF @ = "held" THEN "stale" ELSE @]
  /\ calm' = 0
  /\ UNCHANGED <<ports, minors, nextMin, applied, tick, hurt, killed>>

\* Unless Unnoticed, it comes back between ticks and no rule still claims to be on it.
Plug(d) ==
  /\ d \in Pluggable \ present /\ pc # "stopped"
  /\ Unnoticed \/ (pc = "idle" /\ \A k \in Keys : applied[k].port # d)
  /\ present' = present \cup {d} /\ merging' = merging \cup {d} /\ calm' = 0
  /\ UNCHANGED <<root, cls, leaf, fil, shaper, tick, theirs, hurt, killed, troubles>>

\* The process is killed and started again: NewShaper and Setup over the kernel it left.
Crash ==
  /\ pc # "stopped" /\ Trouble /\ killed' = TRUE /\ hurt' = {}
  /\ root' = root \cup {Wan} /\ cls' = [cls EXCEPT ![Wan] = {}]
  /\ leaf' = [leaf EXCEPT ![Wan] = Bare] /\ fil' = [fil EXCEPT ![Wan] = Unfiltered]
  /\ ports' = {Wan} /\ gro' = [d \in Devs |-> "none"]
  /\ minors' = [k \in Keys |-> NoMinor] /\ nextMin' = FirstMinor
  /\ applied' = [k \in Keys |-> NoRule]
  /\ pc' = "idle" /\ want' = [k \in Keys |-> Unwanted]
  /\ paced' = {} /\ todo' = {} /\ job' = NoJob
  /\ calm' = 0 /\ theirs' = present \ merging
  /\ UNCHANGED <<present, merging>>

TornDown == ports

\* A stop takes the Shaper's lock, so it never interrupts an Apply.
Teardown ==
  /\ pc = "idle" /\ pc' = "stopped"
  /\ root' = root \ TornDown
  /\ cls' = [d \in Devs |-> IF d \in TornDown THEN {} ELSE cls[d]]
  /\ leaf' = [d \in Devs |-> IF d \in TornDown THEN Bare ELSE leaf[d]]
  /\ fil' = [d \in Devs |-> IF d \in TornDown THEN Unfiltered ELSE fil[d]]
  /\ ports' = {} /\ gro' = [d \in Devs |-> "none"]
  /\ merging' = merging \cup {d \in present : gro[d] = "held"}
  /\ UNCHANGED <<present, minors, nextMin, applied, want, paced, todo, job, history>>

Next ==
  \/ BeginTick \/ WriteDown \/ WriteUp \/ EndTick \/ Crash \/ Teardown
  \/ \E k \in Keys : Ensure(k) \/ Depart(k)
  \/ \E d \in Pluggable : Unplug(d) \/ Plug(d)

Spec == Init /\ [][Next]_vars

----------------------------------------------------------------------------
Settled == pc = "idle" /\ calm = Patience

\* The port a wanted key's downlink can live on.
PortFor(k) == IF want[k].port \in present THEN want[k].port ELSE NoPort

\* Class m on d has this shape, and takes this address's traffic.
Carries(d, m, shape, addr) ==
  m \in cls[d] /\ leaf[d][m].shape = shape /\ fil[d][m] = addr

\* When a tick ends and nothing has disturbed it, the kernel has what was wanted in that
\* tick and nothing else, on every port the daemon works on: Apply's promise (shape.go:776),
\* though it writes only what its record says has changed.
Reconciled ==
  Settled =>
    /\ \A k \in Wanted(want) \ hurt :
         /\ Carries(Wan, minors[k], want[k].up, want[k].addr)
         /\ PortFor(k) # NoPort =>
              Carries(PortFor(k), minors[k], want[k].down, want[k].addr)
    /\ \A d \in ports : \A m \in Minors :
         (m \in cls[d] \/ leaf[d][m] # NoLeaf \/ fil[d][m] # NoAddr) =>
           \E k \in Wanted(want) : minors[k] = m /\ d \in {PortFor(k), Wan}

\* At every moment, a class on a port the daemon works on belongs to a key whose record, or
\* whose visit in progress, says it is there, so some later delete will name it: delOn is
\* only ever told of the port in the record, and a class nobody recorded shapes its
\* client's traffic for as long as the daemon runs.
ClassHasRecord ==
  \A d \in ports : \A m \in cls[d] :
    \E k \in Keys :
      /\ minors[k] = m
      /\ \/ applied[k] # NoRule /\ d \in {applied[k].port, Wan}
         \/ pc \in {"down", "up"} /\ job.key = k /\ d \in {job.port, Wan}

\* Two keys never share a minor: class ids, leaf handles and filter priorities all come
\* from it, so two that did would shape each other's traffic (shape.go:501-502, 810-815).
MinorsDistinct ==
  \A j, k \in Keys : minors[j] = minors[k] /\ minors[j] # NoMinor => j = k

\* Apply never deletes or recreates the class of a key that is still wanted on that port:
\* the byte counters the throughput graphs integrate would restart (shape.go:86-89).
CountersKept ==
  [][\A d \in ports : \A k \in Keys :
       /\ minors[k] \in cls[d] /\ minors[k] \notin cls'[d]
       /\ pc # "idle" /\ minors'[k] = minors[k] /\ present' = present
       => want[k] = Unwanted \/ d \notin {want[k].port, Wan}]_vars

\* When a tick ends undisturbed, an uplink queue sized in time drains a port that does not
\* merge, and a low cap gets one wherever the driver lets GRO go (shape.go:431-438): the
\* queue is on the WAN port, what it must match is on the client's, and either may change.
QueueFitsPort ==
  Settled =>
    \A k \in Wanted(want) \ hurt : want[k].up # Clean =>
      /\ leaf[Wan][minors[k]].paced => PortFor(k) \in present \ merging
      /\ want[k].up \in LowCaps /\ PortFor(k) # NoPort /\ PortFor(k) \notin Stubborn =>
           leaf[Wan][minors[k]].paced

\* GRO that this run of the daemon turned off is on again once no low cap needs it, and
\* after a stop (gro.go:36-41).  What a killed daemon had turned off counts as somebody
\* else's, as the code counts it.
GroGivenBack ==
  /\ Settled => present \ merging \subseteq GroPorts(want) \cup theirs
  /\ pc = "stopped" => present \ merging \subseteq theirs

\* GRO that somebody else turned off is never turned on: only what boa turned off is boa's
\* to turn back on (gro.go:102-107).
OthersGroKept ==
  [][\A d \in theirs \cap theirs' : d \in merging' => d \in merging]_vars

\* A daemon that stops, and was never killed before, leaves no queueing behind
\* (main.go:156-158).
StopsConditioning == pc = "stopped" /\ ~killed => root = {}
=============================================================================
