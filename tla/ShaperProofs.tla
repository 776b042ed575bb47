---------------------------- MODULE ShaperProofs ----------------------------
(***************************************************************************)
(* Proofs about Shaper, for every number of clients and ports and every    *)
(* alphabet of wanted shapes: its types, that minors stay distinct, that   *)
(* no class is lost sight of, and that filter priorities keep their order. *)
(***************************************************************************)
EXTENDS Shaper, FiniteSetTheorems, TLAPS

(***************************************************************************)
(* Filter priorities (prefBase).                                           *)
(***************************************************************************)

\* For the first 2416 minors a sub-class's filters, all of its block, come before every
\* device default's, so the default cannot claim what the sub-class is for (shape.go:108-110).
THEOREM SubClassesFirst ==
  ASSUME NEW m \in Nat, NEW n \in Nat, FirstMinor <= m, m < FirstMinor + 2416,
         FirstMinor <= n
  PROVE  PrefBase(m, TRUE) + PrefSlots <= PrefBase(n, FALSE)
BY BoundsAssumption DEF PrefBase, PrefSlots, PrefSubBase, PrefDefaultBase

\* Among them, two classes' blocks do not overlap, so rewriting or deleting one class's
\* filters by priority leaves the others' alone (writeFilters, delOn).
THEOREM BlocksDisjoint ==
  ASSUME NEW m \in Nat, NEW n \in Nat, NEW s \in BOOLEAN, NEW t \in BOOLEAN,
         FirstMinor <= m, m < FirstMinor + 2416, FirstMinor <= n, n < FirstMinor + 2416,
         m # n
  PROVE  \/ PrefBase(m, s) + PrefSlots <= PrefBase(n, t)
         \/ PrefBase(n, t) + PrefSlots <= PrefBase(m, s)
BY BoundsAssumption DEF PrefBase, PrefSlots, PrefSubBase, PrefDefaultBase

(***************************************************************************)
(* How many packets a queue holds (netemLimit).                            *)
(***************************************************************************)

\* A whole number of packets holds that many bits, and one fewer does not.
LEMMA CeilDivTight ==
  ASSUME NEW n \in Nat, NEW c, c = CeilDiv(n, PacketBits)
  PROVE  c \in Nat /\ n <= c * PacketBits /\ (n > 0 => (c - 1) * PacketBits < n)
BY DEF CeilDiv, PacketBits

LEMMA Clamped ==
  ASSUME NEW limit \in Nat, NEW floor \in {NetemMinPackets, DeepPackets},
         NEW q, q = ClampLimit(limit, floor)
  PROVE  /\ q \in Nat /\ NetemMinPackets <= q /\ q <= MostPackets
         /\ q < MostPackets => limit <= q
         /\ q <= limit \/ q = floor
BY DEF ClampLimit, NetemMinPackets, DeepPackets, MostPackets

\* More packets hold more bits.
LEMMA Holds ==
  ASSUME NEW c \in Nat, NEW q \in Nat, NEW n \in Nat, NEW held \in Nat,
         held <= n, n <= c * PacketBits, c <= q
  PROVE  held <= q * PacketBits
BY DEF PacketBits

LEMMA Fits ==
  ASSUME NEW c \in Nat, NEW q \in Nat, NEW n \in Nat, (c - 1) * PacketBits < n, q <= c
  PROVE  (q - 1) * PacketBits < n
BY DEF PacketBits

LEMMA InFlightType ==
  ASSUME NEW rate \in Nat, NEW delay \in Nat
  PROVE  InFlight(rate, delay) \in Nat /\ rate * NetemQueueMs \in Nat
BY DEF InFlight, NetemQueueMs

\* The number of packets before it is clamped, and what it is clamped to.
LEMMA LimitIs ==
  ASSUME NEW rate \in Nat, NEW delay \in Nat, NEW up \in BOOLEAN, NEW pace \in BOOLEAN
  PROVE  \E n \in Nat, floor \in {NetemMinPackets, DeepPackets} :
           /\ NetemLimit(rate, delay, up, pace) = ClampLimit(CeilDiv(n, PacketBits), floor)
           /\ InFlight(Gigabit(rate), delay) <= n
<1>1. CASE (up /\ ~pace) \/ rate = 0
  <2>1. Gigabit(rate) \in Nat
    BY DEF Gigabit, Unlimited
  <2>2. InFlight(Gigabit(rate), delay) \in Nat
    BY <2>1, InFlightType
  <2>3. NetemLimit(rate, delay, up, pace)
          = ClampLimit(CeilDiv(InFlight(Gigabit(rate), delay), PacketBits), DeepPackets)
    BY <1>1 DEF NetemLimit, NetemLimitUp
  <2>4. InFlight(Gigabit(rate), delay) <= InFlight(Gigabit(rate), delay)
    BY <2>2
  <2> QED BY <2>2, <2>3, <2>4
<1>2. CASE ~((up /\ ~pace) \/ rate = 0)
  <2> DEFINE n == InFlight(rate, delay) + rate * NetemQueueMs
  <2>1. n \in Nat /\ InFlight(rate, delay) <= n
    <3> HIDE DEF n
    <3>1. InFlight(rate, delay) \in Nat /\ rate * NetemQueueMs \in Nat
      BY InFlightType
    <3>2. n = InFlight(rate, delay) + rate * NetemQueueMs
      BY DEF n
    <3> QED BY <3>1, <3>2
  <2>2. Gigabit(rate) = rate
    BY <1>2 DEF Gigabit
  <2>3. NetemLimit(rate, delay, up, pace) = ClampLimit(CeilDiv(n, PacketBits), NetemMinPackets)
    BY <1>2 DEF NetemLimit
  <2> HIDE DEF n
  <2> QED BY <2>1, <2>2, <2>3
<1> QED BY <1>1, <1>2

\* A queue that is not at its ceiling holds three times what the delay keeps in flight, so a
\* delayed link loses nothing to its own queue: netem's thousand packets would discard half
\* of a fast one (shape.go:417-421).
THEOREM QueueHoldsTheDelay ==
  ASSUME NEW rate \in Nat, NEW delay \in Nat, NEW up \in BOOLEAN, NEW pace \in BOOLEAN
  PROVE  LET q == NetemLimit(rate, delay, up, pace) IN
         /\ NetemMinPackets <= q /\ q <= MostPackets
         /\ q < MostPackets => InFlight(Gigabit(rate), delay) <= q * PacketBits
<1>1. PICK n \in Nat, floor \in {NetemMinPackets, DeepPackets} :
        /\ NetemLimit(rate, delay, up, pace) = ClampLimit(CeilDiv(n, PacketBits), floor)
        /\ InFlight(Gigabit(rate), delay) <= n
  BY LimitIs
<1>2. /\ CeilDiv(n, PacketBits) \in Nat /\ n <= CeilDiv(n, PacketBits) * PacketBits
  BY CeilDivTight
<1>3. Gigabit(rate) \in Nat
  BY DEF Gigabit, Unlimited
<1>4. InFlight(Gigabit(rate), delay) \in Nat
  BY <1>3, InFlightType
<1> DEFINE c == CeilDiv(n, PacketBits)
           q == NetemLimit(rate, delay, up, pace)
           held == InFlight(Gigabit(rate), delay)
<1>5. /\ q \in Nat /\ NetemMinPackets <= q /\ q <= MostPackets
      /\ q < MostPackets => c <= q
  BY <1>1, <1>2, Clamped
<1>6. c \in Nat /\ n <= c * PacketBits /\ held <= n /\ held \in Nat
  BY <1>1, <1>2, <1>4
<1> HIDE DEF c, q, held
<1>7. q < MostPackets => held <= q * PacketBits
  BY <1>5, <1>6, Holds
<1> QED BY <1>5, <1>7 DEF q, held

\* A queue sized in time is ten packets, or adds less than a packet to 200 ms at its cap on
\* top of the delay's share: the latency and the lag of a raised cap that a queue counted in
\* packets had no bound on (shape.go:423-436).
THEOREM QueueAddsNoMore ==
  ASSUME NEW rate \in Nat \ {0}, NEW delay \in Nat, NEW up \in BOOLEAN, NEW pace \in BOOLEAN,
         up => pace
  PROVE  LET q == NetemLimit(rate, delay, up, pace) IN
         \/ q = NetemMinPackets
         \/ (q - 1) * PacketBits < InFlight(rate, delay) + rate * NetemQueueMs
<1> DEFINE n == InFlight(rate, delay) + rate * NetemQueueMs
           c == CeilDiv(n, PacketBits)
           q == NetemLimit(rate, delay, up, pace)
<1>1. rate \in Nat /\ rate * NetemQueueMs \in Nat \ {0} /\ InFlight(rate, delay) \in Nat
  BY InFlightType DEF NetemQueueMs
<1>2. q = ClampLimit(c, NetemMinPackets)
  BY DEF NetemLimit
<1>3. n \in Nat /\ n > 0
  <2> DEFINE a == InFlight(rate, delay)
             b == rate * NetemQueueMs
  <2>1. a \in Nat /\ b \in Nat \ {0}
    BY <1>1
  <2>2. n = a + b
    OBVIOUS
  <2> HIDE DEF a, b, n
  <2> QED BY <2>1, <2>2
<1> HIDE DEF n
<1>4. c \in Nat /\ (c - 1) * PacketBits < n
  BY <1>3, CeilDivTight
<1> HIDE DEF c, q
<1>5. q \in Nat /\ (q <= c \/ q = NetemMinPackets)
  BY <1>2, <1>4, Clamped
<1>6. q = NetemMinPackets \/ (q - 1) * PacketBits < n
  BY <1>3, <1>4, <1>5, Fits
<1> QED BY <1>6 DEF q, n

(***************************************************************************)
(* The inductive invariant.                                                *)
(***************************************************************************)

\* The minors still to be assigned in this tick fit under the bound.
Room == nextMin + Cardinality({k \in todo : minors[k] = NoMinor}) <= MaxMinor + 1

\* Minors in use are below the next one, and a key with a record has one.
Numbered ==
  /\ \A k \in Keys : minors[k] < nextMin
  /\ \A k \in Keys : applied[k] # NoRule => minors[k] # NoMinor

\* The key in hand is wanted, has its minor, and has left every port but the one it goes to.
InHand ==
  /\ todo \subseteq Wanted(want)
  /\ pc \in {"down", "up"} =>
       /\ job.key \in todo /\ minors[job.key] # NoMinor
       /\ \A d \in Ports \cap ports : minors[job.key] \in cls[d] => d = job.port

Rooted ==
  /\ \A d \in Devs \ root : cls[d] = {}
  /\ root \subseteq present /\ Wan \in present

IInv == TypeOK /\ Room /\ Numbered /\ InHand /\ Rooted /\ MinorsDistinct /\ ClassHasRecord

LEMMA NoRuleApart == NoRule \notin Rules
BY AsksAssumption DEF NoRule, Rules

LEMMA MinorsTyped ==
  /\ Minors \subseteq Nat /\ NoMinor \in Nat /\ NoMinor \notin Minors
  /\ \A m \in Minors : FirstMinor <= m /\ m <= MaxMinor /\ NoMinor < m
BY BoundsAssumption DEF Minors, NoMinor

LEMMA RulesHavePorts ==
  ASSUME TypeOK
  PROVE  \A k \in Keys : applied[k].port \in Ports \cup {NoPort}
BY DEF TypeOK, ShaperOK, Rules, NoRule

(***************************************************************************)
(* Initially.                                                              *)
(***************************************************************************)
LEMMA InitInv == Init => IInv
<1> SUFFICES ASSUME Init PROVE IInv
  OBVIOUS
<1> USE DEF Init
<1>1. TypeOK
  <2>1. Bare \in [Minors -> Leaf]
    BY ShapesAssumption DEF Bare, Leaf, NoLeaf
  <2>2. KernelOK
    BY <2>1, ElsewhereAssumption DEF KernelOK, Devs, Unfiltered
  <2>3. ShaperOK
    BY BoundsAssumption DEF ShaperOK, Devs
  <2>4. TickOK
    BY DEF TickOK
  <2>5. calm \in 0 .. Patience /\ troubles \in Nat
    BY BoundsAssumption
  <2>6. theirs \in SUBSET Devs /\ hurt \in SUBSET Keys /\ killed \in BOOLEAN
    BY ElsewhereAssumption DEF Devs
  <2> QED BY <2>2, <2>3, <2>4, <2>5, <2>6 DEF TypeOK
<1>2. Room
  <2>1. {k \in todo : minors[k] = NoMinor} = {}
    OBVIOUS
  <2> QED BY <2>1, FS_EmptySet, BoundsAssumption DEF Room
<1>3. Numbered
  BY BoundsAssumption DEF Numbered, NoMinor
<1>4. InHand /\ Rooted
  BY DEF InHand, Rooted, Devs
<1>5. MinorsDistinct /\ ClassHasRecord
  BY DEF MinorsDistinct, ClassHasRecord, Devs
<1> QED BY <1>1, <1>2, <1>3, <1>4, <1>5 DEF IInv

(***************************************************************************)
(* Every step keeps it.  First the start of a tick and the visit of a key. *)
(***************************************************************************)
LEMMA BeginTickInv == IInv /\ BeginTick => IInv'
<1> SUFFICES ASSUME IInv, BeginTick PROVE IInv'
  OBVIOUS
<1> USE DEF IInv
<1>0. PICK w \in [Keys -> Asks \cup {Unwanted}] :
        MinorsSuffice(w) /\ want' = w /\ todo' = Wanted(w) /\ SyncGro(GroPorts(w))
  BY DEF BeginTick
<1>1. TypeOK'
  <2>1. KernelOK'
    <3>1. GroReturned(GroPorts(w)) \subseteq Devs
      BY DEF TypeOK, KernelOK, GroReturned
    <3> QED BY <1>0, <3>1 DEF BeginTick, SyncGro, TypeOK, KernelOK
  <2>2. ShaperOK'
    <3>1. gro' \in [Devs -> {"none", "held", "stale"}]
      BY <1>0 DEF SyncGro, TypeOK, ShaperOK
    <3> QED BY <3>1 DEF BeginTick, TypeOK, ShaperOK
  <2>3. TickOK'
    <3>1. paced' \in SUBSET Devs
      BY <1>0 DEF SyncGro, GroOff, TypeOK, KernelOK
    <3> QED BY <1>0, <3>1 DEF BeginTick, Wanted, TickOK
  <2>4. calm' \in 0 .. Patience
    BY BoundsAssumption DEF BeginTick, TypeOK
  <2> QED BY <2>1, <2>2, <2>3, <2>4 DEF BeginTick, TypeOK
<1>2. Room'
  BY <1>0 DEF BeginTick, Room, MinorsSuffice
<1>3. Numbered' /\ Rooted' /\ MinorsDistinct'
  BY DEF BeginTick, Numbered, Rooted, MinorsDistinct
<1>4. InHand' /\ ClassHasRecord'
  BY <1>0 DEF BeginTick, InHand, ClassHasRecord
<1> QED BY <1>1, <1>2, <1>3, <1>4

\* The minor a visit uses: a fresh one is below the bound and nobody's.
LEMMA MinorChosen ==
  ASSUME NEW k \in Keys, IInv, k \in todo, AssignMinor(k)
  PROVE  /\ MinorOf(k) \in Minors /\ minors' = [minors EXCEPT ![k] = MinorOf(k)]
         /\ MinorOf(k) # NoMinor /\ MinorOf(k) < nextMin' /\ nextMin <= nextMin'
         /\ nextMin' \in FirstMinor .. (MaxMinor + 1)
         /\ \A j \in Keys \ {k} : minors[j] # MinorOf(k)
         /\ minors[k] # NoMinor => MinorOf(k) = minors[k]
         /\ \A T \in {todo, todo \ {k}} :
              nextMin' + Cardinality({j \in T : minors'[j] = NoMinor}) <= MaxMinor + 1
<1> DEFINE S == {j \in todo : minors[j] = NoMinor}
<1> USE DEF IInv
<1>1. IsFiniteSet(S)
  BY KeysAssumption, FS_Subset DEF TypeOK, TickOK
<1>2. Cardinality(S) \in Nat
  BY <1>1, FS_CardinalityType
<1>3. nextMin \in Nat /\ FirstMinor <= nextMin /\ nextMin + Cardinality(S) <= MaxMinor + 1
  BY BoundsAssumption DEF TypeOK, ShaperOK, Room
<1>4. minors \in [Keys -> Minors \cup {NoMinor}]
  BY DEF TypeOK, ShaperOK
<1>5. CASE minors[k] # NoMinor
  <2>1. MinorOf(k) = minors[k] /\ nextMin' = nextMin /\ minors' = minors
    BY <1>4, <1>5 DEF AssignMinor, MinorOf
  <2>2. \A T \in {todo, todo \ {k}} : {j \in T : minors'[j] = NoMinor} = S
    BY <1>5, <2>1
  <2>3. minors[k] \in Minors /\ minors[k] < nextMin
    BY <1>4, <1>5 DEF Numbered
  <2>4. \A j \in Keys \ {k} : minors[j] # minors[k]
    BY <1>5 DEF MinorsDistinct
  <2>5. nextMin' \in FirstMinor .. (MaxMinor + 1) /\ nextMin <= nextMin'
    BY <1>3, <2>1 DEF TypeOK, ShaperOK
  <2> QED BY <1>3, <1>4, <1>5, <2>1, <2>2, <2>3, <2>4, <2>5
<1>6. CASE minors[k] = NoMinor
  <2>1. MinorOf(k) = nextMin /\ nextMin' = nextMin + 1
    BY <1>6 DEF AssignMinor, MinorOf
  <2>2. k \in S
    BY <1>6
  <2>3. Cardinality(S \ {k}) = Cardinality(S) - 1
    BY <1>1, <2>2, FS_RemoveElement
  <2>4. Cardinality(S) # 0
    BY <1>1, <2>2, FS_EmptySet
  <2>5. nextMin <= MaxMinor
    BY <1>2, <1>3, <2>4, BoundsAssumption
  <2>6. nextMin \in Minors /\ nextMin # NoMinor
    BY <1>3, <2>5, BoundsAssumption DEF Minors, NoMinor
  <2>7. nextMin' \in FirstMinor .. (MaxMinor + 1) /\ nextMin < nextMin' /\ nextMin <= nextMin'
    BY <1>3, <2>1, <2>5, BoundsAssumption
  <2>8. \A j \in Keys : minors[j] # nextMin
    BY <1>3, <1>4, MinorsTyped DEF Numbered
  <2>9. \A T \in {todo, todo \ {k}} : {j \in T : minors'[j] = NoMinor} = S \ {k}
    <3>1. minors' = [minors EXCEPT ![k] = nextMin]
      BY <2>1 DEF AssignMinor
    <3>2. todo \subseteq Keys
      BY DEF TypeOK, TickOK
    <3> QED BY <1>4, <2>6, <3>1, <3>2
  <2>10. nextMin' + Cardinality(S \ {k}) <= MaxMinor + 1
    BY <1>2, <1>3, <2>1, <2>3, BoundsAssumption
  <2> QED BY <1>6, <2>1, <2>6, <2>7, <2>8, <2>9, <2>10 DEF AssignMinor
<1> QED BY <1>5, <1>6
LEMMA EnsureInv == ASSUME NEW k \in Keys, IInv, Ensure(k) PROVE IInv'
<1> DEFINE prev == applied[k]
           p == want[k].port
           m == MinorOf(k)
<1> USE DEF IInv
<1>0. PICK down \in Ports \cup {NoPort}, fresh \in SUBSET {p}, lost \in SUBSET {p} :
        /\ \/ PortKept(p, down, fresh, lost)
           \/ PortBuilt(p, down, fresh, lost)
           \/ PortGone(p, down, fresh, lost)
        /\ Rebuilt(fresh, LeftPort(prev, down), m)
        /\ ports' = (ports \ lost) \cup fresh
        /\ applied' = Forgotten(lost)
        /\ IF Unchanged(prev, want[k], down)
             THEN pc' = "next" /\ todo' = todo \ {k} /\ job' = NoJob
             ELSE /\ pc' = IF down = NoPort THEN "up" ELSE "down"
                  /\ job' = [key |-> k, prev |-> prev, port |-> down, haveDown |-> FALSE]
                  /\ todo' = todo
  BY DEF Ensure
<1>1. /\ pc = "next" /\ k \in todo /\ AssignMinor(k)
      /\ UNCHANGED <<present, merging, gro, want, paced, history>>
  BY DEF Ensure, First
<1>2. /\ m \in Minors /\ minors' = [minors EXCEPT ![k] = m]
      /\ m # NoMinor /\ m < nextMin' /\ nextMin <= nextMin'
      /\ nextMin' \in FirstMinor .. (MaxMinor + 1)
      /\ \A j \in Keys \ {k} : minors[j] # m
      /\ minors[k] # NoMinor => m = minors[k]
      /\ \A T \in {todo, todo \ {k}} :
           nextMin' + Cardinality({j \in T : minors'[j] = NoMinor}) <= MaxMinor + 1
  BY <1>1, MinorChosen
<1>3. /\ want[k] \in Asks /\ p \in Ports \cup {NoPort}
      /\ prev \in Rules \cup {NoRule} /\ \A j \in Keys : applied[j].port \in Ports \cup {NoPort}
  BY <1>1, AsksAssumption, RulesHavePorts DEF TypeOK, TickOK, ShaperOK, InHand, Wanted
<1>4. \* What ensurePort did to the kernel was done where there was nothing to lose.
      /\ fresh \subseteq Ports \cap present /\ lost \subseteq Ports \cap ports
      /\ lost \cap root = {} /\ \A d \in lost : cls[d] = {}
      /\ \A d \in fresh \cap ports : cls[d] = {}
      /\ down \in Ports => down \in root \cup fresh
  BY <1>0, <1>3, DevsAssumption DEF PortKept, PortBuilt, PortGone, Rooted, TypeOK, KernelOK, Devs
<1>5. TypeOK'
  <2>1. KernelOK'
    <3>1. Bare \in [Minors -> Leaf] /\ NoLeaf \in Leaf
      BY ShapesAssumption DEF Bare, Leaf, NoLeaf
    <3>2. root' \in SUBSET Devs /\ cls' \in [Devs -> SUBSET Minors]
      BY <1>0, <1>4 DEF Rebuilt, TypeOK, KernelOK, Devs
    <3>3. leaf' \in [Devs -> [Minors -> Leaf]]
      BY <1>0, <1>2, <3>1 DEF Rebuilt, TypeOK, KernelOK
    <3>4. fil' \in [Devs -> [Minors -> Addrs \cup {NoAddr}]]
      BY <1>0, <1>2 DEF Rebuilt, TypeOK, KernelOK, Unfiltered
    <3> QED BY <1>1, <3>2, <3>3, <3>4 DEF TypeOK, KernelOK
  <2>2. ShaperOK'
    <3>1. applied' \in [Keys -> Rules \cup {NoRule}]
      <4>1. \A j \in Keys : applied[j].port \in lost => applied[j] \in Rules
        BY <1>4, DevsAssumption DEF TypeOK, ShaperOK, NoRule, Devs
      <4>2. \A r \in Rules : [r EXCEPT !.port = NoPort, !.haveDown = FALSE] \in Rules
        BY DEF Rules
      <4> QED BY <1>0, <4>1, <4>2 DEF Forgotten, TypeOK, ShaperOK
    <3>2. ports' \in SUBSET Devs
      BY <1>0, <1>4 DEF TypeOK, ShaperOK, Devs
    <3> QED BY <1>1, <1>2, <3>1, <3>2 DEF TypeOK, ShaperOK
  <2>3. TickOK'
    <3>1. [key |-> k, prev |-> prev, port |-> down, haveDown |-> FALSE] \in Jobs
      BY <1>3 DEF Jobs
    <3> QED BY <1>0, <1>1, <3>1 DEF TypeOK, TickOK
  <2> QED BY <1>1, <2>1, <2>2, <2>3 DEF TypeOK, history
<1>6. Room'
  BY <1>0, <1>2 DEF Room
<1>7. Numbered'
  <2>1. minors \in [Keys -> Minors \cup {NoMinor}] /\ nextMin \in Nat /\ nextMin' \in Nat
    BY <1>2, BoundsAssumption DEF TypeOK, ShaperOK
  <2>2. \A j \in Keys : minors'[j] < nextMin'
    <3>1. \A j \in Keys : minors[j] \in Nat /\ minors[j] < nextMin
      BY <2>1, MinorsTyped DEF Numbered
    <3>2. \A j \in Keys : minors'[j] = IF j = k THEN m ELSE minors[j]
      BY <1>2, <2>1
    <3>3. nextMin \in Nat /\ nextMin <= nextMin' /\ m < nextMin'
      BY <1>2, <2>1
    <3> QED BY <2>1, <3>1, <3>2, <3>3
  <2>3. \A j \in Keys : applied'[j] # NoRule => applied[j] # NoRule
    <3>1. NoRule.port \notin lost
      BY <1>4, DevsAssumption DEF NoRule
    <3>2. \A j \in Keys : applied'[j] = IF applied[j].port \in lost
             THEN [applied[j] EXCEPT !.port = NoPort, !.haveDown = FALSE] ELSE applied[j]
      BY <1>0 DEF Forgotten
    <3> QED BY <3>1, <3>2
  <2>4. \A j \in Keys : applied[j] # NoRule => minors'[j] # NoMinor
    BY <1>2, <2>1 DEF Numbered
  <2> QED BY <2>2, <2>3, <2>4 DEF Numbered
<1>8. MinorsDistinct'
  BY <1>2 DEF MinorsDistinct, TypeOK, ShaperOK
<1>9. Rooted'
  BY <1>0, <1>1, <1>4 DEF Rooted, Rebuilt, TypeOK, KernelOK, Devs
<1>10. InHand'
  <2>1. todo' \subseteq Wanted(want)'
    BY <1>0, <1>1 DEF InHand, Wanted
  <2>2. SUFFICES ASSUME pc' \in {"down", "up"}
                 PROVE  /\ job'.key \in todo' /\ minors'[job'.key] # NoMinor
                        /\ \A d \in Ports \cap ports' :
                             minors'[job'.key] \in cls'[d] => d = job'.port
    BY <2>1 DEF InHand
  <2>3. job'.key = k /\ job'.port = down /\ todo' = todo
    BY <1>0, <2>2
  <2>4. minors'[k] = m
    BY <1>2 DEF TypeOK, ShaperOK
  <2>5. ASSUME NEW d \in Ports \cap ports', m \in cls'[d], d # down PROVE FALSE
    <3>1. d \in ports /\ m \in cls[d] /\ d # LeftPort(prev, down)
      BY <1>0, <2>5 DEF Rebuilt, TypeOK, KernelOK, Devs
    <3>2. minors[k] = m /\ prev # NoRule /\ d \in {prev.port, Wan}
      BY <1>1, <1>2, <3>1 DEF ClassHasRecord
    <3> QED BY <2>5, <3>1, <3>2, DevsAssumption DEF LeftPort
  <2> QED BY <1>1, <1>2, <2>3, <2>4, <2>5
<1>11. ClassHasRecord'
  <2> SUFFICES ASSUME NEW d \in ports', NEW n \in cls'[d]
               PROVE  \E j \in Keys :
                        /\ minors'[j] = n
                        /\ \/ applied'[j] # NoRule /\ d \in {applied'[j].port, Wan}
                           \/ pc' \in {"down", "up"} /\ job'.key = j /\ d \in {job'.port, Wan}
    BY DEF ClassHasRecord
  <2>1. d \notin fresh /\ d \in ports /\ d \notin lost /\ n \in cls[d] /\ d \in Devs
    BY <1>0, <1>4 DEF Rebuilt, TypeOK, ShaperOK, KernelOK
  <2>2. PICK j \in Keys : minors[j] = n /\ applied[j] # NoRule /\ d \in {applied[j].port, Wan}
    BY <1>1, <2>1 DEF ClassHasRecord
  <2>3. minors'[j] = n
    BY <1>2, <2>1, <2>2, MinorsTyped DEF TypeOK, ShaperOK, KernelOK
  <2>4. CASE applied[j].port \notin lost
    BY <1>0, <2>2, <2>3, <2>4 DEF Forgotten
  <2>5. CASE applied[j].port \in lost
    <3>1. d = Wan /\ applied[j] \in Rules
      BY <1>4, <2>1, <2>2, <2>5 DEF TypeOK, ShaperOK
    <3>2. applied'[j] = [applied[j] EXCEPT !.port = NoPort, !.haveDown = FALSE]
      BY <1>0, <2>5 DEF Forgotten
    <3>3. applied'[j].ask \in Asks
      BY <3>1, <3>2 DEF Rules
    <3>4. applied'[j] # NoRule
      BY <3>3, AsksAssumption DEF NoRule
    <3> QED BY <2>3, <3>1, <3>4
  <2> QED BY <2>4, <2>5
<1> QED BY <1>5, <1>6, <1>7, <1>8, <1>9, <1>10, <1>11
(***************************************************************************)
(* The two writes.                                                         *)
(***************************************************************************)

\* Either write adds at most the class of the key in hand, and keeps the kernel well formed.
LEMMA WriteKeeps ==
  ASSUME NEW d \in Devs, IInv, pc \in {"down", "up"}, NEW e, NEW s \in Shapes,
         NEW q \in BOOLEAN, NEW h, NEW f, Write(d, minors[job.key], e, s, q, h, f)
  PROVE  /\ minors[job.key] \in Minors /\ d \in root
         /\ cls' = [cls EXCEPT ![d] = @ \cup {minors[job.key]}]
         /\ cls' \in [Devs -> SUBSET Minors] /\ leaf' \in [Devs -> [Minors -> Leaf]]
         /\ fil' \in [Devs -> [Minors -> Addrs \cup {NoAddr}]]
<1> USE DEF IInv
<1>1. minors[job.key] \in Minors
  BY DEF TypeOK, TickOK, ShaperOK, InHand
<1>2. want[job.key].addr \in Addrs
  BY AsksAssumption DEF TypeOK, TickOK, InHand, Wanted
<1>3. NoLeaf \in Leaf /\ [shape |-> s, paced |-> q] \in Leaf
  BY ShapesAssumption DEF Leaf, NoLeaf
<1>4. leaf' \in [Devs -> [Minors -> Leaf]]
  <2>1. \A v \in Leaf : [leaf EXCEPT ![d][minors[job.key]] = v] \in [Devs -> [Minors -> Leaf]]
    BY <1>1 DEF TypeOK, KernelOK
  <2>2. \/ leaf' = leaf \/ leaf' = [leaf EXCEPT ![d][minors[job.key]] = NoLeaf]
        \/ leaf' = [leaf EXCEPT ![d][minors[job.key]] = [shape |-> s, paced |-> q]]
    BY DEF Write, LeafWritten
  <2>3. leaf \in [Devs -> [Minors -> Leaf]]
    BY DEF TypeOK, KernelOK
  <2> QED BY <1>3, <2>1, <2>2, <2>3
<1>5. fil' \in [Devs -> [Minors -> Addrs \cup {NoAddr}]]
  BY <1>1, <1>2 DEF Write, TypeOK, KernelOK
<1>6. cls' \in [Devs -> SUBSET Minors]
  BY <1>1 DEF Write, TypeOK, KernelOK
<1> QED BY <1>1, <1>4, <1>5, <1>6 DEF Write, ClassAllowed
LEMMA WriteDownInv == IInv /\ WriteDown => IInv'
<1> SUFFICES ASSUME IInv, WriteDown PROVE IInv'
  OBVIOUS
<1> DEFINE n == minors[job.key]
           d == job.port
<1> USE DEF IInv
<1>1. /\ pc = "down" /\ pc' = "up"
      /\ UNCHANGED <<present, root, merging, shaper, want, paced, todo, calm, theirs, killed>>
  BY DEF WriteDown
<1>2. job \in Jobs /\ job.key \in todo /\ job.key \in Keys /\ n # NoMinor /\ n \in Minors
  BY <1>1 DEF TypeOK, TickOK, ShaperOK, InHand
<1>3. /\ \/ cls' = cls
         \/ cls' = [cls EXCEPT ![d] = @ \cup {n}] /\ d \in root
      /\ cls' \in [Devs -> SUBSET Minors] /\ leaf' \in [Devs -> [Minors -> Leaf]]
      /\ fil' \in [Devs -> [Minors -> Addrs \cup {NoAddr}]]
      /\ job' \in Jobs /\ job'.key = job.key /\ job'.port = d
      /\ hurt' \in SUBSET Keys /\ troubles' \in Nat
  <2>1. CASE UNCHANGED <<cls, leaf, fil, job>> /\ Refused(d, n, Exists /\ ~Moved)
    BY <1>2, <2>1 DEF Refused, Trouble, TypeOK, KernelOK
  <2>2. ASSUME NEW h,
               Write(d, n, Exists /\ ~Moved, want[job.key].down, FALSE, h, Refilter \/ Moved),
               job' = [job EXCEPT !.haveDown = Have(d, n, want[job.key].down, h)],
               UNCHANGED <<hurt, troubles>>
        PROVE <1>3!:
    <3>1. want[job.key].down \in Shapes
      BY <1>2, AsksAssumption DEF TypeOK, TickOK, InHand, Wanted
    <3>2. d \in root => d \in Devs
      BY DEF TypeOK, KernelOK
    <3>3. d \in root
      BY <2>2 DEF Write, ClassAllowed
    <3>4. /\ cls' = [cls EXCEPT ![d] = @ \cup {n}]
          /\ cls' \in [Devs -> SUBSET Minors] /\ leaf' \in [Devs -> [Minors -> Leaf]]
          /\ fil' \in [Devs -> [Minors -> Addrs \cup {NoAddr}]]
      BY <1>1, <2>2, <3>1, <3>2, <3>3, WriteKeeps
    <3>5. Have(d, n, want[job.key].down, h) \in BOOLEAN
      BY DEF Have
    <3>6. job' \in Jobs /\ job'.key = job.key /\ job'.port = d
      BY <1>2, <2>2, <3>5 DEF Jobs
    <3> QED BY <2>2, <3>3, <3>4, <3>6 DEF TypeOK
  <2> QED BY <2>1, <2>2 DEF WriteDown
<1>4. TypeOK'
  BY <1>1, <1>3 DEF TypeOK, KernelOK, ShaperOK, TickOK, shaper
<1>5. Room' /\ Numbered' /\ MinorsDistinct'
  BY <1>1 DEF Room, Numbered, MinorsDistinct, shaper
<1>6. Rooted'
  BY <1>1, <1>3 DEF Rooted, TypeOK, KernelOK
<1>7. InHand'
  BY <1>1, <1>2, <1>3 DEF InHand, TypeOK, KernelOK, shaper, Devs, Wanted
<1>8. ClassHasRecord'
  <2> SUFFICES ASSUME NEW c \in ports', NEW i \in cls'[c]
               PROVE  \E j \in Keys :
                        /\ minors'[j] = i
                        /\ \/ applied'[j] # NoRule /\ c \in {applied'[j].port, Wan}
                           \/ pc' \in {"down", "up"} /\ job'.key = j /\ c \in {job'.port, Wan}
    BY DEF ClassHasRecord
  <2>1. c \in Devs /\ c \in ports
    BY <1>1 DEF TypeOK, ShaperOK, shaper
  <2>2. CASE i \in cls[c]
    BY <1>1, <1>3, <2>1, <2>2 DEF ClassHasRecord, shaper
  <2>3. CASE i \notin cls[c]
    <3>1. c = d /\ i = n
      BY <1>3, <2>1, <2>3 DEF TypeOK, KernelOK
    <3> QED BY <1>1, <1>2, <1>3, <3>1 DEF shaper
  <2> QED BY <2>2, <2>3
<1> QED BY <1>4, <1>5, <1>6, <1>7, <1>8
LEMMA WriteUpInv == IInv /\ WriteUp => IInv'
<1> SUFFICES ASSUME IInv, WriteUp PROVE IInv'
  OBVIOUS
<1> DEFINE k == job.key
           n == minors[k]
           pace == job.port \in paced
           had == job.prev.haveUp
           rule(have) == [ask |-> want[k], port |-> job.port, haveDown |-> job.haveDown,
                          haveUp |-> have, paced |-> pace]
<1> USE DEF IInv
<1>1. /\ pc = "up" /\ pc' = "next" /\ todo' = todo \ {k}
      /\ UNCHANGED <<present, root, merging, ports, minors, nextMin, gro, want, paced,
                     calm, theirs, killed>>
  BY DEF WriteUp
<1>2. job \in Jobs /\ k \in todo /\ k \in Keys /\ n # NoMinor /\ n \in Minors /\ want[k] \in Asks
  BY <1>1 DEF TypeOK, TickOK, ShaperOK, InHand, Wanted
<1>3. \A have \in BOOLEAN : rule(have) \in Rules
  BY <1>2 DEF Rules, Jobs
<1>4. /\ \/ cls' = cls
         \/ cls' = [cls EXCEPT ![Wan] = @ \cup {n}] /\ Wan \in root
      /\ cls' \in [Devs -> SUBSET Minors] /\ leaf' \in [Devs -> [Minors -> Leaf]]
      /\ fil' \in [Devs -> [Minors -> Addrs \cup {NoAddr}]]
      /\ \E have \in BOOLEAN : applied' = [applied EXCEPT ![k] = rule(have)]
      /\ hurt' \in SUBSET Keys /\ troubles' \in Nat
  <2>0. pace \in BOOLEAN
    OBVIOUS
  <2> HIDE DEF pace, rule, had
  <2>1. CASE /\ Refused(Wan, n, Exists) /\ applied' = [applied EXCEPT ![k] = rule(FALSE)]
             /\ UNCHANGED <<cls, leaf, fil>>
    <3>1. hurt' \in SUBSET Keys /\ troubles' \in Nat
      <4>1. Refused(Wan, n, Exists)
        BY <2>1
      <4> QED BY <1>2, <4>1 DEF Refused, Trouble, TypeOK
    <3>2. UNCHANGED <<cls, leaf, fil>>
      BY <2>1
    <3>3. \E have \in BOOLEAN : applied' = [applied EXCEPT ![k] = rule(have)]
      BY <2>1
    <3> QED BY <3>1, <3>2, <3>3 DEF TypeOK, KernelOK
  <2>2. CASE /\ Write(Wan, n, Exists, want[k].up, pace, had, Refilter)
             /\ applied' = [applied EXCEPT ![k] = rule(Have(Wan, n, want[k].up, had))]
             /\ UNCHANGED <<hurt, troubles>>
    <3>1. want[k].up \in Shapes /\ pace \in BOOLEAN /\ Wan \in Devs
      BY <1>2, <2>0, AsksAssumption DEF Devs
    <3>0. Write(Wan, n, Exists, want[k].up, pace, had, Refilter)
      BY <2>2
    <3>2. /\ Wan \in root /\ cls' = [cls EXCEPT ![Wan] = @ \cup {n}]
          /\ cls' \in [Devs -> SUBSET Minors] /\ leaf' \in [Devs -> [Minors -> Leaf]]
          /\ fil' \in [Devs -> [Minors -> Addrs \cup {NoAddr}]]
      BY <1>1, <3>0, <3>1, WriteKeeps
    <3>3. Have(Wan, n, want[k].up, had) \in BOOLEAN
      BY DEF Have
    <3> QED BY <2>2, <3>2, <3>3 DEF TypeOK
  <2> QED BY <2>1, <2>2 DEF WriteUp, pace, rule, had
<1>5. PICK r \in Rules : applied' = [applied EXCEPT ![k] = r] /\ r.port = job.port
  BY <1>3, <1>4
<1>6. TypeOK'
  BY <1>1, <1>4, <1>5 DEF TypeOK, KernelOK, ShaperOK, TickOK
<1>7. Room'
  <2>1. {j \in todo' : minors'[j] = NoMinor} = {j \in todo : minors[j] = NoMinor}
    BY <1>1, <1>2
  <2> QED BY <1>1, <2>1 DEF Room
<1>8. Numbered' /\ MinorsDistinct'
  BY <1>1, <1>2, <1>5 DEF Numbered, MinorsDistinct, TypeOK, ShaperOK
<1>9. Rooted' /\ InHand'
  BY <1>1, <1>4 DEF Rooted, InHand, TypeOK, KernelOK, Wanted
<1>10. ClassHasRecord'
  <2> SUFFICES ASSUME NEW c \in ports', NEW i \in cls'[c]
               PROVE  \E j \in Keys : /\ minors'[j] = i /\ applied'[j] # NoRule
                                      /\ c \in {applied'[j].port, Wan}
    BY DEF ClassHasRecord
  <2>1. c \in Devs /\ c \in ports
    BY <1>1 DEF TypeOK, ShaperOK
  <2>2. applied'[k] # NoRule /\ applied'[k].port = job.port
    BY <1>2, <1>5, NoRuleApart DEF TypeOK, ShaperOK
  <2>3. CASE i \notin cls[c]
    <3>1. c = Wan /\ i = n
      BY <1>4, <2>1, <2>3 DEF TypeOK, KernelOK
    <3> QED BY <1>1, <1>2, <2>2, <3>1
  <2>4. CASE i \in cls[c] /\ i # n
    <3>1. PICK j \in Keys : minors[j] = i /\ applied[j] # NoRule /\ c \in {applied[j].port, Wan}
      BY <1>1, <2>1, <2>4 DEF ClassHasRecord
    <3>2. applied'[j] = applied[j]
      BY <1>5, <2>4, <3>1
    <3> QED BY <1>1, <3>1, <3>2
  <2>5. CASE i \in cls[c] /\ i = n
    <3>1. c = Wan \/ c = job.port
      BY <1>1, <2>1, <2>5 DEF InHand, Devs
    <3> QED BY <1>1, <1>2, <2>2, <2>5, <3>1
  <2> QED BY <2>3, <2>4, <2>5
<1> QED BY <1>6, <1>7, <1>8, <1>9, <1>10

(***************************************************************************)
(* The end of a tick, and what happens around it.                          *)
(***************************************************************************)
LEMMA DepartInv == ASSUME NEW k \in Keys, IInv, Depart(k) PROVE IInv'
<1> DEFINE n == minors[k]
           gone == PortsOf(k)
<1> USE DEF IInv
<1>1. /\ pc = "next" /\ todo = {} /\ applied[k] # NoRule
      /\ cls' = [d \in Devs |-> cls[d] \ (IF d \in gone THEN {n} ELSE {})]
      /\ applied' = [applied EXCEPT ![k] = NoRule]
      /\ minors' = [minors EXCEPT ![k] = NoMinor] /\ hurt' = hurt \ {k}
      /\ UNCHANGED <<present, root, merging, ports, nextMin, gro, tick, calm, theirs, killed,
                     troubles>>
  BY DEF Depart, Departed
<1>2. TypeOK'
  <2>1. leaf' \in [Devs -> [Minors -> Leaf]]
    BY ShapesAssumption DEF Depart, TypeOK, KernelOK, Leaf, NoLeaf
  <2>2. fil' \in [Devs -> [Minors -> Addrs \cup {NoAddr}]]
    BY DEF Depart, TypeOK, KernelOK
  <2>3. KernelOK'
    BY <1>1, <2>1, <2>2 DEF TypeOK, KernelOK
  <2>4. ShaperOK' /\ TickOK'
    BY <1>1 DEF TypeOK, ShaperOK, TickOK, tick
  <2> QED BY <1>1, <2>3, <2>4 DEF TypeOK
<1>3. Room'
  <2>1. {j \in todo' : minors'[j] = NoMinor} = {j \in todo : minors[j] = NoMinor}
    BY <1>1 DEF tick
  <2> QED BY <1>1, <2>1 DEF Room
<1>4. Numbered' /\ MinorsDistinct'
  <2>1. NoMinor < nextMin
    BY BoundsAssumption DEF TypeOK, ShaperOK, NoMinor
  <2> QED BY <1>1, <2>1 DEF Numbered, MinorsDistinct, TypeOK, ShaperOK
<1>5. Rooted' /\ InHand'
  BY <1>1 DEF Rooted, InHand, TypeOK, KernelOK, Wanted, tick
<1>6. ClassHasRecord'
  <2> SUFFICES ASSUME NEW d \in ports', NEW i \in cls'[d]
               PROVE  \E j \in Keys : /\ minors'[j] = i /\ applied'[j] # NoRule
                                      /\ d \in {applied'[j].port, Wan}
    BY DEF ClassHasRecord
  <2>1. d \in Devs /\ d \in ports /\ i \in cls[d] /\ (d \in gone => i # n)
    BY <1>1 DEF TypeOK, ShaperOK, KernelOK
  <2>2. PICK j \in Keys : minors[j] = i /\ applied[j] # NoRule /\ d \in {applied[j].port, Wan}
    BY <1>1, <2>1 DEF ClassHasRecord
  <2>3. j # k
    BY <2>1, <2>2 DEF PortsOf
  <2> QED BY <1>1, <2>2, <2>3
<1> QED BY <1>2, <1>3, <1>4, <1>5, <1>6

LEMMA EndTickInv == IInv /\ EndTick => IInv'
BY DEF EndTick, IInv, TypeOK, KernelOK, ShaperOK, TickOK, Room, Numbered, InHand, Rooted,
       MinorsDistinct, ClassHasRecord, kernel, shaper, history, Wanted
LEMMA UnplugInv == ASSUME NEW e \in Pluggable, IInv, Unplug(e) PROVE IInv'
<1> USE DEF IInv
<1>1. /\ e \in Devs /\ e # Wan
      /\ present' = present \ {e} /\ root' = root \ {e}
      /\ cls' = [cls EXCEPT ![e] = {}] /\ merging' = merging \ {e}
      /\ theirs' = theirs \ {e} /\ calm' = 0 /\ troubles' = troubles + 1
      /\ UNCHANGED <<ports, minors, nextMin, applied, tick, hurt, killed>>
  BY PluggableAssumption, DevsAssumption DEF Unplug, Trouble, Devs
<1>2. TypeOK'
  <2>1. Bare \in [Minors -> Leaf]
    BY ShapesAssumption DEF Bare, Leaf, NoLeaf
  <2>2. leaf' \in [Devs -> [Minors -> Leaf]] /\ fil' \in [Devs -> [Minors -> Addrs \cup {NoAddr}]]
    BY <2>1 DEF Unplug, Unfiltered, TypeOK, KernelOK
  <2>3. gro' \in [Devs -> {"none", "held", "stale"}]
    BY DEF Unplug, TypeOK, ShaperOK
  <2>4. KernelOK' /\ ShaperOK'
    BY <1>1, <2>2, <2>3 DEF TypeOK, KernelOK, ShaperOK
  <2>5. TickOK'
    BY <1>1 DEF TypeOK, TickOK, tick
  <2> QED BY <1>1, <2>4, <2>5, BoundsAssumption DEF TypeOK
<1>3. Room' /\ Numbered' /\ MinorsDistinct'
  BY <1>1 DEF Room, Numbered, MinorsDistinct, tick
<1>4. \A d \in Devs : cls'[d] \subseteq cls[d]
  BY <1>1 DEF TypeOK, KernelOK
<1>5. Rooted'
  BY <1>1 DEF Rooted, TypeOK, KernelOK
<1>6. InHand'
  BY <1>1, <1>4 DEF InHand, tick, Wanted, Devs
<1>7. ClassHasRecord'
  BY <1>1, <1>4 DEF ClassHasRecord, tick, TypeOK, ShaperOK
<1> QED BY <1>2, <1>3, <1>5, <1>6, <1>7

LEMMA PlugInv == ASSUME NEW e \in Pluggable, IInv, Plug(e) PROVE IInv'
<1> USE DEF IInv
<1>1. /\ e \in Devs /\ present' = present \cup {e} /\ merging' = merging \cup {e} /\ calm' = 0
      /\ UNCHANGED <<root, cls, leaf, fil, shaper, tick, theirs, hurt, killed, troubles>>
  BY PluggableAssumption DEF Plug, Devs
<1>2. TypeOK'
  BY <1>1, BoundsAssumption DEF TypeOK, KernelOK, ShaperOK, TickOK, shaper, tick
<1>3. Room' /\ Numbered' /\ MinorsDistinct' /\ Rooted' /\ InHand' /\ ClassHasRecord'
  BY <1>1 DEF Room, Numbered, MinorsDistinct, Rooted, InHand, ClassHasRecord, Wanted, shaper, tick
<1> QED BY <1>2, <1>3

LEMMA CrashInv == IInv /\ Crash => IInv'
<1> SUFFICES ASSUME IInv, Crash PROVE IInv'
  OBVIOUS
<1> USE DEF IInv
<1>1. /\ root' = root \cup {Wan} /\ cls' = [cls EXCEPT ![Wan] = {}] /\ ports' = {Wan}
      /\ minors' = [k \in Keys |-> NoMinor] /\ nextMin' = FirstMinor
      /\ applied' = [k \in Keys |-> NoRule] /\ gro' = [d \in Devs |-> "none"]
      /\ pc' = "idle" /\ want' = [k \in Keys |-> Unwanted] /\ paced' = {} /\ todo' = {}
      /\ calm' = 0 /\ theirs' = present \ merging /\ killed' = TRUE /\ hurt' = {}
      /\ troubles' = troubles + 1 /\ present' = present /\ merging' = merging
  BY DEF Crash, Trouble
<1>2. TypeOK'
  <2>1. Bare \in [Minors -> Leaf] /\ Wan \in Devs
    BY ShapesAssumption DEF Bare, Leaf, NoLeaf, Devs
  <2>2. leaf' \in [Devs -> [Minors -> Leaf]] /\ fil' \in [Devs -> [Minors -> Addrs \cup {NoAddr}]]
    BY <2>1 DEF Crash, Unfiltered, TypeOK, KernelOK
  <2>3. KernelOK'
    BY <1>1, <2>1, <2>2 DEF TypeOK, KernelOK
  <2>4. ShaperOK' /\ TickOK'
    BY <1>1, <2>1, BoundsAssumption DEF ShaperOK, TickOK
  <2> QED BY <1>1, <2>3, <2>4, BoundsAssumption DEF TypeOK, KernelOK
<1>3. Room'
  <2>1. {k \in todo' : minors'[k] = NoMinor} = {}
    BY <1>1
  <2> QED BY <1>1, <2>1, FS_EmptySet, BoundsAssumption DEF Room
<1>4. Numbered' /\ MinorsDistinct'
  BY <1>1, BoundsAssumption DEF Numbered, MinorsDistinct, NoMinor
<1>5. Rooted' /\ InHand' /\ ClassHasRecord'
  BY <1>1 DEF Rooted, InHand, ClassHasRecord, TypeOK, KernelOK, Devs
<1> QED BY <1>2, <1>3, <1>4, <1>5

LEMMA TeardownInv == IInv /\ Teardown => IInv'
<1> SUFFICES ASSUME IInv, Teardown PROVE IInv'
  OBVIOUS
<1> USE DEF IInv
<1>1. /\ root' = root \ ports /\ ports' = {} /\ pc' = "stopped"
      /\ cls' = [d \in Devs |-> IF d \in ports THEN {} ELSE cls[d]]
      /\ UNCHANGED <<present, minors, nextMin, applied, want, paced, todo, job, history>>
  BY DEF Teardown, TornDown
<1>2. TypeOK'
  <2>1. Bare \in [Minors -> Leaf]
    BY ShapesAssumption DEF Bare, Leaf, NoLeaf
  <2>2. leaf' \in [Devs -> [Minors -> Leaf]] /\ fil' \in [Devs -> [Minors -> Addrs \cup {NoAddr}]]
    BY <2>1 DEF Teardown, Unfiltered, TypeOK, KernelOK
  <2>3. merging' \in SUBSET Devs /\ gro' \in [Devs -> {"none", "held", "stale"}]
    BY DEF Teardown, TypeOK, KernelOK
  <2>4. KernelOK' /\ ShaperOK' /\ TickOK'
    BY <1>1, <2>2, <2>3 DEF TypeOK, KernelOK, ShaperOK, TickOK
  <2> QED BY <1>1, <2>4 DEF TypeOK, history
<1>3. Room' /\ Numbered' /\ MinorsDistinct' /\ Rooted' /\ InHand' /\ ClassHasRecord'
  BY <1>1 DEF Room, Numbered, MinorsDistinct, Rooted, InHand, ClassHasRecord, Wanted
<1> QED BY <1>2, <1>3

LEMMA NextInv == IInv /\ [Next]_vars => IInv'
<1> SUFFICES ASSUME IInv, [Next]_vars PROVE IInv'
  OBVIOUS
<1>1. CASE Next
  BY <1>1, BeginTickInv, EnsureInv, WriteDownInv, WriteUpInv, DepartInv, EndTickInv, UnplugInv,
     PlugInv, CrashInv, TeardownInv DEF Next
<1>2. CASE UNCHANGED vars
  BY <1>2 DEF vars, kernel, shaper, tick, history, IInv, TypeOK, KernelOK, ShaperOK, TickOK, Room,
     Numbered, InHand, Rooted, MinorsDistinct, ClassHasRecord, Wanted
<1> QED BY <1>1, <1>2

\* The first invariant holds in every behaviour.
THEOREM Invariance == Spec => []IInv
BY InitInv, NextInv, PTL DEF Spec

(***************************************************************************)
(* A second invariant: what the records say of the kernel is true.         *)
(***************************************************************************)

\* GRO is off where somebody else had it off or where it is held, and nothing is held that
\* no cap asks for or that has gone.
GroInv ==
  /\ merging \subseteq present /\ theirs \subseteq present \ merging
  /\ \A d \in Devs : gro[d] = "held" => d \in present \ (merging \cup theirs)
  /\ \A d \in Devs \cap present : gro[d] = "stale" => d \in merging
  /\ \A d \in Devs : gro[d] # "none" => d \in GroPorts(want) /\ pc # "stopped"
  /\ \A d \in present \ merging : d \in theirs \/ gro[d] = "held"

\* Nothing has come or gone since this tick, or the last one, began.
Undisturbed == calm >= 1 /\ pc # "stopped"

\* Then what syncGRO found is still so.
PacedInv ==
  Undisturbed =>
    /\ paced \subseteq present \ merging
    /\ (GroPorts(want) \cap present) \ Stubborn \subseteq paced

\* Leaves and filters belong to classes; the WAN port is always worked on; between ticks
\* nothing is left to visit, or to delete.
Based ==
  /\ \A d \in Devs : \A m \in Minors \ cls[d] : leaf[d][m] = NoLeaf /\ fil[d][m] = NoAddr
  /\ pc # "stopped" => Wan \in ports \cap root
  /\ pc = "idle" => todo = {} /\ (calm >= 1 => Departed = {})

LeafOf(shape, pace) == IF shape = Clean THEN NoLeaf ELSE [shape |-> shape, paced |-> pace]

\* What there is under class m of d.
Has(d, m, shape, pace, addr, have) ==
  /\ m \in cls[d] /\ leaf[d][m] = LeafOf(shape, pace) /\ fil[d][m] = addr
  /\ have <=> leaf[d][m] # NoLeaf

\* The uplink of every key no command was refused for is what its record says.
UpTrue ==
  pc # "stopped" =>
    \A k \in Keys \ hurt : applied[k] # NoRule =>
      LET r == applied[k] IN Has(Wan, minors[k], r.ask.up, r.paced, r.ask.addr, r.haveUp)

\* The copy of the record in hand agrees with the record, but for the port.
JobTrue ==
  pc \in {"down", "up"} =>
    LET r == applied[job.key] IN
    /\ job.prev = NoRule <=> r = NoRule
    /\ r.ask = job.prev.ask /\ r.haveUp = job.prev.haveUp /\ r.paced = job.prev.paced
    /\ r = NoRule => minors[job.key] \notin cls[Wan]

SameShapes(a, b) == a.addr = b.addr /\ a.down = b.down /\ a.up = b.up

\* In an undisturbed tick, a key that has been visited is recorded as it is wanted.
Visited == Wanted(want) \ todo
VisitedAsk ==
  Undisturbed =>
    /\ \A k \in Visited :
         /\ applied[k] # NoRule /\ SameShapes(applied[k].ask, want[k])
         /\ applied[k].paced <=> PortFor(k) \in paced
    /\ pc \in {"down", "up"} => job.port = PortFor(job.key)

UpInv == GroInv /\ PacedInv /\ Based /\ UpTrue /\ JobTrue /\ VisitedAsk

\* The same of the downlink, where an interface is never replaced unnoticed: a record of a
\* port that is there is of one with our root on it ...
Placed ==
  pc # "stopped" =>
    /\ \A k \in Keys : applied[k].port \in present => applied[k].port \in ports \cap root
    /\ pc \in {"down", "up"} /\ job.port \in present => job.port \in ports \cap root

Busy(k) == pc \in {"down", "up"} /\ job.key = k

\* ... and says what is there.
DownTrue ==
  pc # "stopped" =>
    \A k \in Keys \ hurt : applied[k].port \in present /\ ~Busy(k) =>
      LET r == applied[k] IN Has(r.port, minors[k], r.ask.down, FALSE, r.ask.addr, r.haveDown)

\* So the class of the key in hand is there just when the record in hand says so, until its
\* downlink has been written.
JobDown ==
  pc \in {"down", "up"} /\ job.port \in present /\ job.key \notin hurt =>
    LET d == job.port m == minors[job.key] r == job.prev ask == want[job.key] IN
    IF pc = "up" THEN Has(d, m, ask.down, FALSE, ask.addr, job.haveDown)
    ELSE IF r # NoRule /\ r.port = d THEN Has(d, m, r.ask.down, FALSE, r.ask.addr, r.haveDown)
    ELSE m \notin cls[d]

VisitedPort == Undisturbed => \A k \in Visited : applied[k].port = PortFor(k)

DownInv == Placed /\ DownTrue /\ JobDown /\ VisitedPort

\* The steps that leave what GRO is about alone.
Quiet == WriteDown \/ WriteUp \/ EndTick \/ (\E k \in Keys : Ensure(k) \/ Depart(k))
Untouched ==
  /\ UNCHANGED <<present, merging, theirs, gro, want, paced, calm>>
  /\ pc # "stopped" /\ pc' # "stopped"
LEMMA QuietSteps == Quiet => Untouched
<1> USE DEF Untouched
<1>1. CASE WriteDown
  BY <1>1 DEF WriteDown, shaper
<1>2. CASE WriteUp
  BY <1>2 DEF WriteUp
<1>3. CASE EndTick
  BY <1>3 DEF EndTick, kernel, shaper, history
<1>4. ASSUME NEW k \in Keys, Ensure(k) PROVE Untouched
  BY <1>4 DEF Ensure, history
<1>5. ASSUME NEW k \in Keys, Depart(k) PROVE Untouched
  BY <1>5 DEF Depart, tick
<1> QED BY <1>1, <1>2, <1>3, <1>4, <1>5 DEF Quiet

\* GRO is worked on once a tick, and where interfaces come and go.
LEMMA GroStep == ASSUME IInv, GroInv, [Next]_vars PROVE GroInv'
<1> USE DEF GroInv
<1>0. present \subseteq Devs /\ merging \subseteq Devs /\ gro \in [Devs -> {"none", "held", "stale"}]
  BY DEF IInv, TypeOK, KernelOK, ShaperOK
<1>1. CASE BeginTick
  <2>1. PICK w \in [Keys -> Asks \cup {Unwanted}] : want' = w /\ SyncGro(GroPorts(w))
    BY <1>1 DEF BeginTick
  <2> DEFINE need == GroPorts(w)
  <2>2. /\ GroPorts(want') = need
        /\ UNCHANGED <<present, theirs>> /\ pc' # "stopped"
    BY <1>1, <2>1 DEF BeginTick
  <2> HIDE DEF need
  <2>3. /\ merging' = (merging \ GroTurnedOff(need)) \cup GroReturned(need)
        /\ gro' = [d \in Devs |->
               IF d \notin need THEN "none"
               ELSE IF d \in GroTurnedOff(need) \/ (d \in GroOff(need) /\ gro[d] = "stale")
               THEN "held" ELSE gro[d]]
    BY <2>1 DEF SyncGro, need
  <2>4. /\ GroReturned(need) \cap need = {} /\ GroReturned(need) \subseteq present \ theirs
        /\ GroTurnedOff(need) \subseteq need \cap merging
    BY <1>0 DEF GroReturned, GroTurnedOff
  <2>5. ASSUME NEW d \in Devs
        PROVE  /\ gro'[d] = "held" => d \in present' \ (merging' \cup theirs')
               /\ d \in present' /\ gro'[d] = "stale" => d \in merging'
               /\ gro'[d] # "none" => d \in need
               /\ d \in present' \ merging' => d \in theirs' \/ gro'[d] = "held"
    <3>1. CASE d \notin need
      <4>1. gro'[d] = "none"
        BY <2>3, <3>1
      <4>2. d \in present \ merging' => d \notin merging /\ gro[d] # "held"
        BY <2>3, <2>4, <3>1 DEF GroReturned
      <4> QED BY <1>0, <2>2, <3>1, <4>1, <4>2
    <3>2. CASE d \in GroTurnedOff(need)
      BY <1>0, <2>2, <2>3, <2>4, <3>2 DEF GroTurnedOff
    <3>3. CASE d \in need /\ d \notin GroTurnedOff(need) /\ d \in GroOff(need) /\ gro[d] = "stale"
      BY <1>0, <2>2, <2>3, <2>4, <3>3 DEF GroTurnedOff, GroOff
    <3>4. CASE d \in need /\ d \notin GroTurnedOff(need) /\ ~(d \in GroOff(need) /\ gro[d] = "stale")
      <4>1. gro'[d] = gro[d]
        BY <2>3, <3>4
      <4>2. d \in merging' <=> d \in merging
        BY <2>3, <2>4, <3>4
      <4> QED BY <1>0, <2>2, <3>4, <4>1, <4>2
    <3> QED BY <3>1, <3>2, <3>3, <3>4
  <2>6. merging' \subseteq present' /\ theirs' \subseteq present' \ merging'
    BY <2>2, <2>3, <2>4
  <2>7. present' \subseteq Devs
    BY <1>0, <2>2
  <2> QED BY <2>2, <2>5, <2>6, <2>7
<1>2. CASE Quiet \/ UNCHANGED vars
  <2>1. UNCHANGED <<present, merging, theirs, gro, want>> /\ (pc' = pc \/ pc' # "stopped")
    BY <1>2, QuietSteps DEF Untouched, vars, kernel, shaper, tick, history
  <2>2. GroPorts(want)' = GroPorts(want)
    BY <2>1 DEF GroPorts, Wanted
  <2> QED BY <2>1, <2>2
<1>3. ASSUME NEW e \in Pluggable, Unplug(e) \/ Plug(e) PROVE GroInv'
  <2>1. UNCHANGED <<want, pc>> /\ e \in Devs /\ pc # "stopped"
    BY <1>3, PluggableAssumption DEF Unplug, Plug, tick, Devs
  <2>2. GroPorts(want)' = GroPorts(want)
    BY <2>1 DEF GroPorts, Wanted
  <2>3. CASE Unplug(e)
    <3>1. /\ present' = present \ {e} /\ merging' = merging \ {e} /\ theirs' = theirs \ {e}
          /\ gro' = [gro EXCEPT ![e] = IF @ = "held" THEN "stale" ELSE @]
      BY <2>3 DEF Unplug
    <3> QED BY <1>0, <2>1, <2>2, <3>1
  <2>4. CASE Plug(e)
    <3>1. /\ present' = present \cup {e} /\ merging' = merging \cup {e} /\ e \notin present
          /\ UNCHANGED <<theirs, gro>>
      BY <2>4 DEF Plug, shaper
    <3> QED BY <1>0, <2>1, <2>2, <3>1
  <2> QED BY <1>3, <2>3, <2>4
<1>4. CASE Crash
  BY <1>0, <1>4 DEF Crash
<1>5. CASE Teardown
  <2>1. /\ merging' = merging \cup {d \in present : gro[d] = "held"}
        /\ gro' = [d \in Devs |-> "none"] /\ UNCHANGED <<present, theirs, want>>
    BY <1>5 DEF Teardown, history
  <2> QED BY <1>0, <2>1
<1> QED BY <1>1, <1>2, <1>3, <1>4, <1>5 DEF Next, Quiet

LEMMA PacedStep == ASSUME IInv, GroInv, PacedInv, [Next]_vars PROVE PacedInv'
<1> USE DEF PacedInv, Undisturbed
<1>1. CASE BeginTick
  <2>1. PICK w \in [Keys -> Asks \cup {Unwanted}] : want' = w /\ SyncGro(GroPorts(w))
    BY <1>1 DEF BeginTick
  <2> DEFINE need == GroPorts(w)
  <2>2. GroPorts(want') = need /\ present' = present
    BY <1>1, <2>1 DEF BeginTick
  <2> HIDE DEF need
  <2>3. /\ paced' = GroOff(need)
        /\ merging' = (merging \ GroTurnedOff(need)) \cup GroReturned(need)
    BY <2>1 DEF SyncGro, need
  <2>4. GroOff(need) \subseteq present \ merging'
    BY <2>3 DEF GroOff, GroTurnedOff, GroReturned, GroInv, IInv, TypeOK, KernelOK
  <2>5. (need \cap present) \ Stubborn \subseteq GroOff(need)
    BY DEF GroOff
  <2> QED BY <2>2, <2>3, <2>4, <2>5
<1>2. CASE Quiet \/ UNCHANGED vars
  <2>1. /\ UNCHANGED <<present, merging, paced, want, calm>>
        /\ pc' # "stopped" => pc # "stopped"
    BY <1>2, QuietSteps DEF Untouched, vars, kernel, shaper, tick, history
  <2> QED BY <2>1 DEF GroPorts, Wanted
<1>3. CASE Crash \/ (\E e \in Pluggable : Unplug(e) \/ Plug(e))
  <2>1. calm' = 0
    BY <1>3 DEF Crash, Unplug, Plug
  <2> QED BY <2>1
<1>4. CASE Teardown
  BY <1>4 DEF Teardown
<1> QED BY <1>1, <1>2, <1>3, <1>4 DEF Next, Quiet

(***************************************************************************)
(* What a visit and a write do, for the proofs that follow.                *)
(***************************************************************************)

Visits(k, down, fresh, lost) ==
  /\ \/ PortKept(want[k].port, down, fresh, lost)
     \/ PortBuilt(want[k].port, down, fresh, lost)
     \/ PortGone(want[k].port, down, fresh, lost)
  /\ Rebuilt(fresh, LeftPort(applied[k], down), MinorOf(k))
  /\ ports' = (ports \ lost) \cup fresh
  /\ applied' = Forgotten(lost)
  /\ IF Unchanged(applied[k], want[k], down)
       THEN pc' = "next" /\ todo' = todo \ {k} /\ job' = NoJob
       ELSE /\ pc' = IF down = NoPort THEN "up" ELSE "down"
            /\ job' = [key |-> k, prev |-> applied[k], port |-> down, haveDown |-> FALSE]
            /\ todo' = todo

LEMMA EnsureVisits ==
  ASSUME NEW k \in Keys, IInv, Ensure(k)
  PROVE  \E down \in Ports \cup {NoPort}, fresh \in SUBSET {want[k].port},
            lost \in SUBSET {want[k].port} :
           /\ Visits(k, down, fresh, lost)
           /\ fresh \subseteq Ports \cap present /\ lost \subseteq Ports \cap ports
           /\ lost \cap root = {} /\ down = PortFor(k)
           /\ down \in Ports => down \in (ports' \cap root') \cap present
<1> USE DEF IInv
<1>0. PICK down \in Ports \cup {NoPort}, fresh \in SUBSET {want[k].port},
           lost \in SUBSET {want[k].port} : Visits(k, down, fresh, lost)
  BY DEF Ensure, Visits
<1>1. want[k] \in Asks /\ want[k].port \in Ports \cup {NoPort} /\ NoPort \notin present
  BY AsksAssumption, DevsAssumption DEF Ensure, First, TypeOK, TickOK, KernelOK, InHand, Wanted, Devs
<1>2. /\ fresh \subseteq Ports \cap present /\ lost \subseteq Ports \cap ports
      /\ lost \cap root = {} /\ down = PortFor(k)
  BY <1>0, <1>1 DEF Visits, PortKept, PortBuilt, PortGone, PortFor, Rooted
<1>3. down \in Ports => down \in (ports' \cap root') \cap present
  BY <1>0, <1>1, <1>2, DevsAssumption
     DEF Visits, PortKept, PortBuilt, PortGone, Rebuilt, Rooted
<1> QED BY <1>0, <1>2, <1>3

LEMMA VisitMinor ==
  ASSUME NEW k \in Keys, IInv, Ensure(k)
  PROVE  /\ pc = "next" /\ k \in todo /\ MinorOf(k) \in Minors /\ want[k] \in Asks
         /\ \A j \in Keys : minors'[j] = IF j = k THEN MinorOf(k) ELSE minors[j]
         /\ \A j \in Keys \ {k} : minors[j] # MinorOf(k)
         /\ applied[k] # NoRule => minors[k] = MinorOf(k)
         /\ \A d \in ports : MinorOf(k) \in cls[d] =>
              applied[k] # NoRule /\ d \in {applied[k].port, Wan}
         /\ UNCHANGED <<present, merging, want, paced, calm, hurt, theirs, killed>>
<1> USE DEF IInv
<1>1. pc = "next" /\ k \in todo /\ AssignMinor(k)
  BY DEF Ensure, First
<1>2. /\ MinorOf(k) \in Minors /\ \A j \in Keys \ {k} : minors[j] # MinorOf(k)
      /\ minors' = [minors EXCEPT ![k] = MinorOf(k)]
      /\ minors[k] # NoMinor => MinorOf(k) = minors[k]
  BY <1>1, MinorChosen
<1>3. applied[k] # NoRule => minors[k] = MinorOf(k)
  BY <1>2 DEF Numbered
<1>4. \A d \in ports : MinorOf(k) \in cls[d] =>
              applied[k] # NoRule /\ d \in {applied[k].port, Wan}
  BY <1>1, <1>2 DEF ClassHasRecord
<1>5. UNCHANGED <<present, merging, want, paced, calm, hurt, theirs, killed>> /\ want[k] \in Asks
  BY <1>1 DEF Ensure, history, InHand, Wanted, TypeOK, TickOK
<1>6. \A j \in Keys : minors'[j] = IF j = k THEN MinorOf(k) ELSE minors[j]
  BY <1>2 DEF TypeOK, ShaperOK
<1> QED BY <1>1, <1>2, <1>3, <1>4, <1>5, <1>6

LEMMA ForgottenKeeps ==
  ASSUME IInv, NEW lost \in SUBSET Ports, applied' = Forgotten(lost), NEW j \in Keys
  PROVE  /\ applied'[j] = NoRule <=> applied[j] = NoRule
         /\ applied'[j].ask = applied[j].ask /\ applied'[j].haveUp = applied[j].haveUp
         /\ applied'[j].paced = applied[j].paced
         /\ applied[j].port \notin lost => applied'[j] = applied[j]
         /\ applied[j].port \in lost => applied'[j].port = NoPort
<1>1. applied'[j] = IF applied[j].port \in lost
             THEN [applied[j] EXCEPT !.port = NoPort, !.haveDown = FALSE] ELSE applied[j]
  BY DEF Forgotten
<1>2. CASE applied[j].port \in lost
  <2>1. applied[j] \in Rules
    BY <1>2, DevsAssumption DEF IInv, TypeOK, ShaperOK, NoRule
  <2>2. applied'[j] = [applied[j] EXCEPT !.port = NoPort, !.haveDown = FALSE]
    BY <1>1, <1>2
  <2>3. applied'[j] \in Rules
    BY <2>1, <2>2 DEF Rules
  <2> QED BY <1>2, <2>1, <2>2, <2>3, NoRuleApart DEF Rules
<1>3. CASE applied[j].port \notin lost
  BY <1>1, <1>3
<1> QED BY <1>2, <1>3

\* A write is about one class; ...
LEMMA WriteFrame ==
  ASSUME NEW d \in Devs, IInv, pc \in {"down", "up"}, NEW e, NEW s, NEW q, NEW h, NEW f,
         Write(d, minors[job.key], e, s, q, h, f)
  PROVE  /\ minors[job.key] \in Minors /\ minors[job.key] \in cls'[d]
         /\ \A c \in Devs, i \in Minors : c # d \/ i # minors[job.key] =>
              /\ i \in cls'[c] <=> i \in cls[c]
              /\ leaf'[c][i] = leaf[c][i] /\ fil'[c][i] = fil[c][i]
<1> USE DEF IInv
<1> DEFINE n == minors[job.key]
<1>1. n \in Minors
  BY DEF TypeOK, TickOK, ShaperOK, InHand
<1> HIDE DEF n
<1>2. cls' = [cls EXCEPT ![d] = @ \cup {n}]
  BY DEF Write, n
<1>3. \A c \in Devs, i \in Minors : c # d \/ i # n => leaf'[c][i] = leaf[c][i]
  <2>1. leaf' = leaf \/ \E v : leaf' = [leaf EXCEPT ![d][n] = v]
    BY DEF Write, LeafWritten, n
  <2> QED BY <1>1, <2>1 DEF TypeOK, KernelOK
<1>4. \A c \in Devs, i \in Minors : c # d \/ i # n => fil'[c][i] = fil[c][i]
  <2>1. fil' = fil \/ \E v : fil' = [fil EXCEPT ![d][n] = v]
    BY DEF Write, n
  <2> QED BY <1>1, <2>1 DEF TypeOK, KernelOK
<1> QED BY <1>1, <1>2, <1>3, <1>4 DEF TypeOK, KernelOK, n

\* ... and when what it takes to be there is, it leaves what was asked for.
LEMMA WriteHas ==
  ASSUME NEW d \in Devs, IInv, pc \in {"down", "up"}, NEW e, NEW s \in Shapes, NEW q \in BOOLEAN,
         NEW h \in BOOLEAN, NEW f \in BOOLEAN,
         Write(d, minors[job.key], e, s, q, h, f),
         h <=> leaf[d][minors[job.key]] # NoLeaf,
         f \/ fil[d][minors[job.key]] = want[job.key].addr
  PROVE  /\ minors[job.key] \in cls'[d]
         /\ leaf'[d][minors[job.key]] = LeafOf(s, q)
         /\ fil'[d][minors[job.key]] = want[job.key].addr
         /\ Have(d, minors[job.key], s, h) <=> leaf'[d][minors[job.key]] # NoLeaf
<1> USE DEF IInv
<1> DEFINE n == minors[job.key]
<1>1. n \in Minors
  BY DEF TypeOK, TickOK, ShaperOK, InHand
<1>2. LeafWritten(d, n, s, q, h) /\ fil' = IF f THEN [fil EXCEPT ![d][n] = want[job.key].addr] ELSE fil
  BY DEF Write
<1>3. h <=> leaf[d][n] # NoLeaf
  OBVIOUS
<1>4. f \/ fil[d][n] = want[job.key].addr
  OBVIOUS
<1>5. n \in cls'[d]
  BY WriteFrame
<1> HIDE DEF n
<1>6. fil'[d][n] = want[job.key].addr
  BY <1>1, <1>2, <1>4 DEF TypeOK, KernelOK
<1>7. leaf'[d][n] = LeafOf(s, q)
  BY <1>1, <1>2, <1>3 DEF LeafWritten, LeafOf, TypeOK, KernelOK
<1>8. Have(d, n, s, h) <=> s # Clean
  BY <1>3 DEF Have
<1>9. LeafOf(s, q) # NoLeaf <=> s # Clean
  BY DEF LeafOf, NoLeaf
<1> QED BY <1>5, <1>6, <1>7, <1>8, <1>9 DEF n

(***************************************************************************)
(* The uplink's invariant, step by step.                                   *)
(***************************************************************************)
LEMMA UpInit == Init => UpInv
<1> SUFFICES ASSUME Init PROVE UpInv
  OBVIOUS
<1> USE DEF Init
<1>1. GroInv
  BY ElsewhereAssumption DEF GroInv, Devs
<1>2. PacedInv /\ VisitedAsk
  BY DEF PacedInv, VisitedAsk, Undisturbed
<1>3. Based
  BY DEF Based, Bare, Unfiltered, Devs
<1>4. UpTrue /\ JobTrue
  BY DEF UpTrue, JobTrue
<1> QED BY <1>1, <1>2, <1>3, <1>4 DEF UpInv

LEMMA BasedStep == ASSUME IInv, Based, [Next]_vars PROVE Based'
<1> USE DEF IInv
<1>1. CASE BeginTick
  BY <1>1 DEF BeginTick, Based
<1>2. ASSUME NEW k \in Keys, Ensure(k) PROVE Based'
  <2>1. PICK down \in Ports \cup {NoPort}, fresh \in SUBSET {want[k].port},
           lost \in SUBSET {want[k].port} :
           /\ Visits(k, down, fresh, lost)
           /\ fresh \subseteq Ports \cap present /\ lost \subseteq Ports \cap ports
    BY <1>2, EnsureVisits
  <2>2. pc = "next" /\ pc' # "idle" /\ MinorOf(k) \in Minors
    BY <1>2, <2>1, VisitMinor DEF Visits
  <2>3. Wan \in ports' \cap root'
    BY <2>1, <2>2, DevsAssumption DEF Visits, Rebuilt, Based
  <2>4. Rebuilt(fresh, LeftPort(applied[k], down), MinorOf(k))
    BY <2>1 DEF Visits
  <2>5. ASSUME NEW d \in Devs, NEW i \in Minors, i \notin cls'[d]
        PROVE  leaf'[d][i] = NoLeaf /\ fil'[d][i] = NoAddr
    BY <2>2, <2>4, <2>5 DEF Rebuilt, Based, Bare, Unfiltered, TypeOK, KernelOK
  <2> QED BY <2>2, <2>3, <2>5 DEF Based
<1>3. ASSUME WriteDown \/ WriteUp PROVE Based'
  <2>1. /\ UNCHANGED <<ports, root>> /\ pc' # "idle" /\ pc \in {"down", "up"}
        /\ pc' # "stopped"
    BY <1>3 DEF WriteDown, WriteUp, shaper
  <2>2. \/ UNCHANGED <<cls, leaf, fil>>
        \/ \E d \in Devs : \E e, s, q, h, f : Write(d, minors[job.key], e, s, q, h, f)
    <3>1. CASE WriteDown
      BY <3>1 DEF WriteDown, Write, ClassAllowed, TypeOK, KernelOK
    <3>2. CASE WriteUp
      BY <3>2 DEF WriteUp, Devs
    <3> QED BY <1>3, <3>1, <3>2
  <2>3. CASE UNCHANGED <<cls, leaf, fil>>
    BY <2>1, <2>3 DEF Based
  <2>4. ASSUME NEW d \in Devs, NEW e, NEW s, NEW q, NEW h, NEW f,
               Write(d, minors[job.key], e, s, q, h, f)
        PROVE  Based'
    <3>1. /\ minors[job.key] \in Minors /\ minors[job.key] \in cls'[d]
          /\ \A c \in Devs, i \in Minors : c # d \/ i # minors[job.key] =>
              /\ i \in cls'[c] <=> i \in cls[c]
              /\ leaf'[c][i] = leaf[c][i] /\ fil'[c][i] = fil[c][i]
      BY <2>1, <2>4, WriteFrame
    <3>2. ASSUME NEW c \in Devs, NEW i \in Minors, i \notin cls'[c]
          PROVE  leaf'[c][i] = NoLeaf /\ fil'[c][i] = NoAddr
      BY <3>1, <3>2 DEF Based
    <3> QED BY <2>1, <3>2 DEF Based
  <2> QED BY <2>2, <2>3, <2>4
<1>4. ASSUME NEW k \in Keys, Depart(k) PROVE Based'
  <2> DEFINE n == minors[k]
             gone == PortsOf(k)
  <2>1. /\ pc = "next" /\ pc' = "next" /\ n \in Minors
        /\ UNCHANGED <<root, ports>>
        /\ cls' = [d \in Devs |-> cls[d] \ (IF d \in gone THEN {n} ELSE {})]
        /\ leaf' = [d \in Devs |-> IF d \in gone THEN [leaf[d] EXCEPT ![n] = NoLeaf] ELSE leaf[d]]
        /\ fil' = [d \in Devs |-> IF d \in gone THEN [fil[d] EXCEPT ![n] = NoAddr] ELSE fil[d]]
    BY <1>4 DEF Depart, Departed, Numbered, TypeOK, ShaperOK, tick
  <2> HIDE DEF n, gone
  <2>2. ASSUME NEW d \in Devs, NEW i \in Minors, i \notin cls'[d]
        PROVE  leaf'[d][i] = NoLeaf /\ fil'[d][i] = NoAddr
    BY <2>1, <2>2 DEF Based, TypeOK, KernelOK
  <2> QED BY <2>1, <2>2 DEF Based
<1>5. CASE EndTick
  BY <1>5 DEF EndTick, Based, kernel, shaper, Departed
<1>6. ASSUME NEW e \in Pluggable, Unplug(e) PROVE Based'
  <2>1. /\ e \in Devs /\ e # Wan /\ root' = root \ {e} /\ cls' = [cls EXCEPT ![e] = {}]
        /\ leaf' = [leaf EXCEPT ![e] = Bare] /\ fil' = [fil EXCEPT ![e] = Unfiltered]
        /\ calm' = 0 /\ UNCHANGED <<ports, pc, todo>>
    BY <1>6, PluggableAssumption, DevsAssumption DEF Unplug, Devs, tick
  <2>2. ASSUME NEW d \in Devs, NEW i \in Minors, i \notin cls'[d]
        PROVE  leaf'[d][i] = NoLeaf /\ fil'[d][i] = NoAddr
    BY <2>1, <2>2 DEF Based, Bare, Unfiltered, TypeOK, KernelOK
  <2> QED BY <2>1, <2>2 DEF Based
<1>7. ASSUME NEW e \in Pluggable, Plug(e) PROVE Based'
  BY <1>7 DEF Plug, Based, shaper, tick
<1>8. CASE Crash
  <2>1. /\ root' = root \cup {Wan} /\ cls' = [cls EXCEPT ![Wan] = {}]
        /\ leaf' = [leaf EXCEPT ![Wan] = Bare] /\ fil' = [fil EXCEPT ![Wan] = Unfiltered]
        /\ calm' = 0 /\ ports' = {Wan} /\ todo' = {}
    BY <1>8 DEF Crash
  <2>2. ASSUME NEW d \in Devs, NEW i \in Minors, i \notin cls'[d]
        PROVE  leaf'[d][i] = NoLeaf /\ fil'[d][i] = NoAddr
    BY <2>1, <2>2 DEF Based, Bare, Unfiltered, TypeOK, KernelOK
  <2> QED BY <2>1, <2>2 DEF Based
<1>9. CASE Teardown
  <2>1. /\ cls' = [d \in Devs |-> IF d \in TornDown THEN {} ELSE cls[d]]
        /\ leaf' = [d \in Devs |-> IF d \in TornDown THEN Bare ELSE leaf[d]]
        /\ fil' = [d \in Devs |-> IF d \in TornDown THEN Unfiltered ELSE fil[d]]
        /\ pc' = "stopped"
    BY <1>9 DEF Teardown
  <2> QED BY <2>1 DEF Based, Bare, Unfiltered, TypeOK, KernelOK
<1>10. CASE UNCHANGED vars
  BY <1>10 DEF vars, kernel, shaper, tick, history, Based, Departed
<1> QED BY <1>1, <1>2, <1>3, <1>4, <1>5, <1>6, <1>7, <1>8, <1>9, <1>10 DEF Next

\* What there will be under class m of d.
WillHave(d, m, shape, pace, addr, have) ==
  /\ m \in cls'[d] /\ leaf'[d][m] = LeafOf(shape, pace) /\ fil'[d][m] = addr
  /\ have <=> leaf'[d][m] # NoLeaf

UpOf(k) ==
  LET r == applied[k] IN Has(Wan, minors[k], r.ask.up, r.paced, r.ask.addr, r.haveUp)
WillUp(k) ==
  LET r == applied'[k] IN WillHave(Wan, minors'[k], r.ask.up, r.paced, r.ask.addr, r.haveUp)

LEMMA HaveBoolean ==
  ASSUME NEW r \in Rules \cup {NoRule}
  PROVE  r.haveUp \in BOOLEAN /\ r.haveDown \in BOOLEAN
<1>1. CASE r \in Rules
  BY <1>1 DEF Rules
<1>2. CASE r = NoRule
  BY <1>2 DEF NoRule
<1> QED BY <1>1, <1>2

LEMMA UpWill ==
  ASSUME pc' # "stopped" => \A k \in Keys \ hurt' : applied'[k] # NoRule => WillUp(k)
  PROVE  UpTrue'
BY DEF UpTrue, Has, WillUp, WillHave

\* A class nothing was done to is as it was.
LEMMA UpKept ==
  ASSUME NEW k \in Keys, UpOf(k), minors'[k] = minors[k],
         applied'[k].ask = applied[k].ask, applied'[k].paced = applied[k].paced,
         applied'[k].haveUp = applied[k].haveUp,
         minors[k] \in cls'[Wan] <=> minors[k] \in cls[Wan],
         leaf'[Wan][minors[k]] = leaf[Wan][minors[k]], fil'[Wan][minors[k]] = fil[Wan][minors[k]]
  PROVE  WillUp(k)
BY DEF UpOf, WillUp, Has, WillHave

\* What is visited next leaves the WAN port's classes alone.
LEMMA VisitSparesWan ==
  ASSUME NEW k \in Keys, IInv, Ensure(k)
  PROVE  cls'[Wan] = cls[Wan] /\ leaf'[Wan] = leaf[Wan] /\ fil'[Wan] = fil[Wan]
<1>1. PICK down \in Ports \cup {NoPort}, fresh \in SUBSET {want[k].port},
           lost \in SUBSET {want[k].port} :
           Visits(k, down, fresh, lost) /\ fresh \subseteq Ports \cap present
  BY EnsureVisits
<1>2. LeftPort(applied[k], down) \in Ports \cup {NoPort}
  BY RulesHavePorts DEF LeftPort, IInv
<1>3. Wan \notin fresh /\ Wan # LeftPort(applied[k], down) /\ Wan \in Devs
  BY <1>1, <1>2, DevsAssumption DEF Devs
<1> QED BY <1>1, <1>3 DEF Visits, Rebuilt

LEMMA UpTrueStep == ASSUME IInv, UpInv, [Next]_vars PROVE UpTrue'
<1> USE DEF IInv
<1>0. Wan \in Devs /\ \A k \in Keys : applied[k] # NoRule => minors[k] \in Minors
  BY DEF Devs, Numbered, TypeOK, ShaperOK
<1>1. pc # "stopped" => \A k \in Keys \ hurt : applied[k] # NoRule => UpOf(k)
  BY DEF UpInv, UpTrue, UpOf
<1>2. ASSUME UNCHANGED <<cls, leaf, fil, applied, minors, hurt>>, pc' # "stopped" => pc # "stopped"
      PROVE  UpTrue'
  BY <1>1, <1>2 DEF UpTrue, UpOf, Has
<1>3. CASE BeginTick
  BY <1>2, <1>3 DEF BeginTick
<1>4. CASE EndTick
  BY <1>2, <1>4 DEF EndTick, kernel, shaper, history
<1>5. CASE UNCHANGED vars
  BY <1>2, <1>5 DEF vars, kernel, shaper, tick, history
<1>6. ASSUME NEW e \in Pluggable, Plug(e) PROVE UpTrue'
  BY <1>2, <1>6 DEF Plug, shaper, tick
<1>7. CASE Crash
  BY <1>7 DEF Crash, UpTrue
<1>8. CASE Teardown
  BY <1>8 DEF Teardown, UpTrue
<1>9. ASSUME NEW e \in Pluggable, Unplug(e) PROVE UpTrue'
  <2>1. /\ e # Wan /\ cls' = [cls EXCEPT ![e] = {}]
        /\ leaf' = [leaf EXCEPT ![e] = Bare] /\ fil' = [fil EXCEPT ![e] = Unfiltered]
        /\ UNCHANGED <<applied, minors, hurt>> /\ pc # "stopped"
    BY <1>9, PluggableAssumption, DevsAssumption DEF Unplug, tick
  <2>2. cls'[Wan] = cls[Wan] /\ leaf'[Wan] = leaf[Wan] /\ fil'[Wan] = fil[Wan]
    BY <1>0, <2>1 DEF TypeOK, KernelOK
  <2> QED BY <1>1, <2>1, <2>2, UpWill, UpKept
<1>10. ASSUME NEW k \in Keys, Ensure(k) PROVE UpTrue'
  <2>1. PICK lost \in SUBSET Ports : applied' = Forgotten(lost)
    BY <1>10, EnsureVisits DEF Visits
  <2>2. ASSUME NEW j \in Keys \ hurt', applied'[j] # NoRule PROVE WillUp(j)
    <3>1. /\ applied[j] # NoRule /\ applied'[j].ask = applied[j].ask
          /\ applied'[j].haveUp = applied[j].haveUp /\ applied'[j].paced = applied[j].paced
      BY <2>1, <2>2, ForgottenKeeps
    <3>2. minors'[j] = minors[j] /\ j \notin hurt /\ pc # "stopped"
      BY <1>10, <2>2, <3>1, VisitMinor
    <3> QED BY <1>1, <1>10, <3>1, <3>2, UpKept, VisitSparesWan
  <2> QED BY <2>2, UpWill
<1>11. ASSUME NEW k \in Keys, Depart(k) PROVE UpTrue'
  <2> DEFINE n == minors[k]
             gone == PortsOf(k)
  <2>1. /\ pc = "next" /\ hurt' = hurt \ {k}
        /\ applied' = [applied EXCEPT ![k] = NoRule] /\ minors' = [minors EXCEPT ![k] = NoMinor]
        /\ cls' = [d \in Devs |-> cls[d] \ (IF d \in gone THEN {n} ELSE {})]
        /\ leaf' = [d \in Devs |-> IF d \in gone THEN [leaf[d] EXCEPT ![n] = NoLeaf] ELSE leaf[d]]
        /\ fil' = [d \in Devs |-> IF d \in gone THEN [fil[d] EXCEPT ![n] = NoAddr] ELSE fil[d]]
    BY <1>11 DEF Depart
  <2> HIDE DEF n, gone
  <2>2. ASSUME NEW j \in Keys \ hurt', applied'[j] # NoRule PROVE WillUp(j)
    <3>1. j # k /\ j \notin hurt /\ applied'[j] = applied[j] /\ minors'[j] = minors[j]
      BY <2>1, <2>2 DEF TypeOK, ShaperOK
    <3>2. minors[j] \in Minors /\ minors[j] # n
      BY <1>0, <2>2, <3>1, MinorsTyped DEF MinorsDistinct, n
    <3>3. /\ minors[j] \in cls'[Wan] <=> minors[j] \in cls[Wan]
          /\ leaf'[Wan][minors[j]] = leaf[Wan][minors[j]]
          /\ fil'[Wan][minors[j]] = fil[Wan][minors[j]]
      BY <1>0, <2>1, <3>2 DEF TypeOK, KernelOK
    <3> QED BY <1>1, <2>1, <2>2, <3>1, <3>3, UpKept
  <2> QED BY <2>2, UpWill
<1>12. CASE WriteDown
  <2>1. /\ pc = "down" /\ UNCHANGED <<minors, applied>> /\ hurt \subseteq hurt'
    BY <1>12 DEF WriteDown, Refused, shaper
  <2>2. ASSUME NEW j \in Keys \ hurt', applied'[j] # NoRule PROVE WillUp(j)
    <3>1. CASE UNCHANGED <<cls, leaf, fil>>
      BY <1>1, <2>1, <2>2, <3>1, UpKept
    <3>2. ASSUME NEW e, NEW s, NEW q, NEW h, NEW f, Write(job.port, minors[job.key], e, s, q, h, f)
          PROVE  WillUp(j)
      <4>1. job.port \in Devs /\ job.port # Wan
        BY <2>1, <3>2, DevsAssumption DEF Write, ClassAllowed, TypeOK, TickOK, KernelOK, Jobs, Devs
      <4>2. \A i \in Minors : /\ i \in cls'[Wan] <=> i \in cls[Wan]
                              /\ leaf'[Wan][i] = leaf[Wan][i] /\ fil'[Wan][i] = fil[Wan][i]
        BY <1>0, <2>1, <3>2, <4>1, WriteFrame
      <4> QED BY <1>0, <1>1, <2>1, <2>2, <4>2, UpKept
    <3> QED BY <1>12, <3>1, <3>2 DEF WriteDown
  <2> QED BY <2>2, UpWill
<1>13. CASE WriteUp
  <2> DEFINE k == job.key
             n == minors[k]
             pace == job.port \in paced
             had == job.prev.haveUp
             rule(have) == [ask |-> want[k], port |-> job.port, haveDown |-> job.haveDown,
                            haveUp |-> have, paced |-> pace]
  <2>1. /\ pc = "up" /\ minors' = minors /\ k \in Keys /\ n # NoMinor /\ want[k] \in Asks
        /\ job.prev \in Rules \cup {NoRule} /\ hurt \subseteq hurt' /\ n \in Minors
    <3>1. pc = "up" /\ minors' = minors /\ hurt \subseteq hurt'
      BY <1>13 DEF WriteUp, Refused
    <3> QED BY <3>1 DEF TypeOK, TickOK, ShaperOK, Jobs, InHand, Wanted
  <2>2. \/ /\ Write(Wan, n, Exists, want[k].up, pace, had, Refilter)
           /\ applied' = [applied EXCEPT ![k] = rule(Have(Wan, n, want[k].up, had))]
           /\ UNCHANGED hurt
        \/ /\ Refused(Wan, n, Exists) /\ applied' = [applied EXCEPT ![k] = rule(FALSE)]
           /\ UNCHANGED <<cls, leaf, fil>>
    BY <1>13 DEF WriteUp
  <2>3. /\ job.prev = NoRule <=> applied[k] = NoRule
        /\ applied[k].ask = job.prev.ask /\ applied[k].haveUp = job.prev.haveUp
        /\ applied[k] = NoRule => n \notin cls[Wan]
    BY <2>1 DEF UpInv, JobTrue
  <2>4. had \in BOOLEAN /\ pace \in BOOLEAN
    <3>1. had \in BOOLEAN
      BY <2>1, HaveBoolean
    <3>2. pace \in BOOLEAN
      OBVIOUS
    <3> QED BY <3>1, <3>2
  <2>5. Exists <=> applied[k] # NoRule
    BY <2>3 DEF Exists
  <2>6. ASSUME NEW j \in Keys \ hurt', j # k, applied'[j] # NoRule PROVE WillUp(j)
    <3>1. applied'[j] = applied[j] /\ j \notin hurt
      <4> HIDE DEF rule, n, pace, had
      <4> QED BY <2>1, <2>2, <2>6 DEF TypeOK, ShaperOK
    <3>2. minors[j] \in Minors /\ minors[j] # n
      BY <1>0, <2>1, <2>6, <3>1 DEF MinorsDistinct
    <3>3. /\ minors[j] \in cls'[Wan] <=> minors[j] \in cls[Wan]
          /\ leaf'[Wan][minors[j]] = leaf[Wan][minors[j]]
          /\ fil'[Wan][minors[j]] = fil[Wan][minors[j]]
      <4>1. CASE UNCHANGED <<cls, leaf, fil>>
        BY <4>1
      <4>2. CASE Write(Wan, n, Exists, want[k].up, pace, had, Refilter)
        BY <1>0, <2>1, <3>2, <4>2, WriteFrame
      <4> QED BY <2>2, <4>1, <4>2
    <3> QED BY <1>1, <2>1, <2>6, <3>1, <3>3, UpKept
  <2>7. ASSUME k \notin hurt' PROVE WillUp(k)
    <3>1. k \notin hurt
      BY <2>1, <2>7
    <3>2. Exists <=> n \in cls[Wan]
      BY <1>1, <2>1, <2>3, <2>5, <3>1 DEF UpOf, Has
    <3>3. Write(Wan, n, Exists, want[k].up, pace, had, Refilter)
      BY <2>1, <2>2, <2>7, <3>2 DEF Refused, ClassAllowed, UpInv, Based
    <3>4. had <=> leaf[Wan][n] # NoLeaf
      <4>1. CASE Exists
        BY <1>1, <2>1, <2>3, <2>5, <3>1, <4>1 DEF UpOf, Has
      <4>2. CASE ~Exists
        <5>1. leaf[Wan][n] = NoLeaf
          BY <1>0, <2>1, <3>2, <4>2 DEF UpInv, Based
        <5>2. job.prev = NoRule
          BY <4>2 DEF Exists
        <5> QED BY <5>1, <5>2 DEF NoRule
      <4> QED BY <4>1, <4>2
    <3>5. Refilter \/ fil[Wan][n] = want[k].addr
      <4>1. CASE Exists
        BY <1>1, <2>1, <2>3, <2>5, <3>1, <4>1 DEF UpOf, Has, Refilter
      <4> QED BY <4>1 DEF Refilter
    <3>6. want[k].up \in Shapes /\ Refilter \in BOOLEAN
      BY <2>1, AsksAssumption DEF Refilter, Exists
    <3>7. /\ n \in cls'[Wan] /\ leaf'[Wan][n] = LeafOf(want[k].up, pace)
          /\ fil'[Wan][n] = want[k].addr
          /\ Have(Wan, n, want[k].up, had) <=> leaf'[Wan][n] # NoLeaf
      <4> HIDE DEF pace, had
      <4> QED BY <1>0, <2>1, <2>4, <3>3, <3>4, <3>5, <3>6, WriteHas
    <3>8. applied'[k] = rule(Have(Wan, n, want[k].up, had))
      <4>1. ~Refused(Wan, n, Exists)
        BY <2>1, <2>7, <3>2 DEF Refused, ClassAllowed, UpInv, Based
      <4> HIDE DEF rule
      <4> QED BY <2>1, <2>2, <4>1 DEF TypeOK, ShaperOK
    <3> QED BY <2>1, <3>7, <3>8 DEF WillUp, WillHave
  <2> QED BY <2>6, <2>7, UpWill
<1> QED BY <1>3, <1>4, <1>5, <1>6, <1>7, <1>8, <1>9, <1>10, <1>11, <1>12, <1>13 DEF Next

LEMMA JobTrueStep == ASSUME IInv, UpInv, [Next]_vars PROVE JobTrue'
<1> USE DEF IInv
<1>1. ASSUME NEW k \in Keys, Ensure(k) PROVE JobTrue'
  <2>1. PICK down \in Ports \cup {NoPort}, fresh \in SUBSET {want[k].port},
           lost \in SUBSET {want[k].port} :
           Visits(k, down, fresh, lost) /\ lost \subseteq Ports \cap ports
    BY <1>1, EnsureVisits
  <2>2. CASE pc' \notin {"down", "up"}
    BY <2>2 DEF JobTrue
  <2>3. CASE pc' \in {"down", "up"}
    <3>1. job' = [key |-> k, prev |-> applied[k], port |-> down, haveDown |-> FALSE]
      BY <2>1, <2>3 DEF Visits
    <3>2. /\ applied'[k] = NoRule <=> applied[k] = NoRule
          /\ applied'[k].ask = applied[k].ask /\ applied'[k].haveUp = applied[k].haveUp
          /\ applied'[k].paced = applied[k].paced
      BY <2>1, ForgottenKeeps DEF Visits
    <3>3. minors'[k] = MinorOf(k) /\ cls'[Wan] = cls[Wan] /\ pc = "next"
      BY <1>1, VisitMinor, VisitSparesWan
    <3>4. applied[k] = NoRule => MinorOf(k) \notin cls[Wan]
      BY <1>1, <3>3, VisitMinor DEF UpInv, Based
    <3>5. job'.key = k /\ job'.prev = applied[k]
      BY <3>1
    <3> QED BY <3>2, <3>3, <3>4, <3>5 DEF JobTrue
  <2> QED BY <2>2, <2>3
<1>2. CASE WriteDown
  <2>1. /\ pc = "down" /\ UNCHANGED <<minors, applied>>
        /\ job'.key = job.key /\ job'.prev = job.prev /\ minors[job.key] \in Minors
    BY <1>2 DEF WriteDown, shaper, TypeOK, TickOK, ShaperOK, Jobs, InHand
  <2>2. minors[job.key] \in cls'[Wan] => minors[job.key] \in cls[Wan]
    <3>1. CASE UNCHANGED cls
      BY <3>1
    <3>2. ASSUME NEW e, NEW s, NEW q, NEW h, NEW f, Write(job.port, minors[job.key], e, s, q, h, f)
          PROVE  minors[job.key] \in cls'[Wan] => minors[job.key] \in cls[Wan]
      <4>1. job.port \in Devs /\ job.port # Wan /\ Wan \in Devs
        BY <2>1, <3>2, DevsAssumption DEF Write, ClassAllowed, TypeOK, TickOK, KernelOK, Jobs, Devs
      <4> QED BY <2>1, <3>2, <4>1, WriteFrame
    <3> QED BY <1>2, <3>1, <3>2 DEF WriteDown
  <2> QED BY <2>1, <2>2 DEF JobTrue, UpInv
<1>3. ASSUME pc' \notin {"down", "up"} PROVE JobTrue'
  BY <1>3 DEF JobTrue
<1>4. CASE BeginTick \/ WriteUp \/ EndTick \/ Crash \/ Teardown \/ (\E k \in Keys : Depart(k))
  BY <1>3, <1>4 DEF BeginTick, WriteUp, EndTick, Crash, Teardown, Depart, tick
<1>5. ASSUME NEW e \in Pluggable, Unplug(e) PROVE JobTrue'
  <2>1. /\ cls' = [cls EXCEPT ![e] = {}] /\ e # Wan
        /\ UNCHANGED <<applied, minors, job, pc>>
    BY <1>5, PluggableAssumption, DevsAssumption DEF Unplug, tick
  <2>2. cls'[Wan] = cls[Wan]
    BY <2>1 DEF TypeOK, KernelOK
  <2> QED BY <2>1, <2>2 DEF JobTrue, UpInv
<1>6. ASSUME NEW e \in Pluggable, Plug(e) PROVE JobTrue'
  BY <1>6 DEF Plug, JobTrue, UpInv, tick, shaper
<1>7. CASE UNCHANGED vars
  BY <1>7 DEF vars, kernel, shaper, tick, JobTrue, UpInv
<1> QED BY <1>1, <1>2, <1>4, <1>5, <1>6, <1>7 DEF Next

\* What is recorded of a key that has been visited is what is wanted for it.
Recorded(k) ==
  /\ applied[k] # NoRule /\ SameShapes(applied[k].ask, want[k])
  /\ applied[k].paced <=> PortFor(k) \in paced

LEMMA VisitedStep == ASSUME IInv, UpInv, [Next]_vars PROVE VisitedAsk'
<1> USE DEF IInv
<1>0. /\ Undisturbed => \A k \in Visited : Recorded(k)
      /\ Undisturbed /\ pc \in {"down", "up"} => job.port = PortFor(job.key)
  BY DEF UpInv, VisitedAsk, Recorded
<1>1. CASE BeginTick
  <2>1. pc' = "next" /\ Visited' = {}
    BY <1>1 DEF BeginTick, Visited, Wanted
  <2> QED BY <2>1 DEF VisitedAsk
<1>2. CASE Crash \/ Teardown \/ (\E e \in Pluggable : Unplug(e) \/ Plug(e))
  BY <1>2 DEF Crash, Teardown, Unplug, Plug, VisitedAsk, Undisturbed
<1>3. ASSUME UNCHANGED <<applied, want, paced, present, todo, job, calm>>,
             pc' # "stopped" => pc # "stopped", pc' \in {"down", "up"} => pc \in {"down", "up"}
      PROVE  VisitedAsk'
  <2>1. UNCHANGED Visited /\ \A k : PortFor(k)' = PortFor(k)
    BY <1>3 DEF Visited, Wanted, PortFor
  <2>2. PortFor(job.key)' = PortFor(job.key)
    BY <1>3 DEF PortFor
  <2> QED BY <1>0, <1>3, <2>1, <2>2 DEF VisitedAsk, Undisturbed, Recorded, PortFor
<1>4. CASE EndTick
  BY <1>3, <1>4 DEF EndTick, kernel, shaper, history
<1>5. CASE UNCHANGED vars
  BY <1>3, <1>5 DEF vars, kernel, shaper, tick, history
<1>6. ASSUME NEW k \in Keys, Depart(k) PROVE VisitedAsk'
  <2>1. /\ UNCHANGED <<want, paced, present, todo, calm, pc>> /\ pc = "next"
        /\ applied' = [applied EXCEPT ![k] = NoRule] /\ want[k] = Unwanted
    BY <1>6 DEF Depart, tick, Departed
  <2>2. Visited' = Visited /\ k \notin Visited /\ Visited \subseteq Keys
    BY <2>1 DEF Visited, Wanted
  <2>3. \A j \in Visited : applied'[j] = applied[j]
    BY <2>1, <2>2 DEF TypeOK, ShaperOK
  <2> QED BY <1>0, <2>1, <2>2, <2>3 DEF VisitedAsk, Undisturbed, Recorded, PortFor
<1>7. CASE WriteDown
  <2>1. /\ UNCHANGED <<applied, want, paced, present, todo, calm>> /\ pc = "down"
        /\ job'.key = job.key /\ job'.port = job.port
    BY <1>7 DEF WriteDown, shaper, TypeOK, TickOK, Jobs
  <2>2. Visited' = Visited
    BY <2>1 DEF Visited, Wanted
  <2> QED BY <1>0, <2>1, <2>2 DEF VisitedAsk, Undisturbed, Recorded, PortFor
<1>8. CASE WriteUp
  <2> DEFINE k == job.key
             pace == job.port \in paced
             rule(have) == [ask |-> want[k], port |-> job.port, haveDown |-> job.haveDown,
                            haveUp |-> have, paced |-> pace]
  <2>1. /\ UNCHANGED <<want, paced, present, calm>> /\ pc = "up" /\ pc' = "next"
        /\ todo' = todo \ {k} /\ k \in Keys /\ k \in todo /\ want[k] \in Asks
    <3>1. /\ UNCHANGED <<want, paced, present, calm>> /\ pc = "up" /\ pc' = "next"
          /\ todo' = todo \ {k}
      BY <1>8 DEF WriteUp
    <3> QED BY <3>1 DEF TypeOK, TickOK, Jobs, InHand, Wanted
  <2>2. \E have : applied' = [applied EXCEPT ![k] = rule(have)]
    BY <1>8, Zenon DEF WriteUp
  <2>3. Visited' = Visited \cup {k} /\ Visited \subseteq Keys
    BY <2>1 DEF Visited, Wanted, InHand
  <2>4. \A j \in Keys : j # k => applied'[j] = applied[j]
    <3> HIDE DEF rule
    <3> QED BY <2>1, <2>2 DEF TypeOK, ShaperOK
  <2>5. applied'[k].ask = want[k] /\ applied'[k].paced = pace
    <3>1. \E have : applied'[k] = rule(have)
      <4> HIDE DEF rule
      <4> QED BY <2>1, <2>2 DEF TypeOK, ShaperOK
    <3> HIDE DEF pace
    <3> QED BY <3>1
  <2>6. applied'[k] # NoRule
    BY <2>1, <2>5, AsksAssumption DEF NoRule
  <2>7. Undisturbed' => Undisturbed
    BY <2>1 DEF Undisturbed
  <2>8. \A j : PortFor(j)' = PortFor(j)
    BY <2>1 DEF PortFor
  <2>9. ASSUME Undisturbed', NEW j \in Visited' PROVE Recorded(j)'
    <3>1. CASE j = k
      <4>1. job.port = PortFor(k)
        BY <1>0, <2>1, <2>7, <2>9
      <4>2. PortFor(j)' = PortFor(k)
        BY <2>1, <3>1 DEF PortFor
      <4> QED BY <2>1, <2>5, <2>6, <3>1, <4>1, <4>2 DEF Recorded, SameShapes
    <3>2. CASE j # k
      <4>1. Recorded(j) /\ applied'[j] = applied[j]
        BY <1>0, <2>3, <2>4, <2>7, <2>9, <3>2
      <4> QED BY <2>1, <4>1 DEF Recorded, SameShapes, PortFor
    <3> QED BY <3>1, <3>2
  <2> QED BY <2>1, <2>9 DEF VisitedAsk, Recorded
<1>9. ASSUME NEW k \in Keys, Ensure(k) PROVE VisitedAsk'
  <2>1. PICK down \in Ports \cup {NoPort}, fresh \in SUBSET {want[k].port},
           lost \in SUBSET {want[k].port} :
           /\ Visits(k, down, fresh, lost)
           /\ lost \subseteq Ports \cap ports /\ down = PortFor(k)
    BY <1>9, EnsureVisits
  <2>2. /\ UNCHANGED <<want, paced, present, calm>> /\ pc = "next" /\ k \in todo
        /\ want[k] \in Asks
    BY <1>9, VisitMinor
  <2>3. Undisturbed' => Undisturbed
    BY <2>2 DEF Undisturbed
  <2>4. ASSUME NEW j \in Keys
        PROVE  /\ applied'[j] = NoRule <=> applied[j] = NoRule
               /\ applied'[j].ask = applied[j].ask /\ applied'[j].paced = applied[j].paced
    BY <2>1, ForgottenKeeps DEF Visits
  <2>5. ASSUME NEW j \in Keys, Recorded(j) PROVE Recorded(j)'
    BY <2>2, <2>4, <2>5 DEF Recorded, SameShapes, PortFor
  <2>6. CASE Unchanged(applied[k], want[k], down)
    <3>1. pc' = "next" /\ todo' = todo \ {k}
      BY <2>1, <2>6 DEF Visits
    <3>2. Visited' = Visited \cup {k} /\ Visited \subseteq Keys
      BY <2>2, <3>1 DEF Visited, Wanted, InHand
    <3>3. applied[k].paced <=> down \in paced
      BY <2>6, Zenon DEF Unchanged
    <3>4. Recorded(k)
      BY <2>1, <2>6, <3>3 DEF Unchanged, Recorded, SameShapes
    <3> QED BY <1>0, <2>3, <2>5, <3>1, <3>2, <3>4 DEF VisitedAsk, Recorded
  <2>7. CASE ~Unchanged(applied[k], want[k], down)
    <3>1. /\ job' = [key |-> k, prev |-> applied[k], port |-> down, haveDown |-> FALSE]
          /\ todo' = todo
      BY <2>1, <2>7 DEF Visits
    <3>2. Visited' = Visited /\ Visited \subseteq Keys
      BY <2>2, <3>1 DEF Visited, Wanted
    <3>3. job'.port = PortFor(job.key)'
      BY <2>1, <2>2, <3>1 DEF PortFor
    <3> QED BY <1>0, <2>3, <2>5, <3>2, <3>3 DEF VisitedAsk, Recorded
  <2> QED BY <2>6, <2>7
<1> QED BY <1>1, <1>2, <1>4, <1>5, <1>6, <1>7, <1>8, <1>9 DEF Next

LEMMA UpNext == IInv /\ UpInv /\ [Next]_vars => UpInv'
BY GroStep, PacedStep, BasedStep, UpTrueStep, JobTrueStep, VisitedStep DEF UpInv

\* In every behaviour, what the records say of the uplink and of GRO is true.
THEOREM UpInvariance == Spec => []UpInv
BY UpInit, UpNext, Invariance, PTL DEF Spec

\* The uplink of a settled tick.
LEMMA SettledUp ==
  ASSUME IInv, UpInv, Settled
  PROVE  /\ Undisturbed /\ Visited = Wanted(want) /\ Departed = {}
         /\ \A k \in Wanted(want) : applied[k] # NoRule /\ SameShapes(applied[k].ask, want[k])
         /\ \A k \in Wanted(want) : applied[k].paced <=> PortFor(k) \in paced
         /\ \A k \in Wanted(want) \ hurt : UpOf(k)
<1>1. Undisturbed /\ calm >= 1 /\ pc = "idle"
  BY BoundsAssumption DEF Settled, Undisturbed
<1>2. Visited = Wanted(want) /\ Departed = {}
  BY <1>1 DEF UpInv, Based, Visited
<1>3. /\ \A k \in Wanted(want) : applied[k] # NoRule /\ SameShapes(applied[k].ask, want[k])
      /\ \A k \in Wanted(want) : applied[k].paced <=> PortFor(k) \in paced
  BY <1>1, <1>2 DEF UpInv, VisitedAsk
<1>4. \A k \in Wanted(want) \ hurt : UpOf(k)
  BY <1>1, <1>3 DEF UpInv, UpTrue, UpOf, Wanted
<1> QED BY <1>1, <1>2, <1>3, <1>4

(***************************************************************************)
(* The downlink's invariant, step by step, where no interface is replaced  *)
(* unnoticed.                                                              *)
(***************************************************************************)

DownOf(k) ==
  LET r == applied[k] IN Has(r.port, minors[k], r.ask.down, FALSE, r.ask.addr, r.haveDown)
WillDown(k) ==
  LET r == applied'[k] IN
  WillHave(r.port, minors'[k], r.ask.down, FALSE, r.ask.addr, r.haveDown)

LEMMA DownWill ==
  ASSUME pc' # "stopped" =>
           \A k \in Keys \ hurt' : applied'[k].port \in present' /\ ~Busy(k)' => WillDown(k)
  PROVE  DownTrue'
BY DEF DownTrue, Has, WillDown, WillHave

LEMMA DownKept ==
  ASSUME NEW k \in Keys, DownOf(k), minors'[k] = minors[k], applied'[k] = applied[k],
         minors[k] \in cls'[applied[k].port] <=> minors[k] \in cls[applied[k].port],
         leaf'[applied[k].port][minors[k]] = leaf[applied[k].port][minors[k]],
         fil'[applied[k].port][minors[k]] = fil[applied[k].port][minors[k]]
  PROVE  WillDown(k)
BY DEF DownOf, WillDown, Has, WillHave

\* A key recorded on an interface that is there is one with a record, and on a port.
LEMMA OnPort ==
  ASSUME IInv, NEW k \in Keys, applied[k].port \in present
  PROVE  applied[k] # NoRule /\ applied[k].port \in Ports /\ minors[k] \in Minors
<1>1. applied[k].port \in Ports
  BY RulesHavePorts, DevsAssumption DEF IInv, TypeOK, KernelOK, Devs
<1>2. applied[k] # NoRule
  BY <1>1, DevsAssumption DEF NoRule
<1>3. minors[k] \in Minors
  BY <1>2 DEF IInv, TypeOK, ShaperOK, Numbered
<1> QED BY <1>1, <1>2, <1>3

LEMMA DownInit == Init => DownInv
<1> SUFFICES ASSUME Init PROVE DownInv
  OBVIOUS
<1>1. \A k \in Keys : applied[k].port \notin present
  BY DevsAssumption DEF Init, Devs, NoRule
<1>2. pc = "idle" /\ calm = 0
  BY DEF Init
<1>3. Placed /\ DownTrue
  BY <1>1, <1>2 DEF Placed, DownTrue
<1>4. JobDown /\ VisitedPort
  BY <1>2 DEF JobDown, VisitedPort, Undisturbed
<1> QED BY <1>3, <1>4 DEF DownInv

LEMMA PlacedStep == ASSUME ~Unnoticed, IInv, Placed, [Next]_vars PROVE Placed'
<1> USE DEF IInv
<1>0. NoPort \notin present /\ NoRule.port = NoPort
  BY DevsAssumption DEF TypeOK, KernelOK, Devs, NoRule
<1>1. ASSUME UNCHANGED <<present, ports, root, applied, job>>,
             pc' # "stopped" => pc # "stopped", pc' \in {"down", "up"} => pc \in {"down", "up"}
      PROVE  Placed'
  BY <1>1 DEF Placed
<1>2. CASE BeginTick
  BY <1>1, <1>2 DEF BeginTick
<1>3. CASE EndTick
  BY <1>1, <1>3 DEF EndTick, kernel, shaper
<1>4. CASE UNCHANGED vars
  BY <1>1, <1>4 DEF vars, kernel, shaper, tick
<1>5. CASE WriteDown
  <2>1. /\ UNCHANGED <<present, ports, root, applied>> /\ job'.port = job.port /\ pc = "down"
    BY <1>5 DEF WriteDown, shaper, TypeOK, TickOK, Jobs
  <2> QED BY <2>1 DEF Placed
<1>6. CASE WriteUp
  <2> DEFINE k == job.key
             pace == job.port \in paced
             rule(have) == [ask |-> want[k], port |-> job.port, haveDown |-> job.haveDown,
                            haveUp |-> have, paced |-> pace]
  <2>1. UNCHANGED <<present, ports, root>> /\ pc' = "next" /\ pc = "up"
    BY <1>6 DEF WriteUp
  <2>2. \E have : applied' = [applied EXCEPT ![k] = rule(have)]
    BY <1>6, Zenon DEF WriteUp
  <2>3. \A have : rule(have).port = job.port
    OBVIOUS
  <2>4. \A j \in Keys : applied'[j].port = applied[j].port \/ applied'[j].port = job.port
    <3> HIDE DEF rule, k
    <3> QED BY <2>2, <2>3 DEF TypeOK, ShaperOK
  <2> QED BY <2>1, <2>4 DEF Placed
<1>7. ASSUME NEW k \in Keys, Ensure(k) PROVE Placed'
  <2>1. PICK down \in Ports \cup {NoPort}, fresh \in SUBSET {want[k].port},
           lost \in SUBSET {want[k].port} :
           /\ Visits(k, down, fresh, lost)
           /\ fresh \subseteq Ports \cap present /\ lost \subseteq Ports \cap ports
           /\ lost \cap root = {} /\ down = PortFor(k)
           /\ down \in Ports => down \in (ports' \cap root') \cap present
    BY <1>7, EnsureVisits
  <2>2. /\ ports' = (ports \ lost) \cup fresh /\ root' = root \cup fresh
        /\ applied' = Forgotten(lost)
    BY <2>1 DEF Visits, Rebuilt
  <2>3. present' = present /\ pc = "next"
    BY <1>7, VisitMinor
  <2>4. ASSUME NEW j \in Keys, applied'[j].port \in present'
        PROVE  applied'[j].port \in ports' \cap root'
    <3>1. applied[j].port \notin lost /\ applied'[j] = applied[j]
      BY <1>0, <2>1, <2>2, <2>3, <2>4, ForgottenKeeps
    <3> QED BY <2>2, <2>3, <2>4, <3>1 DEF Placed
  <2>5. pc' \in {"down", "up"} => job'.port = down
    BY <2>1 DEF Visits
  <2> QED BY <1>0, <2>1, <2>3, <2>4, <2>5 DEF Placed
<1>8. ASSUME NEW k \in Keys, Depart(k) PROVE Placed'
  <2>1. /\ UNCHANGED <<present, ports, root, pc>> /\ pc = "next"
        /\ applied' = [applied EXCEPT ![k] = NoRule]
    BY <1>8 DEF Depart, tick
  <2>2. \A j \in Keys : applied'[j].port = applied[j].port \/ applied'[j].port = NoPort
    BY <1>0, <2>1 DEF TypeOK, ShaperOK
  <2> QED BY <1>0, <2>1, <2>2 DEF Placed
<1>9. ASSUME NEW e \in Pluggable, Unplug(e) PROVE Placed'
  <2>1. /\ present' = present \ {e} /\ root' = root \ {e} /\ pc # "stopped"
        /\ UNCHANGED <<ports, applied, job, pc>>
    BY <1>9 DEF Unplug, tick
  <2> QED BY <2>1 DEF Placed
<1>10. ASSUME NEW e \in Pluggable, Plug(e) PROVE Placed'
  <2>1. /\ present' = present \cup {e} /\ pc = "idle" /\ \A k \in Keys : applied[k].port # e
        /\ UNCHANGED <<root, ports, applied, pc>>
    BY <1>10 DEF Plug, shaper, tick
  <2> QED BY <2>1 DEF Placed
<1>11. CASE Crash
  BY <1>0, <1>11 DEF Crash, Placed
<1>12. CASE Teardown
  BY <1>12 DEF Teardown, Placed
<1> QED BY <1>2, <1>3, <1>4, <1>5, <1>6, <1>7, <1>8, <1>9, <1>10, <1>11, <1>12 DEF Next

\* A visit leaves every class of another key alone, and its own where it is recorded to be.
LEMMA VisitSpares ==
  ASSUME NEW k \in Keys, IInv, Placed, Ensure(k), NEW d \in present \cap ports \cap root,
         NEW i \in Minors, i = MinorOf(k) => PortFor(k) = d /\ applied[k].port = d
  PROVE  /\ i \in cls'[d] <=> i \in cls[d]
         /\ leaf'[d][i] = leaf[d][i] /\ fil'[d][i] = fil[d][i]
<1> USE DEF IInv
<1>1. PICK down \in Ports \cup {NoPort}, fresh \in SUBSET {want[k].port},
           lost \in SUBSET {want[k].port} :
           Visits(k, down, fresh, lost) /\ fresh \subseteq Ports \cap present /\ down = PortFor(k)
  BY EnsureVisits
<1>2. d \in Devs /\ d # NoPort
  BY DevsAssumption DEF TypeOK, KernelOK, Devs
<1>3. d \notin fresh
  BY <1>1 DEF Visits, PortKept, PortBuilt, PortGone
<1>4. i = MinorOf(k) => d # LeftPort(applied[k], down)
  BY <1>1, <1>2 DEF LeftPort
<1>5. MinorOf(k) \in Minors
  BY VisitMinor
<1>6. Rebuilt(fresh, LeftPort(applied[k], down), MinorOf(k))
  BY <1>1 DEF Visits
<1>7. /\ cls'[d] = cls[d] \ (IF d = LeftPort(applied[k], down) THEN {MinorOf(k)} ELSE {})
      /\ leaf'[d] = IF d = LeftPort(applied[k], down)
                      THEN [leaf[d] EXCEPT ![MinorOf(k)] = NoLeaf] ELSE leaf[d]
      /\ fil'[d] = IF d = LeftPort(applied[k], down)
                      THEN [fil[d] EXCEPT ![MinorOf(k)] = NoAddr] ELSE fil[d]
  BY <1>2, <1>3, <1>6 DEF Rebuilt
<1> QED BY <1>2, <1>4, <1>5, <1>7 DEF TypeOK, KernelOK

LEMMA VisitedPortStep == ASSUME IInv, UpInv, Placed, VisitedPort, [Next]_vars PROVE VisitedPort'
<1> USE DEF IInv
<1>0. Undisturbed => \A k \in Visited : applied[k].port = PortFor(k)
  BY DEF VisitedPort
<1>1. CASE BeginTick
  <2>1. Visited' = {}
    BY <1>1 DEF BeginTick, Visited, Wanted
  <2> QED BY <2>1 DEF VisitedPort
<1>2. CASE Crash \/ Teardown \/ (\E e \in Pluggable : Unplug(e) \/ Plug(e))
  BY <1>2 DEF Crash, Teardown, Unplug, Plug, VisitedPort, Undisturbed
<1>3. ASSUME UNCHANGED <<applied, want, present, todo, calm>>, pc' # "stopped" => pc # "stopped"
      PROVE  VisitedPort'
  BY <1>3 DEF VisitedPort, Undisturbed, Visited, Wanted, PortFor
<1>4. CASE EndTick \/ WriteDown \/ UNCHANGED vars
  BY <1>3, <1>4 DEF EndTick, WriteDown, vars, kernel, shaper, tick, history
<1>5. ASSUME NEW k \in Keys, Depart(k) PROVE VisitedPort'
  <2>1. /\ UNCHANGED <<want, present, todo, calm, pc>> /\ pc = "next"
        /\ applied' = [applied EXCEPT ![k] = NoRule] /\ want[k] = Unwanted
    BY <1>5 DEF Depart, tick, Departed
  <2>2. Visited' = Visited /\ k \notin Visited /\ Visited \subseteq Keys
    BY <2>1 DEF Visited, Wanted
  <2>3. \A j \in Visited : applied'[j] = applied[j]
    BY <2>1, <2>2 DEF TypeOK, ShaperOK
  <2> QED BY <1>0, <2>1, <2>2, <2>3 DEF VisitedPort, Undisturbed, PortFor
<1>6. CASE WriteUp
  <2> DEFINE k == job.key
             pace == job.port \in paced
             rule(have) == [ask |-> want[k], port |-> job.port, haveDown |-> job.haveDown,
                            haveUp |-> have, paced |-> pace]
  <2>1. /\ UNCHANGED <<want, present, calm>> /\ pc = "up" /\ pc' = "next"
        /\ todo' = todo \ {k} /\ k \in Keys
    <3>1. /\ UNCHANGED <<want, present, calm>> /\ pc = "up" /\ pc' = "next" /\ todo' = todo \ {k}
      BY <1>6 DEF WriteUp
    <3> QED BY <3>1 DEF TypeOK, TickOK, Jobs
  <2>2. \E have : applied' = [applied EXCEPT ![k] = rule(have)]
    BY <1>6, Zenon DEF WriteUp
  <2>3. \A have : rule(have).port = job.port
    OBVIOUS
  <2>4. /\ applied'[k].port = job.port
        /\ \A j \in Keys : j # k => applied'[j] = applied[j]
    <3> HIDE DEF rule, k
    <3> QED BY <2>1, <2>2, <2>3 DEF TypeOK, ShaperOK
  <2>5. Visited' \subseteq Visited \cup {k} /\ Visited \subseteq Keys
    BY <2>1 DEF Visited, Wanted
  <2>6. \A j : PortFor(j)' = PortFor(j)
    BY <2>1 DEF PortFor
  <2>7. ASSUME Undisturbed' PROVE Undisturbed /\ job.port = PortFor(k)
    BY <2>1, <2>7 DEF Undisturbed, UpInv, VisitedAsk
  <2> HIDE DEF k, rule
  <2>8. ASSUME Undisturbed', NEW j \in Visited' PROVE applied'[j].port = PortFor(j)
    BY <1>0, <2>4, <2>5, <2>7, <2>8
  <2> QED BY <2>6, <2>8 DEF VisitedPort
<1>7. ASSUME NEW k \in Keys, Ensure(k) PROVE VisitedPort'
  <2>1. PICK down \in Ports \cup {NoPort}, fresh \in SUBSET {want[k].port},
           lost \in SUBSET {want[k].port} :
           /\ Visits(k, down, fresh, lost) /\ lost \subseteq Ports \cap ports
           /\ lost \cap root = {} /\ down = PortFor(k)
    BY <1>7, EnsureVisits
  <2>2. /\ UNCHANGED <<want, present, calm>> /\ pc = "next"
    BY <1>7, VisitMinor
  <2>3. ASSUME NEW j \in Keys, applied[j].port = PortFor(j) PROVE applied'[j].port = PortFor(j)
    <3>1. applied[j].port \notin lost
      <4>1. CASE PortFor(j) = NoPort
        BY <2>1, <2>3, <4>1, DevsAssumption
      <4>2. CASE PortFor(j) # NoPort
        BY <2>1, <2>2, <2>3, <4>2 DEF PortFor, Placed
      <4> QED BY <4>1, <4>2
    <3> QED BY <2>1, <2>3, <3>1, ForgottenKeeps DEF Visits
  <2>4. Visited' \subseteq Visited \cup {k} /\ Visited \subseteq Keys
    BY <2>1, <2>2 DEF Visited, Wanted, Visits
  <2>5. k \in Visited' => k \in Visited \/ applied[k].port = PortFor(k)
    BY <2>1, <2>2 DEF Visited, Wanted, Visits, Unchanged
  <2>6. \A j : PortFor(j)' = PortFor(j)
    BY <2>2 DEF PortFor
  <2>7. Undisturbed' => Undisturbed
    BY <2>2 DEF Undisturbed
  <2>8. ASSUME Undisturbed', NEW j \in Visited' PROVE applied'[j].port = PortFor(j)
    BY <1>0, <2>3, <2>4, <2>5, <2>7, <2>8
  <2> QED BY <2>6, <2>8 DEF VisitedPort
<1> QED BY <1>1, <1>2, <1>4, <1>5, <1>6, <1>7 DEF Next

LEMMA DownTrueStep == ASSUME ~Unnoticed, IInv, UpInv, DownInv, [Next]_vars PROVE DownTrue'
<1> USE DEF IInv, DownInv
<1>0. NoPort \notin present /\ NoRule.port = NoPort /\ Wan \in Devs
  BY DevsAssumption DEF TypeOK, KernelOK, Devs, NoRule
<1>1. pc # "stopped" =>
        \A k \in Keys \ hurt : applied[k].port \in present /\ ~Busy(k) => DownOf(k)
  BY DEF DownTrue, DownOf
<1>2. ASSUME UNCHANGED <<present, cls, leaf, fil, applied, minors, hurt>>,
             pc' # "stopped" => pc # "stopped" /\ \A k \in Keys : Busy(k) => Busy(k)'
      PROVE  DownTrue'
  BY <1>1, <1>2 DEF DownTrue, DownOf, Has
<1>3. CASE BeginTick
  BY <1>2, <1>3 DEF BeginTick, Busy
<1>4. CASE EndTick
  BY <1>2, <1>4 DEF EndTick, kernel, shaper, history, Busy
<1>5. CASE UNCHANGED vars
  BY <1>2, <1>5 DEF vars, kernel, shaper, tick, history, Busy
<1>6. ASSUME NEW e \in Pluggable, Plug(e) PROVE DownTrue'
  <2>1. /\ present' = present \cup {e} /\ pc = "idle" /\ \A k \in Keys : applied[k].port # e
        /\ UNCHANGED <<cls, leaf, fil, applied, minors, hurt>>
    BY <1>6 DEF Plug, shaper
  <2> QED BY <1>1, <2>1 DEF DownTrue, DownOf, Has, Busy
<1>7. CASE Crash
  BY <1>0, <1>7 DEF Crash, DownTrue
<1>8. CASE Teardown
  BY <1>8 DEF Teardown, DownTrue
<1>9. ASSUME NEW e \in Pluggable, Unplug(e) PROVE DownTrue'
  <2>1. /\ present' = present \ {e} /\ cls' = [cls EXCEPT ![e] = {}]
        /\ leaf' = [leaf EXCEPT ![e] = Bare] /\ fil' = [fil EXCEPT ![e] = Unfiltered]
        /\ UNCHANGED <<applied, minors, hurt, pc, job>> /\ pc # "stopped"
    BY <1>9 DEF Unplug, tick
  <2>2. ASSUME NEW j \in Keys \ hurt', applied'[j].port \in present', ~Busy(j)' PROVE WillDown(j)
    <3>1. applied[j].port \in Devs /\ applied[j].port # e /\ DownOf(j)
      BY <1>1, <2>1, <2>2 DEF TypeOK, KernelOK, Busy
    <3>2. /\ cls'[applied[j].port] = cls[applied[j].port]
          /\ leaf'[applied[j].port] = leaf[applied[j].port]
          /\ fil'[applied[j].port] = fil[applied[j].port]
      BY <2>1, <3>1 DEF TypeOK, KernelOK
    <3> QED BY <2>1, <3>1, <3>2, DownKept
  <2> QED BY <2>2, DownWill
<1>10. ASSUME NEW k \in Keys, Ensure(k) PROVE DownTrue'
  <2>1. PICK down \in Ports \cup {NoPort}, fresh \in SUBSET {want[k].port},
           lost \in SUBSET {want[k].port} :
           Visits(k, down, fresh, lost) /\ lost \subseteq Ports /\ down = PortFor(k)
    BY <1>10, EnsureVisits
  <2>2. present' = present /\ hurt' = hurt /\ pc = "next"
    BY <1>10, VisitMinor
  <2>3. ASSUME NEW j \in Keys \ hurt', applied'[j].port \in present', ~Busy(j)' PROVE WillDown(j)
    <3>1. applied[j].port \notin lost /\ applied'[j] = applied[j]
      BY <1>0, <2>1, <2>2, <2>3, ForgottenKeeps DEF Visits
    <3>2. applied[j].port \in present \cap ports \cap root /\ DownOf(j)
      BY <1>1, <2>2, <2>3, <3>1 DEF Placed, Busy
    <3>3. applied[j] # NoRule /\ minors[j] \in Minors
      BY <3>2, OnPort
    <3>4. minors'[j] = minors[j] /\ (j # k => minors[j] # MinorOf(k))
      BY <1>10, <3>3, VisitMinor
    <3>5. j = k => PortFor(k) = applied[j].port
      BY <2>1, <2>3 DEF Visits, Busy, Unchanged
    <3> QED BY <1>10, <3>1, <3>2, <3>3, <3>4, <3>5, VisitSpares, DownKept
  <2> QED BY <2>3, DownWill
<1>11. ASSUME NEW k \in Keys, Depart(k) PROVE DownTrue'
  <2> DEFINE n == minors[k]
             gone == PortsOf(k)
  <2>1. /\ pc = "next" /\ hurt' = hurt \ {k} /\ pc' = pc /\ present' = present
        /\ applied' = [applied EXCEPT ![k] = NoRule] /\ minors' = [minors EXCEPT ![k] = NoMinor]
        /\ cls' = [d \in Devs |-> cls[d] \ (IF d \in gone THEN {n} ELSE {})]
        /\ leaf' = [d \in Devs |-> IF d \in gone THEN [leaf[d] EXCEPT ![n] = NoLeaf] ELSE leaf[d]]
        /\ fil' = [d \in Devs |-> IF d \in gone THEN [fil[d] EXCEPT ![n] = NoAddr] ELSE fil[d]]
    BY <1>11 DEF Depart, tick
  <2> HIDE DEF n, gone
  <2>2. ASSUME NEW j \in Keys \ hurt', applied'[j].port \in present', ~Busy(j)' PROVE WillDown(j)
    <3>1. j # k /\ j \notin hurt /\ applied'[j] = applied[j] /\ minors'[j] = minors[j]
      BY <1>0, <2>1, <2>2 DEF TypeOK, ShaperOK
    <3>2. applied[j].port \in Devs /\ minors[j] \in Minors /\ DownOf(j)
      BY <1>1, <2>1, <2>2, <3>1, OnPort DEF Devs, Busy
    <3>3. minors[j] # n
      BY <3>1, <3>2, MinorsTyped DEF MinorsDistinct, n
    <3>4. /\ minors[j] \in cls'[applied[j].port] <=> minors[j] \in cls[applied[j].port]
          /\ leaf'[applied[j].port][minors[j]] = leaf[applied[j].port][minors[j]]
          /\ fil'[applied[j].port][minors[j]] = fil[applied[j].port][minors[j]]
      BY <2>1, <3>2, <3>3 DEF TypeOK, KernelOK
    <3> QED BY <3>1, <3>2, <3>4, DownKept
  <2> QED BY <2>2, DownWill
<1>12. CASE WriteDown
  <2>1. /\ pc = "down" /\ pc' = "up" /\ UNCHANGED <<present, minors, applied>>
        /\ hurt \subseteq hurt' /\ job'.key = job.key /\ job.key \in Keys
    BY <1>12 DEF WriteDown, Refused, shaper, TypeOK, TickOK, Jobs
  <2>2. ASSUME NEW j \in Keys \ hurt', applied'[j].port \in present', ~Busy(j)' PROVE WillDown(j)
    <3>1. j # job.key /\ DownOf(j) /\ minors[j] \in Minors /\ applied[j].port \in Devs
      BY <1>1, <2>1, <2>2, OnPort DEF Busy, Devs
    <3>2. CASE UNCHANGED <<cls, leaf, fil>>
      BY <2>1, <3>1, <3>2, DownKept
    <3>3. ASSUME NEW e, NEW s, NEW q, NEW h, NEW f, Write(job.port, minors[job.key], e, s, q, h, f)
          PROVE  WillDown(j)
      <4>1. job.port \in Devs
        BY <3>3 DEF Write, ClassAllowed, TypeOK, KernelOK
      <4>2. minors[j] # minors[job.key]
        BY <2>1, <3>1, MinorsTyped DEF MinorsDistinct
      <4>3. /\ minors[j] \in cls'[applied[j].port] <=> minors[j] \in cls[applied[j].port]
            /\ leaf'[applied[j].port][minors[j]] = leaf[applied[j].port][minors[j]]
            /\ fil'[applied[j].port][minors[j]] = fil[applied[j].port][minors[j]]
        BY <2>1, <3>1, <3>3, <4>1, <4>2, WriteFrame
      <4> QED BY <2>1, <3>1, <4>3, DownKept
    <3> QED BY <1>12, <3>2, <3>3 DEF WriteDown
  <2> QED BY <2>2, DownWill
<1>13. CASE WriteUp
  <2> DEFINE k == job.key
             pace == job.port \in paced
             rule(have) == [ask |-> want[k], port |-> job.port, haveDown |-> job.haveDown,
                            haveUp |-> have, paced |-> pace]
  <2>1. /\ pc = "up" /\ pc' = "next" /\ UNCHANGED <<present, minors>>
        /\ hurt \subseteq hurt' /\ k \in Keys
    <3>1. /\ pc = "up" /\ pc' = "next" /\ UNCHANGED <<present, minors>> /\ hurt \subseteq hurt'
      BY <1>13 DEF WriteUp, Refused
    <3> QED BY <3>1 DEF TypeOK, TickOK, Jobs
  <2>2. \E have : applied' = [applied EXCEPT ![k] = rule(have)]
    BY <1>13, Zenon DEF WriteUp
  <2>3. \A have : /\ rule(have).port = job.port /\ rule(have).ask = want[k]
                  /\ rule(have).haveDown = job.haveDown
    OBVIOUS
  <2>4. /\ applied'[k].port = job.port /\ applied'[k].ask = want[k]
        /\ applied'[k].haveDown = job.haveDown
        /\ \A j \in Keys : j # k => applied'[j] = applied[j]
    <3> HIDE DEF rule, k
    <3> QED BY <2>1, <2>2, <2>3 DEF TypeOK, ShaperOK
  <2> HIDE DEF rule
  <2>5. ASSUME NEW d \in Devs, NEW i \in Minors, d # Wan
        PROVE  /\ i \in cls'[d] <=> i \in cls[d]
               /\ leaf'[d][i] = leaf[d][i] /\ fil'[d][i] = fil[d][i]
    <3>1. CASE UNCHANGED <<cls, leaf, fil>>
      BY <3>1
    <3>2. ASSUME NEW e, NEW s, NEW q, NEW h, NEW f, Write(Wan, minors[job.key], e, s, q, h, f)
          PROVE  /\ i \in cls'[d] <=> i \in cls[d]
                 /\ leaf'[d][i] = leaf[d][i] /\ fil'[d][i] = fil[d][i]
      BY <1>0, <2>1, <2>5, <3>2, WriteFrame
    <3> QED BY <1>13, <3>1, <3>2 DEF WriteUp
  <2>6. ASSUME NEW j \in Keys \ hurt', applied'[j].port \in present', ~Busy(j)' PROVE WillDown(j)
    <3>1. CASE j # k
      <4>1. /\ applied'[j] = applied[j] /\ DownOf(j) /\ minors[j] \in Minors
            /\ applied[j].port \in Devs \ {Wan}
        BY <1>1, <2>1, <2>4, <2>6, <3>1, OnPort, DevsAssumption DEF Busy, Devs
      <4> QED BY <2>1, <2>5, <4>1, DownKept
    <3>2. CASE j = k
      <4>1. /\ job.port \in Ports /\ job.port \in Devs \ {Wan} /\ minors[k] \in Minors
            /\ k \notin hurt /\ job.port \in present
        BY <2>1, <2>4, <2>6, <3>2, <1>0, DevsAssumption
           DEF Devs, TypeOK, TickOK, ShaperOK, Jobs, InHand
      <4>2. Has(job.port, minors[k], want[k].down, FALSE, want[k].addr, job.haveDown)
        BY <2>1, <4>1 DEF JobDown
      <4>3. /\ minors[k] \in cls'[job.port] <=> minors[k] \in cls[job.port]
            /\ leaf'[job.port][minors[k]] = leaf[job.port][minors[k]]
            /\ fil'[job.port][minors[k]] = fil[job.port][minors[k]]
        BY <2>5, <4>1
      <4>4. WillHave(job.port, minors[k], want[k].down, FALSE, want[k].addr, job.haveDown)
        BY <4>2, <4>3 DEF Has, WillHave
      <4> QED BY <2>1, <2>4, <3>2, <4>4 DEF WillDown
    <3> QED BY <3>1, <3>2
  <2> QED BY <2>6, DownWill
<1> QED BY <1>3, <1>4, <1>5, <1>6, <1>7, <1>8, <1>9, <1>10, <1>11, <1>12, <1>13 DEF Next

LEMMA JobDownStep == ASSUME ~Unnoticed, IInv, UpInv, DownInv, [Next]_vars PROVE JobDown'
<1> USE DEF IInv, DownInv
<1>1. ASSUME pc' \notin {"down", "up"} PROVE JobDown'
  BY <1>1 DEF JobDown
<1>2. CASE BeginTick \/ WriteUp \/ EndTick \/ Crash \/ Teardown \/ (\E k \in Keys : Depart(k))
  BY <1>1, <1>2 DEF BeginTick, WriteUp, EndTick, Crash, Teardown, Depart, tick
<1>3. CASE UNCHANGED vars
  BY <1>3 DEF vars, kernel, shaper, tick, history, JobDown, Has
<1>4. ASSUME NEW e \in Pluggable, Plug(e) PROVE JobDown'
  BY <1>1, <1>4 DEF Plug, tick
<1>5. ASSUME NEW e \in Pluggable, Unplug(e) PROVE JobDown'
  <2>1. /\ present' = present \ {e} /\ cls' = [cls EXCEPT ![e] = {}]
        /\ leaf' = [leaf EXCEPT ![e] = Bare] /\ fil' = [fil EXCEPT ![e] = Unfiltered]
        /\ UNCHANGED <<minors, hurt, pc, job, want>>
    BY <1>5 DEF Unplug, tick
  <2>2. ASSUME job.port \in present'
        PROVE  /\ cls'[job.port] = cls[job.port] /\ leaf'[job.port] = leaf[job.port]
               /\ fil'[job.port] = fil[job.port]
    BY <2>1, <2>2 DEF TypeOK, KernelOK
  <2> QED BY <2>1, <2>2 DEF JobDown, Has
<1>6. ASSUME NEW k \in Keys, Ensure(k) PROVE JobDown'
  <2>1. PICK down \in Ports \cup {NoPort}, fresh \in SUBSET {want[k].port},
           lost \in SUBSET {want[k].port} :
           /\ Visits(k, down, fresh, lost) /\ down = PortFor(k)
           /\ down \in Ports => down \in (ports' \cap root') \cap present
    BY <1>6, EnsureVisits
  <2>2. /\ present' = present /\ hurt' = hurt /\ pc = "next" /\ MinorOf(k) \in Minors
        /\ minors'[k] = MinorOf(k)
        /\ applied[k] # NoRule => minors[k] = MinorOf(k)
    BY <1>6, VisitMinor
  <2>3. SUFFICES ASSUME pc' \in {"down", "up"}, job'.port \in present, job'.key \notin hurt
                 PROVE  JobDown'
    BY <2>2 DEF JobDown
  <2>4. /\ job' = [key |-> k, prev |-> applied[k], port |-> down, haveDown |-> FALSE]
        /\ pc' = IF down = NoPort THEN "up" ELSE "down"
    BY <2>1, <2>3 DEF Visits
  <2>5. down \in Ports \cap present /\ pc' = "down" /\ k \notin hurt
    BY <2>1, <2>3, <2>4, DevsAssumption DEF TypeOK, KernelOK, Devs
  <2>6. job'.key = k /\ job'.port = down /\ job'.prev = applied[k]
    BY <2>4
  <2>7. CASE applied[k] # NoRule /\ applied[k].port = down
    <3>1. down \in present \cap ports \cap root /\ DownOf(k)
      BY <2>2, <2>5, <2>7 DEF Placed, DownTrue, DownOf, Busy
    <3>2. /\ MinorOf(k) \in cls'[down] <=> MinorOf(k) \in cls[down]
          /\ leaf'[down][MinorOf(k)] = leaf[down][MinorOf(k)]
          /\ fil'[down][MinorOf(k)] = fil[down][MinorOf(k)]
      BY <1>6, <2>1, <2>2, <2>7, <3>1, VisitSpares
    <3>3. WillHave(down, MinorOf(k), applied[k].ask.down, FALSE, applied[k].ask.addr,
                   applied[k].haveDown)
      BY <2>2, <2>7, <3>1, <3>2 DEF DownOf, Has, WillHave
    <3> QED BY <2>2, <2>5, <2>7, <2>6, <3>3 DEF JobDown, Has, WillHave
  <2>8. CASE ~(applied[k] # NoRule /\ applied[k].port = down)
    <3>1. MinorOf(k) \notin cls'[down]
      <4>1. CASE down \in fresh
        BY <2>1, <2>5, <4>1 DEF Visits, Rebuilt, Devs
      <4>2. CASE down \notin fresh
        <5>1. down \in ports
          BY <2>1, <2>5, <4>2, DevsAssumption DEF Visits, PortKept, PortBuilt, PortGone
        <5>2. MinorOf(k) \notin cls[down]
          BY <1>6, <2>5, <2>8, <5>1, VisitMinor, DevsAssumption
        <5> QED BY <2>1, <2>5, <4>2, <5>2 DEF Visits, Rebuilt, Devs
      <4> QED BY <4>1, <4>2
    <3> QED BY <2>2, <2>5, <2>8, <2>6, <3>1 DEF JobDown
  <2> QED BY <2>7, <2>8
<1>7. CASE WriteDown
  <2> DEFINE k == job.key
             d == job.port
             n == minors[k]
             r == job.prev
             exists == Exists /\ ~Moved
             had == exists /\ r.haveDown
  <2>1. /\ pc = "down" /\ pc' = "up" /\ UNCHANGED <<present, minors, want>>
        /\ k \in Keys /\ n \in Minors /\ r \in Rules \cup {NoRule} /\ want[k] \in Asks
        /\ hurt \subseteq hurt' /\ job'.key = k /\ job'.port = d
    <3>1. pc = "down" /\ pc' = "up" /\ UNCHANGED <<present, minors, want>> /\ hurt \subseteq hurt'
      BY <1>7 DEF WriteDown, Refused, shaper
    <3>2. job'.key = k /\ job'.port = d
      BY <1>7, <3>1 DEF WriteDown, TypeOK, TickOK, Jobs
    <3> QED BY <3>1, <3>2 DEF TypeOK, TickOK, ShaperOK, Jobs, InHand, Wanted
  <2>2. SUFFICES ASSUME d \in present, k \notin hurt' PROVE JobDown'
    BY <2>1 DEF JobDown
  <2>3. k \notin hurt /\ d \in Devs /\ d \in ports \cap root
    BY <2>1, <2>2 DEF Placed, TypeOK, KernelOK
  <2>4. /\ exists => Has(d, n, r.ask.down, FALSE, r.ask.addr, r.haveDown)
        /\ ~exists => n \notin cls[d]
    BY <2>1, <2>2, <2>3 DEF JobDown, Exists, Moved
  <2>5. exists <=> n \in cls[d]
    BY <2>4 DEF Has
  <2>6. ~Refused(d, n, exists)
    BY <2>2, <2>3, <2>5 DEF Refused, ClassAllowed
  <2>7. /\ Write(d, n, exists, want[k].down, FALSE, had, Refilter \/ Moved)
        /\ job' = [job EXCEPT !.haveDown = Have(d, n, want[k].down, had)]
    BY <1>7, <2>6 DEF WriteDown
  <2>8. had <=> leaf[d][n] # NoLeaf
    <3>1. CASE exists
      BY <2>4, <3>1 DEF Has
    <3>2. CASE ~exists
      BY <2>1, <2>3, <2>4, <3>2 DEF UpInv, Based
    <3> QED BY <3>1, <3>2
  <2>9. (Refilter \/ Moved) \/ fil[d][n] = want[k].addr
    BY <2>4 DEF Refilter, Has
  <2>10. had \in BOOLEAN
    <3>1. r.haveDown \in BOOLEAN
      BY <2>1, HaveBoolean
    <3>2. exists \in BOOLEAN
      BY DEF Exists, Moved
    <3> QED BY <3>1, <3>2
  <2>11. want[k].down \in Shapes /\ (Refilter \/ Moved) \in BOOLEAN
    BY <2>1, AsksAssumption DEF Refilter, Moved, Exists
  <2>12. /\ n \in cls'[d] /\ leaf'[d][n] = LeafOf(want[k].down, FALSE)
         /\ fil'[d][n] = want[k].addr
         /\ Have(d, n, want[k].down, had) <=> leaf'[d][n] # NoLeaf
    <3> HIDE DEF had, exists
    <3> QED BY <2>1, <2>3, <2>7, <2>8, <2>9, <2>10, <2>11, WriteHas
  <2>13. job'.haveDown = Have(d, n, want[k].down, had)
    BY <2>1, <2>7 DEF TypeOK, TickOK, Jobs
  <2>14. Has(d, n, want[k].down, FALSE, want[k].addr, job.haveDown)'
    BY <2>1, <2>12, <2>13 DEF Has
  <2> QED BY <2>1, <2>14 DEF JobDown
<1> QED BY <1>2, <1>3, <1>4, <1>5, <1>6, <1>7 DEF Next

LEMMA DownNext == ASSUME ~Unnoticed PROVE IInv /\ UpInv /\ DownInv /\ [Next]_vars => DownInv'
BY PlacedStep, DownTrueStep, JobDownStep, VisitedPortStep DEF DownInv

\* In every behaviour where none is, what they say of the downlink is true as well.
THEOREM DownInvariance == ASSUME ~Unnoticed PROVE Spec => []DownInv
BY DownInit, DownNext, Invariance, UpInvariance, PTL DEF Spec

(***************************************************************************)
(* The theorems.                                                           *)
(***************************************************************************)

\* The types of Shaper's state and of the kernel's hold in every behaviour.
THEOREM TypeCorrect == Spec => []TypeOK
<1>1. IInv => TypeOK
  BY DEF IInv
<1> QED BY <1>1, Invariance, PTL

\* Two keys never share a minor (shape.go:810-815), however many come, go and come back.
THEOREM MinorsStayDistinct == Spec => []MinorsDistinct
<1>1. IInv => MinorsDistinct
  BY DEF IInv
<1> QED BY <1>1, Invariance, PTL

\* No class is lost sight of: even when interfaces are replaced unnoticed, commands are
\* refused and the daemon is killed, a later delete will find every class on its ports.
THEOREM NoClassIsLost == Spec => []ClassHasRecord
<1>1. IInv => ClassHasRecord
  BY DEF IInv
<1> QED BY <1>1, Invariance, PTL

\* Apply never deletes or recreates the class of a key still wanted on that port, so its
\* byte counters run on (shape.go:86-89).
THEOREM CountersRunOn == Spec => CountersKept
<1> DEFINE Kept ==
      \A d \in ports : \A k \in Keys :
        /\ minors[k] \in cls[d] /\ minors[k] \notin cls'[d]
        /\ pc # "idle" /\ minors'[k] = minors[k] /\ present' = present
        => want[k] = Unwanted \/ d \notin {want[k].port, Wan}
<1>1. IInv /\ [Next]_vars => [Kept]_vars
  <2> SUFFICES ASSUME IInv, Next, NEW d \in ports, NEW k \in Keys,
                      minors[k] \in cls[d], minors[k] \notin cls'[d],
                      pc # "idle", minors'[k] = minors[k], present' = present
               PROVE  d \notin {want[k].port, Wan}
    OBVIOUS
  <2> USE DEF IInv
  <2>0. d \in Devs /\ d # NoPort /\ minors[k] # NoMinor /\ cls' # cls
    BY DevsAssumption, MinorsTyped DEF TypeOK, ShaperOK, KernelOK, Devs
  <2>1. CASE BeginTick \/ Teardown \/ EndTick
    BY <2>0, <2>1 DEF BeginTick, Teardown, EndTick, kernel
  <2>2. CASE WriteDown \/ WriteUp
    <3>1. cls' = cls \/ \E e, n : cls' = [cls EXCEPT ![e] = @ \cup {n}]
      <4>1. CASE WriteDown
        BY <4>1 DEF WriteDown, Write
      <4>2. CASE WriteUp
        BY <4>2, Zenon DEF WriteUp, Write
      <4> QED BY <2>2, <4>1, <4>2
    <3>2. cls[d] \subseteq cls'[d]
      BY <2>0, <3>1 DEF TypeOK, KernelOK
    <3> QED BY <3>2
  <2>3. CASE Crash
    BY <2>0, <2>3 DEF Crash
  <2>4. CASE \E e \in Pluggable : Unplug(e) \/ Plug(e)
    BY <2>0, <2>4 DEF Unplug, Plug
  <2>5. ASSUME NEW j \in Keys, Depart(j) PROVE FALSE
    <3>1. minors[k] = minors[j]
      BY <2>0, <2>5 DEF Depart
    <3>2. j = k
      BY <2>0, <3>1 DEF MinorsDistinct
    <3> QED BY <2>0, <2>5, <3>2 DEF Depart, TypeOK, ShaperOK
  <2>6. ASSUME NEW j \in Keys, Ensure(j) PROVE d \notin {want[k].port, Wan}
    <3>1. PICK down \in Ports \cup {NoPort}, fresh, lost \in SUBSET {want[j].port} :
            /\ \/ PortKept(want[j].port, down, fresh, lost)
               \/ PortBuilt(want[j].port, down, fresh, lost)
               \/ PortGone(want[j].port, down, fresh, lost)
            /\ Rebuilt(fresh, LeftPort(applied[j], down), MinorOf(j))
      BY <2>6 DEF Ensure
    <3>2. j \in todo /\ AssignMinor(j)
      BY <2>6 DEF Ensure, First
    <3>3. d \in root
      BY <2>0 DEF Rooted
    <3>4. d \notin fresh
      BY <3>1, <3>3 DEF PortKept, PortBuilt, PortGone
    <3>5. d = LeftPort(applied[j], down) /\ minors[k] = MinorOf(j)
      BY <2>0, <3>1, <3>4 DEF Rebuilt
    <3>6. j = k
      BY <3>2, <3>5, MinorChosen
    <3>7. d = applied[j].port /\ d # down /\ d # Wan
      BY <2>0, <3>5, RulesHavePorts, DevsAssumption DEF LeftPort
    <3>8. want[k].port # d
      BY <3>1, <3>3, <3>6, <3>7 DEF PortKept, PortBuilt, PortGone
    <3> QED BY <3>7, <3>8
  <2> QED BY <2>1, <2>2, <2>3, <2>4, <2>5, <2>6 DEF Next
<1> QED BY <1>1, Invariance, PTL DEF Spec, CountersKept

\* GRO this run of the daemon turned off is on again once no low cap needs it, and after a
\* stop (gro.go:36-41), whatever was unplugged, plugged back or killed before.
THEOREM GroOnAgain == Spec => []GroGivenBack
<1>1. UpInv /\ IInv => GroGivenBack
  BY DEF UpInv, GroInv, GroGivenBack, Settled, IInv, TypeOK, KernelOK
<1> QED BY <1>1, Invariance, UpInvariance, PTL

\* GRO somebody else turned off is never turned on (gro.go:102-107).
THEOREM OthersGro == Spec => OthersGroKept
<1> DEFINE Kept == \A d \in theirs \cap theirs' : d \in merging' => d \in merging
<1>1. IInv /\ UpInv /\ [Next]_vars => [Kept]_vars
  <2> SUFFICES ASSUME IInv, UpInv, [Next]_vars PROVE Kept
    OBVIOUS
  <2>1. UpInv'
    BY UpNext
  <2> QED BY <2>1 DEF UpInv, GroInv
<1> QED BY <1>1, Invariance, UpInvariance, PTL DEF Spec, OthersGroKept

\* When a tick ends undisturbed, an uplink queue sized in time drains a port that does not
\* merge, and a low cap has one wherever the driver lets GRO go (shape.go:431-438).
THEOREM QueuesFit == Spec => []QueueFitsPort
<1>1. ASSUME IInv, UpInv, Settled, NEW k \in Wanted(want) \ hurt, want[k].up # Clean
      PROVE  /\ leaf[Wan][minors[k]].paced => PortFor(k) \in present \ merging
             /\ want[k].up \in LowCaps /\ PortFor(k) # NoPort /\ PortFor(k) \notin Stubborn =>
                  leaf[Wan][minors[k]].paced
  <2>1. /\ Undisturbed /\ SameShapes(applied[k].ask, want[k]) /\ UpOf(k)
        /\ applied[k].paced <=> PortFor(k) \in paced
    BY <1>1, SettledUp
  <2>2. leaf[Wan][minors[k]] = LeafOf(want[k].up, applied[k].paced)
    BY <2>1 DEF UpOf, Has, SameShapes
  <2>3. leaf[Wan][minors[k]].paced = applied[k].paced
    BY <1>1, <2>2 DEF LeafOf
  <2>4. /\ paced \subseteq present \ merging
        /\ (GroPorts(want) \cap present) \ Stubborn \subseteq paced
    BY <1>1, <2>1 DEF UpInv, PacedInv
  <2>5. want[k].up \in LowCaps /\ PortFor(k) # NoPort => PortFor(k) \in GroPorts(want) \cap present
    BY <1>1 DEF PortFor, GroPorts, IInv, TypeOK, KernelOK
  <2>6. leaf[Wan][minors[k]].paced <=> PortFor(k) \in paced
    BY <2>1, <2>3, Zenon
  <2> QED BY <2>4, <2>5, <2>6
<1>2. IInv /\ UpInv => QueueFitsPort
  BY <1>1 DEF QueueFitsPort
<1> QED BY <1>2, Invariance, UpInvariance, PTL

\* When a tick ends undisturbed, the uplink of every key no command was refused for is what
\* was wanted, even where an interface was replaced unnoticed: the WAN port stays.
THEOREM UplinkAsWanted ==
  Spec => [](Settled => \A k \in Wanted(want) \ hurt :
                          Carries(Wan, minors[k], want[k].up, want[k].addr))
<1>1. ASSUME IInv, UpInv, Settled, NEW k \in Wanted(want) \ hurt
      PROVE  Carries(Wan, minors[k], want[k].up, want[k].addr)
  <2>1. UpOf(k) /\ SameShapes(applied[k].ask, want[k])
    BY <1>1, SettledUp
  <2>2. LeafOf(want[k].up, applied[k].paced).shape = want[k].up
    BY DEF LeafOf, NoLeaf
  <2> QED BY <2>1, <2>2 DEF UpOf, Has, SameShapes, Carries
<1>2. IInv /\ UpInv => (Settled => \A k \in Wanted(want) \ hurt :
                                     Carries(Wan, minors[k], want[k].up, want[k].addr))
  BY <1>1
<1> QED BY <1>2, Invariance, UpInvariance, PTL

\* Apply's promise (shape.go:776): when a tick ends undisturbed, the kernel has what was
\* wanted in that tick, uplink and downlink, and nothing else on any port the daemon works
\* on, however the wanted set moved, whatever was unplugged and wherever the daemon was
\* killed before, as long as no interface is replaced without a tick seeing it gone.
THEOREM LeavesTheKernelAsWanted == ASSUME ~Unnoticed PROVE Spec => []Reconciled
<1>1. ASSUME IInv, UpInv, DownInv, Settled PROVE Reconciled
  <2>1. /\ Undisturbed /\ Visited = Wanted(want) /\ Departed = {}
        /\ \A k \in Wanted(want) : applied[k] # NoRule /\ SameShapes(applied[k].ask, want[k])
        /\ \A k \in Wanted(want) \ hurt : UpOf(k)
    BY <1>1, SettledUp
  <2>2. \A k \in Wanted(want) : applied[k].port = PortFor(k)
    BY <1>1, <2>1 DEF DownInv, VisitedPort
  <2>3. \A shape, pace : LeafOf(shape, pace).shape = shape
    BY DEF LeafOf, NoLeaf
  <2>4. ASSUME NEW k \in Wanted(want) \ hurt
        PROVE  /\ Carries(Wan, minors[k], want[k].up, want[k].addr)
               /\ PortFor(k) # NoPort =>
                    Carries(PortFor(k), minors[k], want[k].down, want[k].addr)
    <3>1. Carries(Wan, minors[k], want[k].up, want[k].addr)
      BY <2>1, <2>3 DEF UpOf, Has, SameShapes, Carries
    <3>2. ASSUME PortFor(k) # NoPort
          PROVE  Carries(PortFor(k), minors[k], want[k].down, want[k].addr)
      <4>1. applied[k].port \in present
        BY <2>2, <3>2 DEF PortFor
      <4>2. DownOf(k)
        BY <1>1, <4>1 DEF DownInv, DownTrue, DownOf, Busy, Settled, Wanted
      <4>3. Has(PortFor(k), minors[k], want[k].down, FALSE, want[k].addr, applied[k].haveDown)
        BY <2>1, <2>2, <4>2 DEF DownOf, SameShapes
      <4> QED BY <2>3, <4>3 DEF Has, Carries
    <3> QED BY <3>1, <3>2
  <2>5. ASSUME NEW d \in ports, NEW m \in Minors,
               m \in cls[d] \/ leaf[d][m] # NoLeaf \/ fil[d][m] # NoAddr
        PROVE  \E k \in Wanted(want) : minors[k] = m /\ d \in {PortFor(k), Wan}
    <3>1. m \in cls[d]
      BY <1>1, <2>5 DEF UpInv, Based, IInv, TypeOK, ShaperOK
    <3>2. PICK k \in Keys : minors[k] = m /\ applied[k] # NoRule /\ d \in {applied[k].port, Wan}
      BY <1>1, <3>1 DEF IInv, ClassHasRecord, Settled
    <3>3. k \in Wanted(want)
      BY <2>1, <3>2 DEF Departed, Wanted
    <3> QED BY <2>2, <3>2, <3>3
  <2> QED BY <2>4, <2>5 DEF Reconciled
<1>2. IInv /\ UpInv /\ DownInv => Reconciled
  BY <1>1 DEF Reconciled
<1> QED BY <1>2, Invariance, UpInvariance, DownInvariance, PTL
=============================================================================
