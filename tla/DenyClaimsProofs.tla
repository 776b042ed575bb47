-------------------------- MODULE DenyClaimsProofs --------------------------
(***************************************************************************)
(* Theorems about DenyClaims.                                              *)
(*                                                                         *)
(* TypeCorrect holds of every instance.  NothingForgotten, ClaimsEnd,      *)
(* NoStrayWait and NeverLockedOut hold of orderly ones: commands one at a  *)
(* time, hostapd refusing no ADD, and box-wide commands not mixed with     *)
(* per-client ones unless there is a single client.  The violation runs    *)
(* show what happens without these conditions.                             *)
(***************************************************************************)
EXTENDS DenyClaims, TLAPS

----------------------------------------------------------------------------
(* The inductive invariant.                                                *)

Active(z) == zpc[z] \in {"denying", "inforce", "lapsed"}

\* A deadzone at work is somebody's, and in force it has been placed everywhere.
ZoneWF == \A z \in Zones :
  /\ Active(z) => zmac[z] \in Clients
  /\ zpc[z] \in {"inforce", "lapsed"} => zput[z] = zon[z]

TypeInv == TypeOK /\ ZoneWF

\* The registry's record is that of a call whose timer has not fired.
RecordWF == \A m \in Clients : deadzones[m] # NoZone =>
  zmac[deadzones[m]] = m /\ zpc[deadzones[m]] \in {"inforce", "lapsed"}

Begun(o) == pc[o] \notin {"idle", "clear", "note"}

\* What makes an instance orderly.
Unmixed == \/ Kinds \subseteq BoxKinds
           \/ Kinds \subseteq ClientKinds
           \/ \A m1, m2 \in Clients : m1 = m2
Orderly == Serial = TRUE /\ MaxFaults = 0 /\ Unmixed

SerialInv == \A o1, o2 \in Ops : Busy(o1) /\ Busy(o2) => o1 = o2
NoFailInv == \A o \in Ops : pc[o] \notin {"barDrop", "closeDrop"}

\* Only an operation past notePins can be claimed, due, spent or snapshotted.
BegunInv ==
  /\ \A o \in once \cup due : Begun(o)
  /\ \A m \in Clients : pins[m] # NoOp => Begun(pins[m])
  /\ \A o \in Ops : \A x \in todo[o] : Begun(x)

\* A claim is of an operation not yet lifted, over one of that operation's clients.
LiveClaim == \A m \in Clients : pins[m] # NoOp =>
  pins[m] \notin once /\ m \in macs[pins[m]]

SingleInv == Kinds \subseteq ClientKinds =>
  \A o \in Ops : \A m1, m2 \in macs[o] : m1 = m2

\* A command that is clearing has dropped, or will drop, every claim in its way.
ClearInv == \A o \in Ops :
  /\ pc[o] = "clear" => kind[o] \in Kinds
  /\ pc[o] = "clear" /\ kind[o] \in BoxKinds =>
       \A m \in Clients : pins[m] # NoOp => pins[m] \in todo[o]
  /\ pc[o] = "clear" /\ kind[o] \in ClientKinds => \A m \in macs[o] : pins[m] = NoOp
  /\ pc[o] = "note" => \A m \in macs[o] : pins[m] = NoOp

\* An operation a per-client command has emptied holds nobody any more.
EmptiedInv == \A o \in Ops : pc[o] = "clear" /\ kind[o] \in ClientKinds =>
  \A x \in todo[o] : \A m \in Clients : pins[m] # x

\* While an operation handles a client nobody else claims it.
HandlingInv == \A o \in Ops :
  /\ ~Begun(o) => held[o] = {}
  /\ pc[o] \in {"bar", "close"} => left[o] \cup held[o] \subseteq macs[o]
  /\ pc[o] \in {"bar", "close"} => \A m \in macs[o] : pins[m] \in {o, NoOp}

\* No operation denies every radio.
DenyInv == \A o \in Ops : deny[o] # Radios

\* An operation that is over holds nobody.
OverInv == \A m \in Clients : pins[m] # NoOp => pc[pins[m]] # "over"

Control == /\ SerialInv /\ NoFailInv /\ BegunInv /\ LiveClaim
           /\ SingleInv /\ ClearInv /\ EmptiedInv /\ HandlingInv /\ DenyInv
           /\ OverInv /\ WaitsOnlyForHeld

Owned(m, r) == ZoneOwns(m, r) \/ PinOwns(m, r) \/ HandlerOwns(m, r) \/ ReleaseOwns(m, r)

IInv == TypeInv /\ RecordWF /\ Control /\ EntryOwned

----------------------------------------------------------------------------
(* Type correctness.                                                       *)

LEMMA ThreadIds ==
  /\ \A o \in Ops : <<"run", o>> \in Threads /\ <<"lift", o>> \in Threads
  /\ \A z \in Zones : <<"zone", z>> \in Threads
BY DEF Threads

LEMMA OweType ==
  ASSUME TypeOK, NEW t \in Threads, NEW cs \in SUBSET Clients, NEW rs \in SUBSET Radios,
         Owe(t, cs, rs)
  PROVE  owed' \in [Threads -> SUBSET Pairs]
<1>1. cs \X rs \in SUBSET Pairs
  BY DEF Pairs
<1>2. QED
  BY <1>1 DEF TypeOK, Owe

LEMMA UnwindType ==
  ASSUME TypeOK, NEW t \in Threads, NEW m \in Clients, NEW rs \in SUBSET Radios,
         Unwind(t, m, rs)
  PROVE  asked' \in [Threads -> SUBSET Pairs]
<1>1. {m} \X rs \in SUBSET Pairs
  BY DEF Pairs
<1>2. QED
  BY <1>1 DEF TypeOK, Unwind

LEMMA LiftType ==
  ASSUME TypeOK, NEW o \in Ops, LiftPins(o)
  PROVE  /\ once' \in SUBSET Ops
         /\ pins' \in [Clients -> Ops \cup {NoOp}]
         /\ owed' \in [Threads -> SUBSET Pairs]
<1>1. CASE o \in once
  BY <1>1 DEF LiftPins, TypeOK
<1>2. CASE o \notin once
  <2>1. Owe(<<"lift", o>>, {m \in Clients : pins[m] = o}, deny[o])
    BY <1>2 DEF LiftPins
  <2>2. deny[o] \in SUBSET Radios /\ {m \in Clients : pins[m] = o} \in SUBSET Clients
    BY DEF TypeOK
  <2>3. owed' \in [Threads -> SUBSET Pairs]
    BY <2>1, <2>2, ThreadIds, OweType
  <2>4. QED
    BY <1>2, <2>3 DEF LiftPins, TypeOK
<1>3. QED
  BY <1>1, <1>2

LEMMA CollectType ==
  ASSUME TypeOK, NEW o \in Ops, Collect(o)
  PROVE  /\ to' \in [Ops -> Radios \cup {NoRadio}]
         /\ deny' \in [Ops -> SUBSET Radios]
         /\ macs' \in [Ops -> SUBSET Clients] /\ pending' \in [Ops -> SUBSET Clients]
BY DEF Collect, TypeOK

LEMMA TakeType ==
  ASSUME TypeOK, NEW o \in Ops, NEW m \in Clients, pins[m] # NoOp, TakeFrom(o, m, pins[m])
  PROVE  /\ pins' \in [Clients -> Ops \cup {NoOp}]
         /\ pending' \in [Ops -> SUBSET Clients]
         /\ owed' \in [Threads -> SUBSET Pairs]
<1>1. pins[m] \in Ops /\ deny[pins[m]] \in SUBSET Radios /\ {m} \in SUBSET Clients
  BY DEF TypeOK
<1>2. Owe(<<"run", o>>, {m}, deny[pins[m]])
  BY DEF TakeFrom
<1>3. owed' \in [Threads -> SUBSET Pairs]
  BY <1>1, <1>2, ThreadIds, OweType
<1>4. QED
  BY <1>1, <1>3 DEF TakeFrom, TypeOK

LEMMA LandedType ==
  ASSUME TypeOK, NEW m \in Clients, NEW r \in Radios, Landed(m, r)
  PROVE  pending' \in [Ops -> SUBSET Clients] /\ due' \in SUBSET Ops
<1>1. CASE pins[m] # NoOp /\ SatisfiedBy(pins[m], r)
  <2>1. pins[m] \in Ops
    BY <1>1 DEF TypeOK
  <2>2. /\ pending' = [pending EXCEPT ![pins[m]] = @ \ {m}]
        /\ due' = due \cup {pins[m]} \/ due' = due
    BY <1>1 DEF Landed
  <2>3. QED
    BY <2>1, <2>2 DEF TypeOK
<1>2. CASE ~(pins[m] # NoOp /\ SatisfiedBy(pins[m], r))
  BY <1>2 DEF Landed, TypeOK
<1>3. QED
  BY <1>1, <1>2

LEMMA ReleaseType ==
  ASSUME TypeOK, NEW o \in Ops, NEW m \in Clients, ReleaseUnlessHeld(o, m)
  PROVE  owed' \in [Threads -> SUBSET Pairs]
<1>1. deny[o] \in SUBSET Radios /\ {m} \in SUBSET Clients /\ <<"run", o>> \in Threads
  BY ThreadIds DEF TypeOK
<1>2. CASE PinHeld(o, m)
  BY <1>2 DEF ReleaseUnlessHeld, TypeOK
<1>3. CASE ~PinHeld(o, m)
  <2>1. Owe(<<"run", o>>, {m}, deny[o])
    BY <1>3 DEF ReleaseUnlessHeld
  <2>2. QED
    BY <1>1, <2>1, OweType
<1>4. QED
  BY <1>2, <1>3

LEMMA EmptiedType == ASSUME TypeOK, NEW m \in Clients PROVE Emptied(m) \in SUBSET Ops
BY DEF Emptied, TypeOK

LEMMA TypeInvariant == Spec => []TypeInv
<1>1. Init => TypeInv
  BY PrimaryAssumption DEF Init, TypeInv, TypeOK, ZoneWF, Active, ZonePC, OpPC, BoxKinds,
    ClientKinds
<1>2. TypeInv /\ [Next]_vars => TypeInv'
  <2> SUFFICES ASSUME TypeInv, [Next]_vars PROVE TypeInv'
    OBVIOUS
  <2> USE PrimaryAssumption, NoneAssumption, BoundsAssumption, KindsAssumption, ThreadIds
  <2> USE DEF TypeInv, TypeOK, ZoneWF, Active, hostapd, zones, command, clearing, runpin, releases,
              bounds, ZonePC, OpPC, BoxKinds, ClientKinds, Pairs
  <2>1. ASSUME NEW m \in Clients, NEW r \in Radios, NEW heard \in BOOLEAN, Associate(m, r, heard)
      PROVE  TypeInv'
    BY <2>1, LandedType DEF Associate
  <2>2. ASSUME NEW m \in Clients, Leave(m) PROVE TypeInv'
    BY <2>2 DEF Leave
  <2>3. ASSUME NEW t \in Threads, NEW m \in Clients, NEW r \in Radios, AskStillDenied(t, m, r)
      PROVE  TypeInv'
    BY <2>3, UnwindType DEF AskStillDenied
  <2>4. ASSUME NEW t \in Threads, NEW m \in Clients, NEW r \in Radios, DenyDel(t, m, r)
      PROVE  TypeInv'
    BY <2>4 DEF DenyDel
  <2>5. ASSUME NEW z \in Zones, NEW m \in Clients, NEW on \in SUBSET Radios, LinkDeadzone(z, m, on)
      PROVE  TypeInv'
    BY <2>5 DEF LinkDeadzone
  <2>6. ASSUME NEW o \in Ops, NEW r \in Radios, GatherTo(o, r) PROVE TypeInv'
    BY <2>6 DEF GatherTo, BoxCommand, Started, InForce
  <2>7. ASSUME NEW o \in Ops, NEW r \in Radios, EvictFrom(o, r) PROVE TypeInv'
    BY <2>7 DEF EvictFrom, BoxCommand, Started, InForce
  <2>8. ASSUME NEW o \in Ops, ForceSteer(o) PROVE TypeInv'
    BY <2>8 DEF ForceSteer, BoxCommand, Started, InForce
  <2>9. ASSUME NEW o \in Ops, NEW m \in Clients, NEW r \in Radios, GatherClientTo(o, m, r)
      PROVE  TypeInv'
    BY <2>9, TakeType, EmptiedType DEF GatherClientTo, ClientCommand, Started
  <2>10. ASSUME NEW o \in Ops, NEW m \in Clients, EvictClient(o, m) PROVE TypeInv'
    BY <2>10, TakeType, EmptiedType DEF EvictClient, ClientCommand, Started, RadioFor
  <2>11. ASSUME DaemonRestart PROVE TypeInv'
    BY <2>11 DEF DaemonRestart
  <2>12. ASSUME NEW z \in Zones, NEW r \in Radios, DeadzoneAdd(z, r) PROVE TypeInv'
    BY <2>12 DEF DeadzoneAdd, DenyAdd
  <2>13. ASSUME NEW z \in Zones, DeadzoneRefused(z) PROVE TypeInv'
    BY <2>13, UnwindType DEF DeadzoneRefused, EndZone
  <2>14. ASSUME NEW z \in Zones, NoteDeadzone(z) PROVE TypeInv'
    BY <2>14 DEF NoteDeadzone, Kick
  <2>15. ASSUME NEW z \in Zones, DeadzoneLapses(z) PROVE TypeInv'
    BY <2>15 DEF DeadzoneLapses
  <2>16. ASSUME NEW z \in Zones, ForgetDeadzone(z) PROVE TypeInv'
    BY <2>16, OweType DEF ForgetDeadzone, EndZone
  <2>17. ASSUME NEW o \in Ops, NEW x \in Ops, ClearNext(o, x) PROVE TypeInv'
    BY <2>17, LiftType DEF ClearNext
  <2>18. ASSUME NEW o \in Ops, NEW x \in Ops, ConsumeOnce(o, x) PROVE TypeInv'
    BY <2>18 DEF ConsumeOnce
  <2>19. ASSUME NEW o \in Ops, ClearWaited(o) PROVE TypeInv'
    BY <2>19 DEF ClearWaited
  <2>20. ASSUME NEW o \in Ops, Cleared(o) PROVE TypeInv'
    <3>1. ToMove(o) \in SUBSET Clients
      BY DEF ToMove
    <3>2. CASE ToMove(o) = {}
      BY <2>20, <3>2, CollectType DEF Cleared
    <3>3. CASE ToMove(o) # {}
      <4>1. /\ pc' = [pc EXCEPT ![o] = "note"]
            /\ macs' = [macs EXCEPT ![o] = ToMove(o)]
            /\ kind' = [kind EXCEPT ![o] = "steer"]
            /\ UNCHANGED <<pins, to, deny, pending>>
        BY <2>20, <3>3 DEF Cleared
      <4>2. UNCHANGED <<hostapd, zones, once, due, clearing, runpin, releases, bounds>>
        BY <2>20 DEF Cleared
      <4>3. QED
        BY <4>1, <4>2, <3>1
    <3>4. QED
      BY <3>2, <3>3
  <2>21. ASSUME NEW o \in Ops, NotePins(o) PROVE TypeInv'
    BY <2>21 DEF NotePins, RadioFor
  <2>22. ASSUME NEW o \in Ops, NEW m \in Clients, NEW r \in Radios, BarAdd(o, m, r)
      PROVE  TypeInv'
    BY <2>22 DEF BarAdd, InHand, Others, DenyAdd
  <2>23. ASSUME NEW o \in Ops, NEW m \in Clients, Barred(o, m) PROVE TypeInv'
    BY <2>23 DEF Barred, InHand, Done
  <2>24. ASSUME NEW o \in Ops, NEW m \in Clients, BarRefused(o, m) PROVE TypeInv'
    <3>1. Unwind(<<"run", o>>, m, put[o]) /\ put[o] \in SUBSET Radios /\ {m} \in SUBSET Clients
      BY <2>24 DEF BarRefused
    <3>2. asked' \in [Threads -> SUBSET Pairs]
      BY <3>1, UnwindType
    <3>3. QED
      BY <2>24, <3>2 DEF BarRefused, InHand
  <2>25. ASSUME NEW o \in Ops, AskBeforeDeny(o) PROVE TypeInv'
    BY <2>25 DEF AskBeforeDeny
  <2>26. ASSUME NEW o \in Ops, NEW m \in Clients, ClosePass(o, m) PROVE TypeInv'
    BY <2>26, ReleaseType DEF ClosePass, InHand, Done
  <2>27. ASSUME NEW o \in Ops, NEW m \in Clients, CloseAdd(o, m) PROVE TypeInv'
    BY <2>27 DEF CloseAdd, InHand, NothingToClose, DenyAdd
  <2>28. ASSUME NEW o \in Ops, NEW m \in Clients, CloseRecheck(o, m) PROVE TypeInv'
    BY <2>28, ReleaseType DEF CloseRecheck, InHand, Done
  <2>29. ASSUME NEW o \in Ops, NEW m \in Clients, CloseRefused(o, m) PROVE TypeInv'
    <3>1. Owe(<<"run", o>>, {m}, deny[o]) /\ deny[o] \in SUBSET Radios /\ {m} \in SUBSET Clients
      BY <2>29 DEF CloseRefused
    <3>2. owed' \in [Threads -> SUBSET Pairs]
      BY <3>1, OweType
    <3>3. QED
      BY <2>29, <3>2 DEF CloseRefused, InHand
  <2>30. ASSUME NEW o \in Ops, NEW m \in Clients, FailClient(o, m) PROVE TypeInv'
    BY <2>30 DEF FailClient
  <2>31. ASSUME NEW o \in Ops, NobodyPinned(o) PROVE TypeInv'
    BY <2>31, LiftType, CollectType DEF NobodyPinned
  <2>32. ASSUME NEW o \in Ops, KickFromDenied(o) PROVE TypeInv'
    BY <2>32 DEF KickFromDenied, Kick
  <2>33. ASSUME NEW o \in Ops, LiftDue(o) PROVE TypeInv'
    BY <2>33, LiftType DEF LiftDue
  <2>34. ASSUME NEW o \in Ops, PinTimeout(o) PROVE TypeInv'
    BY <2>34, LiftType, CollectType DEF PinTimeout
  <2>35. CASE UNCHANGED vars
    BY <2>35 DEF vars
  <2> HIDE DEF TypeInv
  <2>36. QED
    BY <2>1, <2>2, <2>3, <2>4, <2>5, <2>6, <2>7, <2>8, <2>9, <2>10, <2>11, <2>12, <2>13, <2>14,
      <2>15, <2>16, <2>17, <2>18, <2>19, <2>20, <2>21, <2>22, <2>23, <2>24, <2>25, <2>26, <2>27,
      <2>28, <2>29, <2>30, <2>31, <2>32, <2>33, <2>34, <2>35 DEF Next, Radio, Release, Command,
      Deadzone, RunPin, Lift
<1>3. QED
  BY <1>1, <1>2, PTL DEF Spec

----------------------------------------------------------------------------
(* The registries and the control of the handlers.                         *)

\* A per-client command finds its client alone in the operation it is taken from.
LEMMA TakenAlone ==
  ASSUME Orderly, IInv, NEW k \in Kinds, k \in ClientKinds,
         NEW m1 \in Clients, NEW m2 \in Clients, pins[m1] # NoOp, pins[m2] = pins[m1]
  PROVE  m1 = m2
<1>1. CASE Kinds \subseteq BoxKinds
  BY <1>1 DEF BoxKinds, ClientKinds
<1>2. CASE Kinds \subseteq ClientKinds
  <2>1. pins[m1] \in Ops
    BY DEF IInv, TypeInv, TypeOK
  <2>2. m1 \in macs[pins[m1]] /\ m2 \in macs[pins[m1]]
    BY DEF IInv, Control, LiveClaim
  <2>3. QED
    BY <1>2, <2>1, <2>2 DEF IInv, Control, SingleInv
<1>3. CASE \A c1, c2 \in Clients : c1 = c2
  BY <1>3
<1>4. QED
  BY <1>1, <1>2, <1>3 DEF Orderly, Unmixed

\* An operation lifted has no claim left, and nobody else loses one.
LEMMA LiftedPins ==
  ASSUME TypeOK, NEW o \in Ops, LiftPins(o), NEW m \in Clients
  PROVE  pins'[m] = pins[m] \/ (pins[m] = o /\ o \notin once)
BY DEF LiftPins, TypeOK

\* Operations collected as garbage have no clients left.
LEMMA CollectedSingle ==
  ASSUME TypeOK, SingleInv, NEW o \in Ops, Collect(o)
  PROVE  SingleInv'
<1>1. macs' = macs \/ macs' = [macs EXCEPT ![o] = {}]
  BY DEF Collect
<1>2. \A o1 \in Ops : macs'[o1] \subseteq macs[o1]
  BY <1>1 DEF TypeOK
<1>3. QED
  BY <1>2 DEF SingleInv

\* The end of clearPins leaves a per-client command the one client it is about.
LEMMA ClearedSingle ==
  ASSUME TypeOK, SingleInv, ClearInv, NEW o \in Ops, Cleared(o)
  PROVE  SingleInv'
<1> SUFFICES ASSUME Kinds \subseteq ClientKinds PROVE SingleInv'
  BY DEF SingleInv
<1>1. ToMove(o) = macs[o]
  BY DEF Cleared, ClearInv, ToMove
<1>2. \/ macs' = macs \/ macs' = [macs EXCEPT ![o] = {}]
      \/ macs' = [macs EXCEPT ![o] = macs[o]]
  BY <1>1 DEF Cleared, Collect
<1>3. \A o1 \in Ops : macs'[o1] \subseteq macs[o1]
  BY <1>2 DEF TypeOK
<1>4. QED
  BY <1>3 DEF SingleInv

LEMMA ClearedOthers ==
  ASSUME TypeOK, NEW o \in Ops, Cleared(o)
  PROVE  /\ UNCHANGED <<zones, once, due, todo, pins, left, held>>
         /\ \A o1 \in Ops \ {o} :
              /\ macs'[o1] = macs[o1] /\ pc'[o1] = pc[o1]
              /\ kind'[o1] = kind[o1] /\ deny'[o1] = deny[o1]
         /\ pc[o] = "clear" /\ pc'[o] \in {"over", "note"}
         /\ deny'[o] \in {deny[o], {}}
<1>1. pc[o] = "clear" /\ UNCHANGED <<zones, once, due, todo, pins, left, held>>
  BY DEF Cleared, clearing, runpin, Collect
<1>2. /\ pc' = [pc EXCEPT ![o] = "over"] \/ pc' = [pc EXCEPT ![o] = "note"]
      /\ kind' = [kind EXCEPT ![o] = "steer"]
      /\ deny' = deny \/ deny' = [deny EXCEPT ![o] = {}]
      /\ macs' = macs \/ macs' = [macs EXCEPT ![o] = {}] \/ macs' = [macs EXCEPT ![o] = ToMove(o)]
  BY DEF Cleared, Collect
<1>3. QED
  BY <1>1, <1>2 DEF TypeOK

LEMMA ClearedControl ==
  ASSUME TypeOK, RecordWF, Control, NEW o \in Ops, Cleared(o)
  PROVE  /\ RecordWF' /\ SerialInv' /\ NoFailInv' /\ BegunInv' /\ LiveClaim'
         /\ HandlingInv' /\ DenyInv'
         /\ OverInv' /\ WaitsOnlyForHeld' /\ EmptiedInv'
<1> USE NoneAssumption, ClearedOthers DEF Control
<1>1. RecordWF'
  BY DEF RecordWF, zones
<1>2. SerialInv' /\ NoFailInv'
  BY DEF SerialInv, NoFailInv, Busy
<1>3. \A o1 \in Ops : Begun(o1) => o1 # o /\ Begun(o1)'
  BY DEF Begun
<1>4. BegunInv'
  BY <1>3 DEF BegunInv, TypeOK
<1>5. LiveClaim'
  BY <1>3 DEF LiveClaim, BegunInv, TypeOK
<1>6. HandlingInv'
  BY DEF HandlingInv, Begun
<1>7. DenyInv'
  BY PrimaryAssumption DEF DenyInv
<1>8. OverInv'
  BY <1>3 DEF OverInv, BegunInv, Begun, TypeOK
<1>9. WaitsOnlyForHeld'
  <2>1. \A o1 \in Ops : pending'[o1] \subseteq pending[o1]
    <3>1. pending' = pending \/ pending' = [pending EXCEPT ![o] = {}]
      BY DEF Cleared, Collect
    <3>2. QED
      BY <3>1 DEF TypeOK
  <2>2. QED
    BY <2>1 DEF WaitsOnlyForHeld
<1>10. EmptiedInv'
  BY DEF EmptiedInv
<1>11. QED
  BY <1>1, <1>2, <1>4, <1>5, <1>6, <1>7, <1>8, <1>9, <1>10

\* notePins takes free clients and is the only command at work.
LEMMA NotedHandling ==
  ASSUME TypeOK, Control, NEW o \in Ops, NotePins(o)
  PROVE  HandlingInv'
<1>1. /\ pc[o] = "note" /\ pc' = [pc EXCEPT ![o] = "bar"]
      /\ left' = [left EXCEPT ![o] = macs[o]] /\ held' = held /\ macs' = macs
      /\ pins' = [m \in Clients |-> IF m \in macs[o] THEN o ELSE pins[m]]
  BY DEF NotePins, command
<1>2. held'[o] = {} /\ left'[o] = macs[o] /\ \A m \in macs[o] : pins'[m] = o
  BY <1>1 DEF Control, HandlingInv, Begun, TypeOK
<1>3. \A o1 \in Ops \ {o} : pc'[o1] = pc[o1] /\ pc[o1] \notin {"bar", "close"}
  BY <1>1 DEF Control, SerialInv, Busy, TypeOK
<1>4. \A o1 \in Ops \ {o} : (~Begun(o1))' => held'[o1] = {}
  BY <1>1, <1>3 DEF Control, HandlingInv, Begun
<1>5. QED
  BY <1>1, <1>2, <1>3, <1>4 DEF HandlingInv

\* Taking a client out of an operation spends at most an operation that was begun.
LEMMA TakenBegun ==
  ASSUME TypeOK, BegunInv, NEW o \in Ops, NEW m \in Clients,
         pins' \in {pins, [pins EXCEPT ![m] = NoOp]}, due' = due, once' = once,
         todo' = [todo EXCEPT ![o] = Emptied(m)], pc[o] = "idle", pc' = [pc EXCEPT ![o] = "clear"]
  PROVE  BegunInv'
<1> DEFINE Late(x) == pc'[x] \notin {"idle", "clear", "note"}
<1>1. \A o1 \in Ops : Begun(o1) => Late(o1)
  BY DEF Begun, TypeOK
<1>2. Emptied(m) \subseteq {pins[m]} \ {NoOp} /\ Emptied(m) \subseteq Ops
  BY DEF TypeOK, Emptied
<1>3. \A o1 \in once' \cup due' : Late(o1)
  BY <1>1 DEF BegunInv, TypeOK
<1>4. \A m1 \in Clients : pins'[m1] # NoOp => Late(pins'[m1])
  BY <1>1 DEF BegunInv, TypeOK
<1>5. \A o1 \in Ops : \A x \in todo'[o1] : Late(x)
  BY <1>1, <1>2 DEF BegunInv, TypeOK
<1>6. QED
  BY <1>3, <1>4, <1>5 DEF BegunInv, Begun

LEMMA TakenWaits ==
  ASSUME TypeOK, OverInv, WaitsOnlyForHeld, NEW o \in Ops, NEW m \in Clients, pins[m] # NoOp,
         TakeFrom(o, m, pins[m]), once' = once, pc' = [pc EXCEPT ![o] = "clear"]
  PROVE  OverInv' /\ WaitsOnlyForHeld'
<1>1. pins' = [pins EXCEPT ![m] = NoOp] /\ pins[m] \in Ops
  BY DEF TakeFrom, TypeOK
<1>2. (\A o1 \in Ops : pending'[o1] \subseteq pending[o1]) /\ m \notin pending'[pins[m]]
  BY <1>1 DEF TakeFrom, TypeOK
<1>3. WaitsOnlyForHeld'
  BY <1>1, <1>2, NoneAssumption DEF WaitsOnlyForHeld, TypeOK
<1>4. OverInv'
  BY <1>1 DEF OverInv, TypeOK
<1>5. QED
  BY <1>3, <1>4

\* An operation emptied of its last client holds nobody.
LEMMA TakenEmptied ==
  ASSUME TypeOK, NEW m \in Clients,
         pins[m] # NoOp => \A m2 \in Clients : pins[m2] = pins[m] => m2 = m,
         pins[m] # NoOp => pins' = [pins EXCEPT ![m] = NoOp]
  PROVE  \A x \in Emptied(m) : \A m1 \in Clients : pins'[m1] # x
BY DEF Emptied, TypeOK

\* An arrival makes due an operation that was begun, and shrinks what is waited for.
LEMMA LandedControl ==
  ASSUME TypeOK, BegunInv, WaitsOnlyForHeld, NEW m \in Clients, NEW r \in Radios, Landed(m, r),
         UNCHANGED <<pins, once, pc, todo>>
  PROVE  BegunInv' /\ WaitsOnlyForHeld'
<1>1. \A o \in Ops : pending'[o] \subseteq pending[o]
  <2>1. pending' = pending \/ pending' = [pending EXCEPT ![pins[m]] = @ \ {m}]
    BY DEF Landed
  <2>2. pending \in [Ops -> SUBSET Clients]
    BY DEF TypeOK
  <2>3. QED
    BY <2>1, <2>2
<1>2. due' \subseteq due \cup {pins[m]} /\ (due' # due => pins[m] # NoOp)
  BY DEF Landed
<1>3. BegunInv'
  BY <1>2 DEF BegunInv, Begun
<1>4. WaitsOnlyForHeld'
  BY <1>1 DEF WaitsOnlyForHeld
<1>5. QED
  BY <1>3, <1>4

LEMMA ControlStep ==
  ASSUME Orderly, IInv, [Next]_vars, TypeInv'
  PROVE  RecordWF' /\ Control'
<1> USE PrimaryAssumption, NoneAssumption, BoundsAssumption, KindsAssumption
<1> USE DEF IInv, Control, TypeInv, TypeOK, hostapd, zones, command, clearing, runpin, releases,
            bounds, Orderly, MayStart, RecordWF, SerialInv, Busy, NoFailInv, BegunInv, Begun,
            LiveClaim, SingleInv, ClearInv, EmptiedInv, HandlingInv, DenyInv, OverInv,
            WaitsOnlyForHeld, BoxKinds, ClientKinds
<1>1. ASSUME NEW m \in Clients, NEW r \in Radios, NEW heard \in BOOLEAN, Associate(m, r, heard)
    PROVE  RecordWF' /\ Control'
  <2>1. UNCHANGED <<deadzones, zpc, zmac, pins, once, pc, todo, macs, kind, left, held, deny>>
    BY <1>1 DEF Associate
  <2>2. /\ RecordWF' /\ SerialInv' /\ NoFailInv' /\ LiveClaim' /\ SingleInv' /\ ClearInv'
        /\ EmptiedInv' /\ HandlingInv' /\ DenyInv' /\ OverInv'
    BY <2>1
  <2>3. BegunInv' /\ WaitsOnlyForHeld'
    <3>1. TypeOK /\ BegunInv /\ WaitsOnlyForHeld
      OBVIOUS
    <3> HIDE DEF TypeOK, BegunInv, WaitsOnlyForHeld
    <3>2. CASE heard
      <4>1. Landed(m, r)
        BY <1>1, <3>2 DEF Associate
      <4>2. QED
        BY <2>1, <3>1, <4>1, LandedControl
    <3>3. CASE ~heard
      <4>1. UNCHANGED <<pending, due>>
        BY <1>1, <3>3 DEF Associate
      <4>2. QED
        BY <2>1, <3>1, <4>1 DEF BegunInv, Begun, WaitsOnlyForHeld
    <3>4. QED
      BY <3>2, <3>3
  <2>4. QED
    BY <2>2, <2>3
<1>2. ASSUME NEW m \in Clients, Leave(m) PROVE RecordWF' /\ Control'
  BY <1>2 DEF Leave
<1>3. ASSUME NEW t \in Threads, NEW m \in Clients, NEW r \in Radios, AskStillDenied(t, m, r)
    PROVE  RecordWF' /\ Control'
  BY <1>3 DEF AskStillDenied, Unwind
<1>4. ASSUME NEW t \in Threads, NEW m \in Clients, NEW r \in Radios, DenyDel(t, m, r)
    PROVE  RecordWF' /\ Control'
  BY <1>4 DEF DenyDel
<1>5. ASSUME NEW z \in Zones, NEW m \in Clients, NEW on \in SUBSET Radios, LinkDeadzone(z, m, on)
    PROVE  RecordWF' /\ Control'
  BY <1>5 DEF LinkDeadzone
<1>6. ASSUME NEW o \in Ops, NEW r \in Radios, GatherTo(o, r) PROVE RecordWF' /\ Control'
  BY <1>6 DEF GatherTo, BoxCommand, Started, InForce
<1>7. ASSUME NEW o \in Ops, NEW r \in Radios, EvictFrom(o, r) PROVE RecordWF' /\ Control'
  BY <1>7 DEF EvictFrom, BoxCommand, Started, InForce
<1>8. ASSUME NEW o \in Ops, ForceSteer(o) PROVE RecordWF' /\ Control'
  BY <1>8 DEF ForceSteer, BoxCommand, Started, InForce
<1>9. ASSUME NEW o \in Ops, NEW m \in Clients, NEW r \in Radios, GatherClientTo(o, m, r)
    PROVE  RecordWF' /\ Control'
  <2>1. pins[m] # NoOp => \A m2 \in Clients : pins[m2] = pins[m] => m2 = m
    <3>1. "gatherClient" \in Kinds /\ "gatherClient" \in ClientKinds
      BY <1>9 DEF GatherClientTo, ClientCommand, Started
    <3> HIDE DEF IInv, Orderly
    <3>2. QED
      BY <3>1, TakenAlone
  <2>2. LiveClaim'
    <3>1. CASE pins[m] = NoOp
      BY <1>9, <3>1 DEF GatherClientTo, ClientCommand, Started
    <3>2. CASE pins[m] # NoOp
      BY <1>9, <3>2 DEF GatherClientTo, ClientCommand, Started, TakeFrom
    <3>3. QED
      BY <3>1, <3>2
  <2>3. RecordWF' /\ SerialInv' /\ NoFailInv'
    BY <1>9 DEF GatherClientTo, ClientCommand, Started, Emptied, TakeFrom, Owe
  <2>4. BegunInv'
    <3>1. /\ pins' \in {pins, [pins EXCEPT ![m] = NoOp]} /\ due' = due /\ once' = once
          /\ todo' = [todo EXCEPT ![o] = Emptied(m)]
          /\ pc[o] = "idle" /\ pc' = [pc EXCEPT ![o] = "clear"]
      BY <1>9 DEF GatherClientTo, ClientCommand, Started, TakeFrom
    <3>2. TypeOK /\ BegunInv
      OBVIOUS
    <3> HIDE DEF TypeOK, BegunInv
    <3>3. QED
      BY <3>1, <3>2, TakenBegun
  <2>5. OverInv' /\ WaitsOnlyForHeld'
    <3>1. CASE pins[m] = NoOp
      BY <1>9, <3>1 DEF GatherClientTo, ClientCommand, Started
    <3>2. CASE pins[m] # NoOp
      <4>1. TakeFrom(o, m, pins[m]) /\ once' = once /\ pc' = [pc EXCEPT ![o] = "clear"]
        BY <1>9, <3>2 DEF GatherClientTo, ClientCommand, Started
      <4>2. TypeOK /\ OverInv /\ WaitsOnlyForHeld
        OBVIOUS
      <4> HIDE DEF TypeOK, OverInv, WaitsOnlyForHeld
      <4>3. QED
        BY <3>2, <4>1, <4>2, TakenWaits
    <3>3. QED
      BY <3>1, <3>2
  <2>6. EmptiedInv'
    <3>1. \A x \in Emptied(m) : \A m1 \in Clients : pins'[m1] # x
      <4>1. pins[m] # NoOp => pins' = [pins EXCEPT ![m] = NoOp]
        BY <1>9 DEF GatherClientTo, ClientCommand, TakeFrom
      <4>2. TypeOK
        OBVIOUS
      <4> HIDE DEF TypeOK
      <4>3. QED
        BY <2>1, <4>1, <4>2, TakenEmptied
    <3>2. \A o1 \in Ops : pc'[o1] = "clear" => o1 = o
      BY <1>9 DEF GatherClientTo, ClientCommand, Started
    <3>3. todo'[o] = Emptied(m)
      BY <1>9 DEF GatherClientTo, ClientCommand, Started
    <3>4. QED
      BY <3>1, <3>2, <3>3
  <2>7. SingleInv' /\ ClearInv' /\ HandlingInv' /\ DenyInv'
    BY <1>9 DEF GatherClientTo, ClientCommand, Started, Emptied, TakeFrom, Owe
  <2>8. QED
    BY <2>2, <2>3, <2>4, <2>5, <2>6, <2>7
<1>10. ASSUME NEW o \in Ops, NEW m \in Clients, EvictClient(o, m) PROVE RecordWF' /\ Control'
  <2>1. pins[m] # NoOp => \A m2 \in Clients : pins[m2] = pins[m] => m2 = m
    <3>1. "evictClient" \in Kinds /\ "evictClient" \in ClientKinds
      BY <1>10 DEF EvictClient, ClientCommand, Started
    <3> HIDE DEF IInv, Orderly
    <3>2. QED
      BY <3>1, TakenAlone
  <2>2. LiveClaim'
    <3>1. CASE pins[m] = NoOp
      BY <1>10, <3>1 DEF EvictClient, ClientCommand, Started
    <3>2. CASE pins[m] # NoOp
      BY <1>10, <3>2 DEF EvictClient, ClientCommand, Started, TakeFrom
    <3>3. QED
      BY <3>1, <3>2
  <2>3. RecordWF' /\ SerialInv' /\ NoFailInv'
    BY <1>10 DEF EvictClient, ClientCommand, Started, Emptied, TakeFrom, Owe, RadioFor
  <2>4. BegunInv'
    <3>1. /\ pins' \in {pins, [pins EXCEPT ![m] = NoOp]} /\ due' = due /\ once' = once
          /\ todo' = [todo EXCEPT ![o] = Emptied(m)]
          /\ pc[o] = "idle" /\ pc' = [pc EXCEPT ![o] = "clear"]
      BY <1>10 DEF EvictClient, ClientCommand, Started, TakeFrom
    <3>2. TypeOK /\ BegunInv
      OBVIOUS
    <3> HIDE DEF TypeOK, BegunInv
    <3>3. QED
      BY <3>1, <3>2, TakenBegun
  <2>5. OverInv' /\ WaitsOnlyForHeld'
    <3>1. CASE pins[m] = NoOp
      BY <1>10, <3>1 DEF EvictClient, ClientCommand, Started
    <3>2. CASE pins[m] # NoOp
      <4>1. TakeFrom(o, m, pins[m]) /\ once' = once /\ pc' = [pc EXCEPT ![o] = "clear"]
        BY <1>10, <3>2 DEF EvictClient, ClientCommand, Started
      <4>2. TypeOK /\ OverInv /\ WaitsOnlyForHeld
        OBVIOUS
      <4> HIDE DEF TypeOK, OverInv, WaitsOnlyForHeld
      <4>3. QED
        BY <3>2, <4>1, <4>2, TakenWaits
    <3>3. QED
      BY <3>1, <3>2
  <2>6. EmptiedInv'
    <3>1. \A x \in Emptied(m) : \A m1 \in Clients : pins'[m1] # x
      <4>1. pins[m] # NoOp => pins' = [pins EXCEPT ![m] = NoOp]
        BY <1>10 DEF EvictClient, ClientCommand, TakeFrom
      <4>2. TypeOK
        OBVIOUS
      <4> HIDE DEF TypeOK
      <4>3. QED
        BY <2>1, <4>1, <4>2, TakenEmptied
    <3>2. \A o1 \in Ops : pc'[o1] = "clear" => o1 = o
      BY <1>10 DEF EvictClient, ClientCommand, Started
    <3>3. todo'[o] = Emptied(m)
      BY <1>10 DEF EvictClient, ClientCommand, Started
    <3>4. QED
      BY <3>1, <3>2, <3>3
  <2>7. SingleInv' /\ ClearInv' /\ HandlingInv' /\ DenyInv'
    BY <1>10 DEF EvictClient, ClientCommand, Started, Emptied, TakeFrom, Owe, RadioFor
  <2>8. QED
    BY <2>2, <2>3, <2>4, <2>5, <2>6, <2>7
<1>11. ASSUME DaemonRestart PROVE RecordWF' /\ Control'
  BY <1>11 DEF DaemonRestart
<1>12. ASSUME NEW z \in Zones, NEW r \in Radios, DeadzoneAdd(z, r) PROVE RecordWF' /\ Control'
  BY <1>12 DEF DeadzoneAdd, DenyAdd
<1>13. ASSUME NEW z \in Zones, DeadzoneRefused(z) PROVE RecordWF' /\ Control'
  BY <1>13 DEF DeadzoneRefused, Unwind, EndZone
<1>14. ASSUME NEW z \in Zones, NoteDeadzone(z) PROVE RecordWF' /\ Control'
  BY <1>14 DEF NoteDeadzone, Kick
<1>15. ASSUME NEW z \in Zones, DeadzoneLapses(z) PROVE RecordWF' /\ Control'
  BY <1>15 DEF DeadzoneLapses
<1>16. ASSUME NEW z \in Zones, ForgetDeadzone(z) PROVE RecordWF' /\ Control'
  BY <1>16 DEF ForgetDeadzone, Owe, EndZone
<1>17. ASSUME NEW o \in Ops, NEW x \in Ops, ClearNext(o, x) PROVE RecordWF' /\ Control'
  BY <1>17 DEF ClearNext, LiftPins, Owe
<1>18. ASSUME NEW o \in Ops, NEW x \in Ops, ConsumeOnce(o, x) PROVE RecordWF' /\ Control'
  BY <1>18 DEF ConsumeOnce
<1>19. ASSUME NEW o \in Ops, ClearWaited(o) PROVE RecordWF' /\ Control'
  BY <1>19 DEF ClearWaited
<1>20. ASSUME NEW o \in Ops, Cleared(o) PROVE RecordWF' /\ Control'
  <2>1. ClearInv'
    BY <1>20 DEF Cleared, ToMove, Collect
  <2> HIDE DEF IInv, TypeOK, SingleInv, ClearInv, RecordWF
  <2>2. TypeOK /\ SingleInv /\ ClearInv /\ RecordWF /\ Control
    BY DEF IInv
  <2> HIDE DEF Control
  <2>3. SingleInv'
    BY <1>20, <2>2, ClearedSingle
  <2>4. QED
    BY <1>20, <2>1, <2>2, <2>3, ClearedControl DEF Control
<1>21. ASSUME NEW o \in Ops, NotePins(o) PROVE RecordWF' /\ Control'
  <2>1. RecordWF' /\ SerialInv' /\ NoFailInv' /\ BegunInv' /\ LiveClaim'
    BY <1>21 DEF NotePins
  <2>2. SingleInv' /\ ClearInv' /\ EmptiedInv' /\ DenyInv'
    BY <1>21 DEF NotePins
  <2>3. OverInv' /\ WaitsOnlyForHeld'
    BY <1>21 DEF NotePins
  <2>4. HandlingInv'
    <3> HIDE DEF IInv, Control, TypeOK, HandlingInv
    <3>1. TypeOK /\ Control
      BY DEF IInv
    <3>2. QED
      BY <1>21, <3>1, NotedHandling
  <2>5. QED
    BY <2>1, <2>2, <2>3, <2>4
<1>22. ASSUME NEW o \in Ops, NEW m \in Clients, NEW r \in Radios, BarAdd(o, m, r)
    PROVE  RecordWF' /\ Control'
  BY <1>22 DEF BarAdd, InHand, Others, DenyAdd
<1>23. ASSUME NEW o \in Ops, NEW m \in Clients, Barred(o, m) PROVE RecordWF' /\ Control'
  BY <1>23 DEF Barred, InHand, Done
<1>24. ASSUME NEW o \in Ops, NEW m \in Clients, BarRefused(o, m) PROVE RecordWF' /\ Control'
  BY <1>24 DEF BarRefused, InHand, Unwind
<1>25. ASSUME NEW o \in Ops, AskBeforeDeny(o) PROVE RecordWF' /\ Control'
  BY <1>25 DEF AskBeforeDeny
<1>26. ASSUME NEW o \in Ops, NEW m \in Clients, ClosePass(o, m) PROVE RecordWF' /\ Control'
  BY <1>26 DEF ClosePass, InHand, ReleaseUnlessHeld, Owe, Done
<1>27. ASSUME NEW o \in Ops, NEW m \in Clients, CloseAdd(o, m) PROVE RecordWF' /\ Control'
  BY <1>27 DEF CloseAdd, InHand, NothingToClose, DenyAdd
<1>28. ASSUME NEW o \in Ops, NEW m \in Clients, CloseRecheck(o, m) PROVE RecordWF' /\ Control'
  BY <1>28 DEF CloseRecheck, InHand, ReleaseUnlessHeld, Owe, Done
<1>29. ASSUME NEW o \in Ops, NEW m \in Clients, CloseRefused(o, m) PROVE RecordWF' /\ Control'
  BY <1>29 DEF CloseRefused, InHand, Owe
<1>30. ASSUME NEW o \in Ops, NEW m \in Clients, FailClient(o, m) PROVE RecordWF' /\ Control'
  BY <1>30 DEF FailClient
<1>31. ASSUME NEW o \in Ops, NobodyPinned(o) PROVE RecordWF' /\ Control'
  <2>1. RecordWF' /\ SerialInv' /\ NoFailInv' /\ BegunInv' /\ LiveClaim'
    BY <1>31 DEF NobodyPinned, LiftPins, Owe, Collect
  <2>2. SingleInv'
    <3>1. Collect(o)
      BY <1>31 DEF NobodyPinned
    <3>2. TypeOK /\ SingleInv
      OBVIOUS
    <3> HIDE DEF TypeOK, SingleInv
    <3>3. QED
      BY <3>1, <3>2, CollectedSingle
  <2>3. ClearInv' /\ EmptiedInv' /\ HandlingInv' /\ DenyInv'
    BY <1>31 DEF NobodyPinned, LiftPins, Owe, Collect
  <2>4. OverInv' /\ WaitsOnlyForHeld'
    BY <1>31 DEF NobodyPinned, LiftPins, Owe, Collect
  <2>5. QED
    BY <2>1, <2>2, <2>3, <2>4
<1>32. ASSUME NEW o \in Ops, KickFromDenied(o) PROVE RecordWF' /\ Control'
  BY <1>32 DEF KickFromDenied, Kick
<1>33. ASSUME NEW o \in Ops, LiftDue(o) PROVE RecordWF' /\ Control'
  BY <1>33 DEF LiftDue, LiftPins, Owe
<1>34. ASSUME NEW o \in Ops, PinTimeout(o) PROVE RecordWF' /\ Control'
  <2>1. RecordWF' /\ SerialInv' /\ NoFailInv' /\ BegunInv' /\ LiveClaim'
    BY <1>34 DEF PinTimeout, LiftPins, Owe, Collect
  <2>2. SingleInv'
    <3>1. Collect(o)
      BY <1>34 DEF PinTimeout
    <3>2. TypeOK /\ SingleInv
      OBVIOUS
    <3> HIDE DEF TypeOK, SingleInv
    <3>3. QED
      BY <3>1, <3>2, CollectedSingle
  <2>3. ClearInv' /\ EmptiedInv' /\ HandlingInv' /\ DenyInv'
    BY <1>34 DEF PinTimeout, LiftPins, Owe, Collect
  <2>4. OverInv' /\ WaitsOnlyForHeld'
    BY <1>34 DEF PinTimeout, LiftPins, Owe, Collect
  <2>5. QED
    BY <2>1, <2>2, <2>3, <2>4
<1>35. CASE UNCHANGED vars
  BY <1>35 DEF vars
<1> HIDE DEF IInv, Control, RecordWF, Orderly
<1>36. QED
  BY <1>1, <1>2, <1>3, <1>4, <1>5, <1>6, <1>7, <1>8, <1>9, <1>10, <1>11, <1>12, <1>13, <1>14,
    <1>15, <1>16, <1>17, <1>18, <1>19, <1>20, <1>21, <1>22, <1>23, <1>24, <1>25, <1>26, <1>27,
    <1>28, <1>29, <1>30, <1>31, <1>32, <1>33, <1>34, <1>35 DEF Next, Radio, Release, Command,
    Deadzone, RunPin, Lift

----------------------------------------------------------------------------
(* Who answers for an entry.                                               *)

LEMMA OweOwns ==
  ASSUME TypeOK, NEW t \in Threads, NEW cs, NEW rs, Owe(t, cs, rs), asked' = asked,
         NEW m, NEW r, ReleaseOwns(m, r) \/ (m \in cs /\ r \in rs)
  PROVE  ReleaseOwns(m, r)'
<1>1. owed'[t] = owed[t] \cup (cs \X rs)
  BY DEF Owe, TypeOK
<1>2. \A u \in Threads : owed[u] \subseteq owed'[u]
  BY <1>1 DEF Owe, TypeOK
<1>3. CASE ReleaseOwns(m, r)
  BY <1>2, <1>3 DEF ReleaseOwns
<1>4. CASE m \in cs /\ r \in rs
  BY <1>1, <1>4 DEF ReleaseOwns
<1>5. QED
  BY <1>3, <1>4

LEMMA LiftOwns ==
  ASSUME TypeOK, NEW o \in Ops, LiftPins(o), asked' = asked, NEW m \in Clients, NEW r,
         \/ ReleaseOwns(m, r)
         \/ pins[m] = o /\ o \notin once /\ r \in deny[o]
  PROVE  ReleaseOwns(m, r)'
<1>1. CASE o \in once
  <2>1. owed' = owed
    BY <1>1 DEF LiftPins
  <2>2. QED
    BY <1>1, <2>1 DEF ReleaseOwns
<1>2. CASE o \notin once
  <2>1. Owe(<<"lift", o>>, {m1 \in Clients : pins[m1] = o}, deny[o])
    BY <1>2 DEF LiftPins
  <2>2. QED
    BY <2>1, ThreadIds, OweOwns
<1>3. QED
  BY <1>1, <1>2

LEMMA ReleaseUnlessHeldOwns ==
  ASSUME TypeOK, NEW o \in Ops, NEW m1 \in Clients, ReleaseUnlessHeld(o, m1), asked' = asked,
         NEW m \in Clients, NEW r,
         \/ ReleaseOwns(m, r)
         \/ m = m1 /\ ~PinHeld(o, m1) /\ r \in deny[o]
  PROVE  ReleaseOwns(m, r)'
<1>1. CASE PinHeld(o, m1)
  <2>1. owed' = owed
    BY <1>1 DEF ReleaseUnlessHeld
  <2>2. QED
    BY <1>1, <2>1 DEF ReleaseOwns
<1>2. CASE ~PinHeld(o, m1)
  <2>1. Owe(<<"run", o>>, {m1}, deny[o])
    BY <1>2 DEF ReleaseUnlessHeld
  <2>2. QED
    BY <2>1, ThreadIds, OweOwns
<1>3. QED
  BY <1>1, <1>2

\* A command that starts, and takes nobody from an operation, disturbs no owner.
LEMMA StartedOwns ==
  ASSUME IInv, NEW o \in Ops, NEW k, NEW dest, NEW bar, NEW cs, NEW ops,
         Started(o, k, dest, bar, cs, ops), UNCHANGED <<pins, owed>>,
         NEW m \in Clients, NEW r \in Radios, Owned(m, r)
  PROVE  Owned(m, r)'
<1> USE DEF Started, IInv, Control, TypeInv, TypeOK, zones, runpin
<1>1. ZoneOwns(m, r) => ZoneOwns(m, r)'
  BY DEF ZoneOwns
<1>2. PinOwns(m, r) => PinOwns(m, r)'
  BY NoneAssumption DEF PinOwns, BegunInv, Begun
<1>3. HandlerOwns(m, r) => HandlerOwns(m, r)'
  BY DEF HandlerOwns, Handling
<1>4. ReleaseOwns(m, r) => ReleaseOwns(m, r)'
  BY DEF ReleaseOwns
<1>5. QED
  BY <1>1, <1>2, <1>3, <1>4 DEF Owned

Kept(m, r)   == Owned(m, r)' \/ m \notin acl'[r]
Placed(m, r) == m \in acl[r] \/ Owned(m, r)'

\* Whatever answers for an entry hands it on in the same step, or the entry goes.
LEMMA OwnersKept ==
  ASSUME Orderly, IInv, [Next]_vars, NEW m1 \in Clients, NEW r1 \in Radios, Owned(m1, r1)
  PROVE  Kept(m1, r1)
<1> USE PrimaryAssumption, NoneAssumption, BoundsAssumption, KindsAssumption
<1> USE DEF IInv, Control, TypeInv, TypeOK, hostapd, zones, command, clearing, runpin, releases,
            bounds, Owned, Kept
<1>1. ASSUME NEW m \in Clients, NEW r \in Radios, NEW heard \in BOOLEAN, Associate(m, r, heard)
    PROVE  Kept(m1, r1)
  BY <1>1 DEF Associate, Landed, SatisfiedBy, Orderly, ZoneOwns, PinOwns, HandlerOwns,
    Handling, ReleaseOwns, BegunInv, Begun, NoFailInv
<1>2. ASSUME NEW m \in Clients, Leave(m) PROVE Kept(m1, r1)
  BY <1>2 DEF Leave, Orderly, ZoneOwns, PinOwns, HandlerOwns, Handling, ReleaseOwns, BegunInv,
    Begun, NoFailInv
<1>3. ASSUME NEW t \in Threads, NEW m \in Clients, NEW r \in Radios, AskStillDenied(t, m, r)
    PROVE  Kept(m1, r1)
  <2>1. ZoneOwns(m1, r1) => ZoneOwns(m1, r1)'
    BY <1>3 DEF AskStillDenied, Unwind, ZoneOwns
  <2>2. PinOwns(m1, r1) => PinOwns(m1, r1)'
    BY <1>3 DEF AskStillDenied, Unwind, PinOwns
  <2>3. HandlerOwns(m1, r1) => HandlerOwns(m1, r1)'
    BY <1>3 DEF AskStillDenied, Unwind, HandlerOwns, Handling
  <2>4. ReleaseOwns(m1, r1) => Owned(m1, r1)'
    <3>1. CASE <<m, r>> = <<m1, r1>> /\ ~StillDenied(m, r)
      <4>1. <<m1, r1>> \in asked'[t]
        BY <1>3, <3>1 DEF AskStillDenied, Unwind
      <4>2. QED
        BY <4>1 DEF ReleaseOwns
    <3>2. CASE <<m, r>> = <<m1, r1>> /\ StillDenied(m, r)
      <4>1. ZoneOwns(m1, r1) \/ PinOwns(m1, r1)
        BY <3>2 DEF StillDenied, ZoneOwns, PinOwns, RecordWF, ZoneWF
      <4>2. QED
        BY <4>1, <2>1, <2>2
    <3>3. CASE <<m, r>> # <<m1, r1>>
      <4>1. owed'[t] = owed[t] \ {<<m, r>>} /\ (\A u \in Threads : u # t => owed'[u] = owed[u])
        BY <1>3 DEF AskStillDenied
      <4>2. \A u \in Threads : asked[u] \subseteq asked'[u]
        BY <1>3 DEF AskStillDenied, Unwind
      <4>3. QED
        BY <3>3, <4>1, <4>2 DEF ReleaseOwns
    <3>4. QED
      BY <3>1, <3>2, <3>3
  <2>5. QED
    BY <2>1, <2>2, <2>3, <2>4
<1>4. ASSUME NEW t \in Threads, NEW m \in Clients, NEW r \in Radios, DenyDel(t, m, r)
    PROVE  Kept(m1, r1)
  <2>1. ZoneOwns(m1, r1) => ZoneOwns(m1, r1)'
    BY <1>4 DEF DenyDel, ZoneOwns
  <2>2. PinOwns(m1, r1) => PinOwns(m1, r1)'
    BY <1>4 DEF DenyDel, PinOwns
  <2>3. HandlerOwns(m1, r1) => HandlerOwns(m1, r1)'
    BY <1>4 DEF DenyDel, HandlerOwns, Handling
  <2>4. ReleaseOwns(m1, r1) => ReleaseOwns(m1, r1)' \/ m1 \notin acl'[r1]
    <3>1. CASE m = m1 /\ r = r1
      BY <1>4, <3>1 DEF DenyDel
    <3>2. CASE ~(m = m1 /\ r = r1)
      <4>1. asked'[t] = asked[t] \ {<<m, r>>} /\ (\A u \in Threads : u # t => asked'[u] = asked[u])
        BY <1>4 DEF DenyDel
      <4>2. owed' = owed
        BY <1>4 DEF DenyDel
      <4>3. QED
        BY <3>2, <4>1, <4>2 DEF ReleaseOwns
    <3>3. QED
      BY <3>1, <3>2
  <2>5. QED
    BY <2>1, <2>2, <2>3, <2>4
<1>5. ASSUME NEW z \in Zones, NEW m \in Clients, NEW on \in SUBSET Radios, LinkDeadzone(z, m, on)
    PROVE  Kept(m1, r1)
  BY <1>5 DEF LinkDeadzone, Orderly, ZoneOwns, PinOwns, HandlerOwns, Handling, ReleaseOwns,
    BegunInv, Begun, NoFailInv
<1>6. ASSUME NEW o \in Ops, NEW r \in Radios, GatherTo(o, r) PROVE Kept(m1, r1)
  <2>1. Started(o, "gather", r, Radios \ {r}, {}, InForce) /\ UNCHANGED <<pins, owed>>
    BY <1>6 DEF GatherTo, BoxCommand
  <2> HIDE DEF IInv, Owned
  <2>2. QED
    BY <2>1, StartedOwns
<1>7. ASSUME NEW o \in Ops, NEW r \in Radios, EvictFrom(o, r) PROVE Kept(m1, r1)
  <2>1. Started(o, "evict", NoRadio, {r}, {}, InForce) /\ UNCHANGED <<pins, owed>>
    BY <1>7 DEF EvictFrom, BoxCommand
  <2> HIDE DEF IInv, Owned
  <2>2. QED
    BY <2>1, StartedOwns
<1>8. ASSUME NEW o \in Ops, ForceSteer(o) PROVE Kept(m1, r1)
  <2>1. Started(o, "steer", NoRadio, {}, {}, InForce) /\ UNCHANGED <<pins, owed>>
    BY <1>8 DEF ForceSteer, BoxCommand
  <2> HIDE DEF IInv, Owned
  <2>2. QED
    BY <2>1, StartedOwns
<1>9. ASSUME NEW o \in Ops, NEW m \in Clients, NEW r \in Radios, GatherClientTo(o, m, r)
    PROVE  Kept(m1, r1)
  <2>1. Started(o, "gatherClient", r, Radios \ {r}, {m}, Emptied(m))
    BY <1>9 DEF GatherClientTo, ClientCommand
  <2>2. CASE pins[m] = NoOp
    <3>1. UNCHANGED <<pins, owed>>
      BY <1>9, <2>2 DEF GatherClientTo, ClientCommand
    <3> HIDE DEF IInv, Owned
    <3>2. QED
      BY <2>1, <3>1, StartedOwns
  <2>3. CASE pins[m] # NoOp
    <3>1. TakeFrom(o, m, pins[m]) /\ Owe(<<"run", o>>, {m}, deny[pins[m]]) /\ asked' = asked
      BY <1>9, <2>1, <2>3 DEF GatherClientTo, ClientCommand, TakeFrom, Started
    <3>2. ReleaseOwns(m1, r1) => ReleaseOwns(m1, r1)'
      BY <3>1, ThreadIds, OweOwns
    <3>3. PinOwns(m1, r1) => PinOwns(m1, r1)' \/ ReleaseOwns(m1, r1)'
      <4>1. CASE m1 = m
        <5>1. PinOwns(m1, r1) => m1 \in {m} /\ r1 \in deny[pins[m]]
          BY <4>1 DEF PinOwns
        <5>2. ASSUME PinOwns(m1, r1) PROVE ReleaseOwns(m1, r1)'
          <6>1. Owe(<<"run", o>>, {m}, deny[pins[m]]) /\ asked' = asked /\ TypeOK
            BY <3>1
          <6>2. m1 \in {m} /\ r1 \in deny[pins[m]] /\ <<"run", o>> \in Threads
            BY <5>1, <5>2, ThreadIds
          <6> HIDE DEF TypeOK, IInv
          <6>3. QED
            BY <6>1, <6>2, OweOwns
        <5>3. QED
          BY <5>2
      <4>2. CASE m1 # m
        <5>1. pins'[m1] = pins[m1]
          BY <3>1, <4>2 DEF TakeFrom
        <5>2. pins[m1] # NoOp => pins[m1] # o /\ pins[m1] \in Ops
          BY <2>1 DEF Started, BegunInv, Begun
        <5>3. \A x \in Ops : x # o => deny'[x] = deny[x]
          BY <2>1 DEF Started
        <5>4. QED
          BY <5>1, <5>2, <5>3 DEF PinOwns
      <4>3. QED
        BY <4>1, <4>2
    <3>4. ZoneOwns(m1, r1) => ZoneOwns(m1, r1)'
      BY <2>1 DEF Started, ZoneOwns
    <3>5. HandlerOwns(m1, r1) => HandlerOwns(m1, r1)'
      BY <2>1 DEF Started, HandlerOwns, Handling
    <3>6. QED
      BY <3>2, <3>3, <3>4, <3>5
  <2>4. QED
    BY <2>2, <2>3
<1>10. ASSUME NEW o \in Ops, NEW m \in Clients, EvictClient(o, m) PROVE Kept(m1, r1)
  <2>1. Started(o, "evictClient", NoRadio, {RadioFor(m)}, {m}, Emptied(m))
    BY <1>10 DEF EvictClient, ClientCommand
  <2>2. CASE pins[m] = NoOp
    <3>1. UNCHANGED <<pins, owed>>
      BY <1>10, <2>2 DEF EvictClient, ClientCommand
    <3> HIDE DEF IInv, Owned
    <3>2. QED
      BY <2>1, <3>1, StartedOwns
  <2>3. CASE pins[m] # NoOp
    <3>1. TakeFrom(o, m, pins[m]) /\ Owe(<<"run", o>>, {m}, deny[pins[m]]) /\ asked' = asked
      BY <1>10, <2>1, <2>3 DEF EvictClient, ClientCommand, TakeFrom, Started
    <3>2. ReleaseOwns(m1, r1) => ReleaseOwns(m1, r1)'
      BY <3>1, ThreadIds, OweOwns
    <3>3. PinOwns(m1, r1) => PinOwns(m1, r1)' \/ ReleaseOwns(m1, r1)'
      <4>1. CASE m1 = m
        <5>1. PinOwns(m1, r1) => m1 \in {m} /\ r1 \in deny[pins[m]]
          BY <4>1 DEF PinOwns
        <5>2. ASSUME PinOwns(m1, r1) PROVE ReleaseOwns(m1, r1)'
          <6>1. Owe(<<"run", o>>, {m}, deny[pins[m]]) /\ asked' = asked /\ TypeOK
            BY <3>1
          <6>2. m1 \in {m} /\ r1 \in deny[pins[m]] /\ <<"run", o>> \in Threads
            BY <5>1, <5>2, ThreadIds
          <6> HIDE DEF TypeOK, IInv
          <6>3. QED
            BY <6>1, <6>2, OweOwns
        <5>3. QED
          BY <5>2
      <4>2. CASE m1 # m
        <5>1. pins'[m1] = pins[m1]
          BY <3>1, <4>2 DEF TakeFrom
        <5>2. pins[m1] # NoOp => pins[m1] # o /\ pins[m1] \in Ops
          BY <2>1 DEF Started, BegunInv, Begun
        <5>3. \A x \in Ops : x # o => deny'[x] = deny[x]
          BY <2>1 DEF Started
        <5>4. QED
          BY <5>1, <5>2, <5>3 DEF PinOwns
      <4>3. QED
        BY <4>1, <4>2
    <3>4. ZoneOwns(m1, r1) => ZoneOwns(m1, r1)'
      BY <2>1 DEF Started, ZoneOwns
    <3>5. HandlerOwns(m1, r1) => HandlerOwns(m1, r1)'
      BY <2>1 DEF Started, HandlerOwns, Handling
    <3>6. QED
      BY <3>2, <3>3, <3>4, <3>5
  <2>4. QED
    BY <2>2, <2>3
<1>11. ASSUME DaemonRestart PROVE Kept(m1, r1)
  BY <1>11 DEF DaemonRestart
<1>12. ASSUME NEW z \in Zones, NEW r \in Radios, DeadzoneAdd(z, r) PROVE Kept(m1, r1)
  BY <1>12 DEF DeadzoneAdd, DenyAdd, Orderly, ZoneOwns, PinOwns, HandlerOwns, Handling,
    ReleaseOwns, BegunInv, Begun, NoFailInv
<1>13. ASSUME NEW z \in Zones, DeadzoneRefused(z) PROVE Kept(m1, r1)
  BY <1>13 DEF DeadzoneRefused, Unwind, EndZone, Orderly, ZoneOwns, PinOwns, HandlerOwns,
    Handling, ReleaseOwns, BegunInv, Begun, NoFailInv
<1>14. ASSUME NEW z \in Zones, NoteDeadzone(z) PROVE Kept(m1, r1)
  BY <1>14 DEF NoteDeadzone, Kick, Orderly, ZoneOwns, PinOwns, HandlerOwns, Handling,
    ReleaseOwns, BegunInv, Begun, NoFailInv
<1>15. ASSUME NEW z \in Zones, DeadzoneLapses(z) PROVE Kept(m1, r1)
  BY <1>15 DEF DeadzoneLapses, Orderly, ZoneOwns, PinOwns, HandlerOwns, Handling, ReleaseOwns,
    BegunInv, Begun, NoFailInv
<1>16. ASSUME NEW z \in Zones, ForgetDeadzone(z) PROVE Kept(m1, r1)
  <2>1. PinOwns(m1, r1) => PinOwns(m1, r1)'
    BY <1>16 DEF ForgetDeadzone, Owe, EndZone, PinOwns
  <2>2. HandlerOwns(m1, r1) => HandlerOwns(m1, r1)'
    BY <1>16 DEF ForgetDeadzone, Owe, EndZone, HandlerOwns, Handling
  <2>3. Owe(<<"zone", z>>, {zmac[z]}, zon[z]) /\ asked' = asked
    BY <1>16 DEF ForgetDeadzone
  <2>4. ReleaseOwns(m1, r1) => ReleaseOwns(m1, r1)'
    BY <2>3, ThreadIds, OweOwns
  <2>5. ZoneOwns(m1, r1) => ZoneOwns(m1, r1)' \/ ReleaseOwns(m1, r1)'
    <3>1. CASE zmac[z] = m1 /\ r1 \in zput[z]
      <4>1. r1 \in zon[z]
        BY <1>16, <3>1 DEF ForgetDeadzone, ZoneWF
      <4>2. QED
        BY <3>1, <4>1, <2>3, ThreadIds, OweOwns
    <3>2. CASE ~(zmac[z] = m1 /\ r1 \in zput[z])
      BY <1>16, <3>2 DEF ForgetDeadzone, EndZone, ZoneOwns
    <3>3. QED
      BY <3>1, <3>2
  <2>6. QED
    BY <2>1, <2>2, <2>4, <2>5
<1>17. ASSUME NEW o \in Ops, NEW x \in Ops, ClearNext(o, x) PROVE Kept(m1, r1)
  <2>1. ZoneOwns(m1, r1) => ZoneOwns(m1, r1)'
    BY <1>17 DEF ClearNext, ZoneOwns
  <2>2. HandlerOwns(m1, r1) => HandlerOwns(m1, r1)'
    BY <1>17 DEF ClearNext, HandlerOwns, Handling
  <2>3. LiftPins(x) /\ asked' = asked
    BY <1>17 DEF ClearNext
  <2>4. ReleaseOwns(m1, r1) => ReleaseOwns(m1, r1)'
    BY <2>3, LiftOwns
  <2>5. PinOwns(m1, r1) => PinOwns(m1, r1)' \/ ReleaseOwns(m1, r1)'
    <3>1. CASE pins[m1] = x /\ x \notin once
      BY <2>3, <3>1, LiftOwns DEF PinOwns
    <3>2. CASE ~(pins[m1] = x /\ x \notin once)
      <4>1. pins'[m1] = pins[m1]
        BY <2>3, <3>2, LiftedPins
      <4>2. deny' = deny
        BY <1>17 DEF ClearNext
      <4>3. QED
        BY <4>1, <4>2 DEF PinOwns
    <3>3. QED
      BY <3>1, <3>2
  <2>6. QED
    BY <2>1, <2>2, <2>4, <2>5
<1>18. ASSUME NEW o \in Ops, NEW x \in Ops, ConsumeOnce(o, x) PROVE Kept(m1, r1)
  BY <1>18 DEF ConsumeOnce, Orderly, ZoneOwns, PinOwns, HandlerOwns, Handling, ReleaseOwns,
    BegunInv, Begun, NoFailInv
<1>19. ASSUME NEW o \in Ops, ClearWaited(o) PROVE Kept(m1, r1)
  BY <1>19 DEF ClearWaited, Orderly, ZoneOwns, PinOwns, HandlerOwns, Handling, ReleaseOwns,
    BegunInv, Begun, NoFailInv
<1>20. ASSUME NEW o \in Ops, Cleared(o) PROVE Kept(m1, r1)
  <2>1. ZoneOwns(m1, r1) => ZoneOwns(m1, r1)'
    BY <1>20 DEF Cleared, ToMove, Collect, ZoneOwns, BegunInv, Begun
  <2>2. PinOwns(m1, r1) => PinOwns(m1, r1)'
    BY <1>20 DEF Cleared, ToMove, Collect, PinOwns, BegunInv, Begun
  <2>3. HandlerOwns(m1, r1) => HandlerOwns(m1, r1)'
    BY <1>20 DEF Cleared, ToMove, Collect, HandlerOwns, Handling, BegunInv, Begun
  <2>4. ReleaseOwns(m1, r1) => ReleaseOwns(m1, r1)'
    BY <1>20 DEF Cleared, ToMove, Collect, ReleaseOwns, BegunInv, Begun
  <2>5. QED
    BY <2>1, <2>2, <2>3, <2>4
<1>21. ASSUME NEW o \in Ops, NotePins(o) PROVE Kept(m1, r1)
  BY <1>21 DEF NotePins, RadioFor, Orderly, ZoneOwns, PinOwns, HandlerOwns, Handling,
    ReleaseOwns, BegunInv, Begun, NoFailInv, ClearInv
<1>22. ASSUME NEW o \in Ops, NEW m \in Clients, NEW r \in Radios, BarAdd(o, m, r)
    PROVE  Kept(m1, r1)
  BY <1>22 DEF BarAdd, InHand, Others, DenyAdd, Orderly, ZoneOwns, PinOwns, HandlerOwns,
    Handling, ReleaseOwns, BegunInv, Begun, NoFailInv
<1>23. ASSUME NEW o \in Ops, NEW m \in Clients, Barred(o, m) PROVE Kept(m1, r1)
  BY <1>23 DEF Barred, InHand, Done, Orderly, ZoneOwns, PinOwns, HandlerOwns, Handling,
    ReleaseOwns, BegunInv, Begun, NoFailInv
<1>24. ASSUME NEW o \in Ops, NEW m \in Clients, BarRefused(o, m) PROVE Kept(m1, r1)
  BY <1>24 DEF BarRefused, InHand, Unwind, Orderly, ZoneOwns, PinOwns, HandlerOwns, Handling,
    ReleaseOwns, BegunInv, Begun, NoFailInv
<1>25. ASSUME NEW o \in Ops, AskBeforeDeny(o) PROVE Kept(m1, r1)
  BY <1>25 DEF AskBeforeDeny, Orderly, ZoneOwns, PinOwns, HandlerOwns, Handling, ReleaseOwns,
    BegunInv, Begun, NoFailInv
<1>26. ASSUME NEW o \in Ops, NEW m \in Clients, ClosePass(o, m) PROVE Kept(m1, r1)
  <2>1. ZoneOwns(m1, r1) => ZoneOwns(m1, r1)'
    BY <1>26 DEF ClosePass, ZoneOwns
  <2>2. PinOwns(m1, r1) => PinOwns(m1, r1)'
    BY <1>26 DEF ClosePass, PinOwns
  <2>3. ReleaseUnlessHeld(o, m) /\ asked' = asked
    BY <1>26 DEF ClosePass
  <2>4. ReleaseOwns(m1, r1) => ReleaseOwns(m1, r1)'
    BY <2>3, ReleaseUnlessHeldOwns
  <2>5. HandlerOwns(m1, r1) => HandlerOwns(m1, r1)' \/ PinOwns(m1, r1) \/ ReleaseOwns(m1, r1)'
    <3> SUFFICES ASSUME NEW o1 \in Ops, Handling(o1, m1), r1 \in deny[o1]
                 PROVE  HandlerOwns(m1, r1)' \/ PinOwns(m1, r1) \/ ReleaseOwns(m1, r1)'
      BY DEF HandlerOwns
    <3>1. CASE o1 = o /\ m1 = m
      BY <2>3, <3>1, ReleaseUnlessHeldOwns DEF PinHeld, PinOwns
    <3>2. CASE ~(o1 = o /\ m1 = m)
      <4>1. Handling(o1, m1)'
        BY <1>26, <3>2 DEF ClosePass, InHand, Done, Handling
      <4>2. deny' = deny
        BY <1>26 DEF ClosePass
      <4>3. QED
        BY <4>1, <4>2 DEF HandlerOwns
    <3>3. QED
      BY <3>1, <3>2
  <2>6. QED
    BY <2>1, <2>2, <2>4, <2>5
<1>27. ASSUME NEW o \in Ops, NEW m \in Clients, CloseAdd(o, m) PROVE Kept(m1, r1)
  BY <1>27 DEF CloseAdd, InHand, NothingToClose, DenyAdd, Orderly, ZoneOwns, PinOwns,
    HandlerOwns, Handling, ReleaseOwns, BegunInv, Begun, NoFailInv
<1>28. ASSUME NEW o \in Ops, NEW m \in Clients, CloseRecheck(o, m) PROVE Kept(m1, r1)
  <2>1. ZoneOwns(m1, r1) => ZoneOwns(m1, r1)'
    BY <1>28 DEF CloseRecheck, ZoneOwns
  <2>2. PinOwns(m1, r1) => PinOwns(m1, r1)'
    BY <1>28 DEF CloseRecheck, PinOwns
  <2>3. ReleaseUnlessHeld(o, m) /\ asked' = asked
    BY <1>28 DEF CloseRecheck
  <2>4. ReleaseOwns(m1, r1) => ReleaseOwns(m1, r1)'
    BY <2>3, ReleaseUnlessHeldOwns
  <2>5. HandlerOwns(m1, r1) => HandlerOwns(m1, r1)' \/ PinOwns(m1, r1) \/ ReleaseOwns(m1, r1)'
    <3> SUFFICES ASSUME NEW o1 \in Ops, Handling(o1, m1), r1 \in deny[o1]
                 PROVE  HandlerOwns(m1, r1)' \/ PinOwns(m1, r1) \/ ReleaseOwns(m1, r1)'
      BY DEF HandlerOwns
    <3>1. CASE o1 = o /\ m1 = m
      BY <2>3, <3>1, ReleaseUnlessHeldOwns DEF PinHeld, PinOwns
    <3>2. CASE ~(o1 = o /\ m1 = m)
      <4>1. Handling(o1, m1)'
        BY <1>28, <3>2 DEF CloseRecheck, InHand, Done, Handling
      <4>2. deny' = deny
        BY <1>28 DEF CloseRecheck
      <4>3. QED
        BY <4>1, <4>2 DEF HandlerOwns
    <3>3. QED
      BY <3>1, <3>2
  <2>6. QED
    BY <2>1, <2>2, <2>4, <2>5
<1>29. ASSUME NEW o \in Ops, NEW m \in Clients, CloseRefused(o, m) PROVE Kept(m1, r1)
  BY <1>29 DEF CloseRefused, InHand, Owe, Orderly, ZoneOwns, PinOwns, HandlerOwns, Handling,
    ReleaseOwns, BegunInv, Begun, NoFailInv
<1>30. ASSUME NEW o \in Ops, NEW m \in Clients, FailClient(o, m) PROVE Kept(m1, r1)
  BY <1>30 DEF FailClient, Orderly, ZoneOwns, PinOwns, HandlerOwns, Handling, ReleaseOwns,
    BegunInv, Begun, NoFailInv
<1>31. ASSUME NEW o \in Ops, NobodyPinned(o) PROVE Kept(m1, r1)
  <2>1. ZoneOwns(m1, r1) => ZoneOwns(m1, r1)'
    BY <1>31 DEF NobodyPinned, ZoneOwns
  <2>2. HandlerOwns(m1, r1) => HandlerOwns(m1, r1)'
    BY <1>31 DEF NobodyPinned, Collect, HandlerOwns, Handling
  <2>3. LiftPins(o) /\ asked' = asked
    BY <1>31 DEF NobodyPinned
  <2>4. ReleaseOwns(m1, r1) => ReleaseOwns(m1, r1)'
    BY <2>3, LiftOwns
  <2>5. PinOwns(m1, r1) => PinOwns(m1, r1)' \/ ReleaseOwns(m1, r1)'
    <3>1. CASE pins[m1] = o /\ o \notin once
      BY <2>3, <3>1, LiftOwns DEF PinOwns
    <3>2. CASE ~(pins[m1] = o /\ o \notin once)
      <4>1. pins'[m1] = pins[m1]
        BY <2>3, <3>2, LiftedPins
      <4>2. pins[m1] # NoOp => deny'[pins[m1]] = deny[pins[m1]]
        BY <1>31, <4>1 DEF NobodyPinned, Collect
      <4>3. QED
        BY <4>1, <4>2 DEF PinOwns
    <3>3. QED
      BY <3>1, <3>2
  <2>6. QED
    BY <2>1, <2>2, <2>4, <2>5
<1>32. ASSUME NEW o \in Ops, KickFromDenied(o) PROVE Kept(m1, r1)
  BY <1>32 DEF KickFromDenied, Kick, Orderly, ZoneOwns, PinOwns, HandlerOwns, Handling,
    ReleaseOwns, BegunInv, Begun, NoFailInv
<1>33. ASSUME NEW o \in Ops, LiftDue(o) PROVE Kept(m1, r1)
  <2>1. ZoneOwns(m1, r1) => ZoneOwns(m1, r1)'
    BY <1>33 DEF LiftDue, ZoneOwns
  <2>2. HandlerOwns(m1, r1) => HandlerOwns(m1, r1)'
    BY <1>33 DEF LiftDue, HandlerOwns, Handling
  <2>3. LiftPins(o) /\ asked' = asked
    BY <1>33 DEF LiftDue
  <2>4. ReleaseOwns(m1, r1) => ReleaseOwns(m1, r1)'
    BY <2>3, LiftOwns
  <2>5. PinOwns(m1, r1) => PinOwns(m1, r1)' \/ ReleaseOwns(m1, r1)'
    <3>1. CASE pins[m1] = o /\ o \notin once
      BY <2>3, <3>1, LiftOwns DEF PinOwns
    <3>2. CASE ~(pins[m1] = o /\ o \notin once)
      <4>1. pins'[m1] = pins[m1]
        BY <2>3, <3>2, LiftedPins
      <4>2. deny' = deny
        BY <1>33 DEF LiftDue
      <4>3. QED
        BY <4>1, <4>2 DEF PinOwns
    <3>3. QED
      BY <3>1, <3>2
  <2>6. QED
    BY <2>1, <2>2, <2>4, <2>5
<1>34. ASSUME NEW o \in Ops, PinTimeout(o) PROVE Kept(m1, r1)
  <2>1. ZoneOwns(m1, r1) => ZoneOwns(m1, r1)'
    BY <1>34 DEF PinTimeout, ZoneOwns
  <2>2. HandlerOwns(m1, r1) => HandlerOwns(m1, r1)'
    BY <1>34 DEF PinTimeout, Collect, HandlerOwns, Handling
  <2>3. LiftPins(o) /\ asked' = asked
    BY <1>34 DEF PinTimeout
  <2>4. ReleaseOwns(m1, r1) => ReleaseOwns(m1, r1)'
    BY <2>3, LiftOwns
  <2>5. PinOwns(m1, r1) => PinOwns(m1, r1)' \/ ReleaseOwns(m1, r1)'
    <3>1. CASE pins[m1] = o /\ o \notin once
      BY <2>3, <3>1, LiftOwns DEF PinOwns
    <3>2. CASE ~(pins[m1] = o /\ o \notin once)
      <4>1. pins'[m1] = pins[m1]
        BY <2>3, <3>2, LiftedPins
      <4>2. pins[m1] # NoOp => deny'[pins[m1]] = deny[pins[m1]]
        BY <1>34, <4>1 DEF PinTimeout, Collect
      <4>3. QED
        BY <4>1, <4>2 DEF PinOwns
    <3>3. QED
      BY <3>1, <3>2
  <2>6. QED
    BY <2>1, <2>2, <2>4, <2>5
<1>35. CASE UNCHANGED vars
  BY <1>35 DEF vars, ZoneOwns, PinOwns, HandlerOwns, Handling, ReleaseOwns
<1> HIDE DEF IInv, Owned, Kept
<1>36. QED
  BY <1>1, <1>2, <1>3, <1>4, <1>5, <1>6, <1>7, <1>8, <1>9, <1>10, <1>11, <1>12, <1>13, <1>14,
    <1>15, <1>16, <1>17, <1>18, <1>19, <1>20, <1>21, <1>22, <1>23, <1>24, <1>25, <1>26, <1>27,
    <1>28, <1>29, <1>30, <1>31, <1>32, <1>33, <1>34, <1>35 DEF Next, Radio, Release, Command,
    Deadzone, RunPin, Lift

\* Only three steps place an entry, each for a claim or a handler that answers for it.
LEMMA EntriesPlaced ==
  ASSUME IInv, [Next]_vars, NEW m1 \in Clients, NEW r1 \in Radios, m1 \in acl'[r1]
  PROVE  Placed(m1, r1)
<1> USE DEF IInv, Control, TypeInv, TypeOK, hostapd, zones, command, clearing, runpin, releases,
            bounds, Placed
<1>1. ASSUME NEW m \in Clients, NEW r \in Radios, NEW heard \in BOOLEAN, Associate(m, r, heard)
    PROVE  Placed(m1, r1)
  BY <1>1 DEF Associate
<1>2. ASSUME NEW m \in Clients, Leave(m) PROVE Placed(m1, r1)
  BY <1>2 DEF Leave
<1>3. ASSUME NEW t \in Threads, NEW m \in Clients, NEW r \in Radios, AskStillDenied(t, m, r)
    PROVE  Placed(m1, r1)
  BY <1>3 DEF AskStillDenied
<1>4. ASSUME NEW t \in Threads, NEW m \in Clients, NEW r \in Radios, DenyDel(t, m, r)
    PROVE  Placed(m1, r1)
  BY <1>4 DEF DenyDel
<1>5. ASSUME NEW z \in Zones, NEW m \in Clients, NEW on \in SUBSET Radios, LinkDeadzone(z, m, on)
    PROVE  Placed(m1, r1)
  BY <1>5 DEF LinkDeadzone
<1>6. ASSUME NEW o \in Ops, NEW r \in Radios, GatherTo(o, r) PROVE Placed(m1, r1)
  BY <1>6 DEF GatherTo, BoxCommand, Started
<1>7. ASSUME NEW o \in Ops, NEW r \in Radios, EvictFrom(o, r) PROVE Placed(m1, r1)
  BY <1>7 DEF EvictFrom, BoxCommand, Started
<1>8. ASSUME NEW o \in Ops, ForceSteer(o) PROVE Placed(m1, r1)
  BY <1>8 DEF ForceSteer, BoxCommand, Started
<1>9. ASSUME NEW o \in Ops, NEW m \in Clients, NEW r \in Radios, GatherClientTo(o, m, r)
    PROVE  Placed(m1, r1)
  BY <1>9 DEF GatherClientTo, ClientCommand, Started
<1>10. ASSUME NEW o \in Ops, NEW m \in Clients, EvictClient(o, m) PROVE Placed(m1, r1)
  BY <1>10 DEF EvictClient, ClientCommand, Started
<1>11. ASSUME DaemonRestart PROVE Placed(m1, r1)
  BY <1>11 DEF DaemonRestart
<1>12. ASSUME NEW z \in Zones, NEW r \in Radios, DeadzoneAdd(z, r) PROVE Placed(m1, r1)
  BY <1>12 DEF DeadzoneAdd, DenyAdd, Owned, ZoneOwns
<1>13. ASSUME NEW z \in Zones, DeadzoneRefused(z) PROVE Placed(m1, r1)
  BY <1>13 DEF DeadzoneRefused
<1>14. ASSUME NEW z \in Zones, NoteDeadzone(z) PROVE Placed(m1, r1)
  BY <1>14 DEF NoteDeadzone
<1>15. ASSUME NEW z \in Zones, DeadzoneLapses(z) PROVE Placed(m1, r1)
  BY <1>15 DEF DeadzoneLapses
<1>16. ASSUME NEW z \in Zones, ForgetDeadzone(z) PROVE Placed(m1, r1)
  BY <1>16 DEF ForgetDeadzone
<1>17. ASSUME NEW o \in Ops, NEW x \in Ops, ClearNext(o, x) PROVE Placed(m1, r1)
  BY <1>17 DEF ClearNext
<1>18. ASSUME NEW o \in Ops, NEW x \in Ops, ConsumeOnce(o, x) PROVE Placed(m1, r1)
  BY <1>18 DEF ConsumeOnce
<1>19. ASSUME NEW o \in Ops, ClearWaited(o) PROVE Placed(m1, r1)
  BY <1>19 DEF ClearWaited
<1>20. ASSUME NEW o \in Ops, Cleared(o) PROVE Placed(m1, r1)
  BY <1>20 DEF Cleared
<1>21. ASSUME NEW o \in Ops, NotePins(o) PROVE Placed(m1, r1)
  BY <1>21 DEF NotePins
<1>22. ASSUME NEW o \in Ops, NEW m \in Clients, NEW r \in Radios, BarAdd(o, m, r)
    PROVE  Placed(m1, r1)
  BY <1>22 DEF BarAdd, InHand, Others, DenyAdd, Owned, HandlerOwns, Handling
<1>23. ASSUME NEW o \in Ops, NEW m \in Clients, Barred(o, m) PROVE Placed(m1, r1)
  BY <1>23 DEF Barred
<1>24. ASSUME NEW o \in Ops, NEW m \in Clients, BarRefused(o, m) PROVE Placed(m1, r1)
  BY <1>24 DEF BarRefused
<1>25. ASSUME NEW o \in Ops, AskBeforeDeny(o) PROVE Placed(m1, r1)
  BY <1>25 DEF AskBeforeDeny
<1>26. ASSUME NEW o \in Ops, NEW m \in Clients, ClosePass(o, m) PROVE Placed(m1, r1)
  BY <1>26 DEF ClosePass
<1>27. ASSUME NEW o \in Ops, NEW m \in Clients, CloseAdd(o, m) PROVE Placed(m1, r1)
  BY <1>27 DEF CloseAdd, InHand, NothingToClose, DenyAdd, Owned, HandlerOwns, Handling
<1>28. ASSUME NEW o \in Ops, NEW m \in Clients, CloseRecheck(o, m) PROVE Placed(m1, r1)
  BY <1>28 DEF CloseRecheck
<1>29. ASSUME NEW o \in Ops, NEW m \in Clients, CloseRefused(o, m) PROVE Placed(m1, r1)
  BY <1>29 DEF CloseRefused
<1>30. ASSUME NEW o \in Ops, NEW m \in Clients, FailClient(o, m) PROVE Placed(m1, r1)
  BY <1>30 DEF FailClient
<1>31. ASSUME NEW o \in Ops, NobodyPinned(o) PROVE Placed(m1, r1)
  BY <1>31 DEF NobodyPinned
<1>32. ASSUME NEW o \in Ops, KickFromDenied(o) PROVE Placed(m1, r1)
  BY <1>32 DEF KickFromDenied
<1>33. ASSUME NEW o \in Ops, LiftDue(o) PROVE Placed(m1, r1)
  BY <1>33 DEF LiftDue
<1>34. ASSUME NEW o \in Ops, PinTimeout(o) PROVE Placed(m1, r1)
  BY <1>34 DEF PinTimeout
<1>35. CASE UNCHANGED vars
  BY <1>35 DEF vars
<1> HIDE DEF IInv, Placed
<1>36. QED
  BY <1>1, <1>2, <1>3, <1>4, <1>5, <1>6, <1>7, <1>8, <1>9, <1>10, <1>11, <1>12, <1>13, <1>14,
    <1>15, <1>16, <1>17, <1>18, <1>19, <1>20, <1>21, <1>22, <1>23, <1>24, <1>25, <1>26, <1>27,
    <1>28, <1>29, <1>30, <1>31, <1>32, <1>33, <1>34, <1>35 DEF Next, Radio, Release, Command,
    Deadzone, RunPin, Lift

----------------------------------------------------------------------------
(* The theorems.                                                           *)

\* Every variable keeps its type, of every instance, whatever the operator, hostapd,
\* the clients and the timers of gather.go and hostapd.go do.
THEOREM TypeCorrect == Spec => []TypeOK
<1>1. TypeInv => TypeOK
  BY DEF TypeInv
<1>2. QED
  BY <1>1, TypeInvariant, PTL

LEMMA InitInv == Init => IInv
<1> SUFFICES ASSUME Init PROVE IInv
  OBVIOUS
<1>1. TypeInv
  BY PrimaryAssumption DEF Init, TypeInv, TypeOK, ZoneWF, Active, ZonePC, OpPC, BoxKinds,
    ClientKinds
<1>2. RecordWF /\ SerialInv /\ NoFailInv /\ BegunInv /\ LiveClaim /\ SingleInv /\ EmptiedInv
  BY DEF Init, RecordWF, SerialInv, Busy, NoFailInv, BegunInv, LiveClaim, SingleInv, EmptiedInv
<1>3. ClearInv /\ HandlingInv /\ DenyInv /\ OverInv /\ WaitsOnlyForHeld
  BY PrimaryAssumption DEF Init, ClearInv, HandlingInv, DenyInv, OverInv, WaitsOnlyForHeld
<1>4. EntryOwned
  BY DEF Init, EntryOwned
<1>5. QED
  BY <1>1, <1>2, <1>3, <1>4 DEF IInv, Control

LEMMA StepInv == ASSUME Orderly, IInv, [Next]_vars, TypeInv' PROVE IInv'
<1>1. RecordWF' /\ Control'
  BY ControlStep
<1>2. EntryOwned'
  <2> SUFFICES ASSUME NEW m \in Clients, NEW r \in Radios, m \in acl'[r]
               PROVE  Owned(m, r)'
    BY DEF EntryOwned, Owned
  <2>1. CASE m \in acl[r]
    <3>1. Owned(m, r)
      BY <2>1 DEF IInv, EntryOwned, Owned
    <3>2. QED
      BY <3>1, OwnersKept DEF Kept
  <2>2. CASE m \notin acl[r]
    BY <2>2, EntriesPlaced DEF Placed
  <2>3. QED
    BY <2>1, <2>2
<1>3. QED
  BY <1>1, <1>2 DEF IInv

LEMMA Invariant == ASSUME Orderly PROVE Spec => []IInv
<1>1. IInv /\ TypeInv' /\ [Next]_vars => IInv'
  BY StepInv
<1>2. QED
  BY <1>1, InitInv, TypeInvariant, PTL DEF Spec

\* In an orderly instance no entry of hostapd's deny lists is ever forgotten:
\* releaseDeny, clearPins, clearPinsFor and the timers leave one behind only where
\* a claim, a handler or a release under way still answers for it (gather.go).
THEOREM NothingForgotten == ASSUME Orderly PROVE Spec => []EntryOwned
<1>1. IInv => EntryOwned
  BY DEF IInv
<1>2. QED
  BY <1>1, Invariant, PTL

\* In an orderly instance every claim in Engine.pins has a handler, a timer or an arrival
\* left that will end it: clearPinsFor and liftPins (gather.go) spend an operation's once
\* only along with its claims.
THEOREM ClaimsEnd == ASSUME Orderly PROVE Spec => []ClaimHasEnder
<1>1. IInv => ClaimHasEnder
  <2> SUFFICES ASSUME IInv, NEW m \in Clients, pins[m] # NoOp
               PROVE  pins[m] \notin once /\ (Busy(pins[m]) \/ pc[pins[m]] = "armed")
    BY DEF ClaimHasEnder
  <2>1. pins[m] \in Ops /\ pc[pins[m]] \in OpPC
    BY DEF IInv, TypeInv, TypeOK
  <2>2. pins[m] \notin once /\ Begun(pins[m]) /\ pc[pins[m]] # "over"
    BY DEF IInv, Control, LiveClaim, BegunInv, OverInv
  <2>3. QED
    BY <2>1, <2>2 DEF OpPC, Busy, Begun
<1>2. QED
  BY <1>1, Invariant, PTL

\* In an orderly instance the clients an operation waits for (pinOp.pending) are clients
\* it still holds, so the arrival that lifts it early is of one of its own.
THEOREM NoStrayWait == ASSUME Orderly PROVE Spec => []WaitsOnlyForHeld
<1>1. IInv => WaitsOnlyForHeld
  BY DEF IInv, Control
<1>2. QED
  BY <1>1, Invariant, PTL

LEMMA OneAnswers ==
  ASSUME IInv, NEW m \in Clients, ~ZoneActive(m), \A r \in Radios : ~ReleaseOwns(m, r),
         \A r \in Radios : m \in acl[r]
  PROVE  FALSE
<1> USE DEF IInv, Control, TypeInv, TypeOK
<1>1. \A r \in Radios : PinOwns(m, r) \/ HandlerOwns(m, r)
  BY DEF EntryOwned, ZoneOwns, ZoneActive
<1>2. \A o \in Ops : Handling(o, m) => pins[m] \in {o, NoOp} /\ Busy(o)
  BY DEF Handling, HandlingInv, Busy
<1>3. CASE \E o \in Ops : Handling(o, m)
  <2>1. PICK o \in Ops : Handling(o, m)
    BY <1>3
  <2>2. \A o1 \in Ops : Handling(o1, m) => o1 = o
    BY <2>1, <1>2 DEF SerialInv
  <2>3. \A r \in Radios : r \in deny[o]
    BY <1>1, <1>2, <2>1, <2>2 DEF PinOwns, HandlerOwns
  <2>4. deny[o] = Radios
    BY <2>3
  <2>5. QED
    BY <2>4 DEF DenyInv
<1>4. CASE \A o \in Ops : ~Handling(o, m)
  <2>1. \A r \in Radios : PinOwns(m, r)
    BY <1>1, <1>4 DEF HandlerOwns
  <2>2. pins[m] \in Ops /\ deny[pins[m]] = Radios
    BY <2>1, PrimaryAssumption DEF PinOwns
  <2>3. QED
    BY <2>2 DEF DenyInv
<1>5. QED
  BY <1>3, <1>4

\* In an orderly instance a client is never left barred from every radio by movement
\* commands: what clearPins exists for (gather.go), for any number of clients, radios,
\* commands and deadzones.
THEOREM NeverLockedOut == ASSUME Orderly PROVE Spec => []NoLastingLockout
<1>1. IInv => NoLastingLockout
  BY OneAnswers DEF NoLastingLockout
<1>2. QED
  BY <1>1, Invariant, PTL
=============================================================================
