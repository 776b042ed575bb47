----------------------------- MODULE DenyClaims -----------------------------
(***************************************************************************)
(* Who holds a client off which radio, and who lets it back on.            *)
(*                                                                         *)
(* hostapd's runtime deny list is the OR of two kinds of claim kept by the *)
(* daemon: a deadzone (hostapd.go) and a movement operation, or pin        *)
(* (gather.go).  Handlers, timers and the monitor's association events     *)
(* place and withdraw claims concurrently; every control-socket round trip *)
(* is a step of its own, so anything may happen between two of them.       *)
(*                                                                         *)
(* A release is two steps, as in releaseDeny: ask stillDenied, then DEL.   *)
(* owed[t] holds the entries thread t has still to ask about, asked[t]     *)
(* those it has decided to DEL.                                            *)
(***************************************************************************)
EXTENDS Integers, FiniteSets

CONSTANTS
  Clients,      \* stations, by MAC
  Radios,       \* radios hostapd serves
  Primary,      \* the radio radioFor falls back to
  Ops,          \* movement commands a behaviour may issue
  Zones,        \* LinkDeadzone calls a behaviour may issue
  NoRadio, NoOp, NoZone, NoClient,
  Kinds,        \* movement commands in use
  Serial,       \* TRUE: a command starts only when no other handler runs
  MaxFaults,    \* DENY_ACL ADD commands hostapd may refuse
  MaxRestarts   \* daemon restarts

BoxKinds    == {"gather", "evict", "steer"}
ClientKinds == {"gatherClient", "evictClient"}

ASSUME PrimaryAssumption == Primary \in Radios
ASSUME NoneAssumption ==
  NoRadio \notin Radios /\ NoOp \notin Ops /\ NoZone \notin Zones /\ NoClient \notin Clients
ASSUME KindsAssumption == Kinds \subseteq BoxKinds \cup ClientKinds
ASSUME BoundsAssumption ==
  Serial \in BOOLEAN /\ MaxFaults \in Nat /\ MaxRestarts \in Nat

VARIABLES
  acl,        \* hostapd: the clients each radio denies
  assoc,      \* hostapd: the radio each client is on
  deadzones,  \* Engine.deadzones, one record per client
  pins,       \* Engine.pins, one operation per client
  \* each LinkDeadzone call and its timer goroutine
  zpc, zmac,  \* where it is, whom it bars
  zon, zput,  \* the radios it covers, those already denied
  \* each movement command: its pinOp ...
  kind, to, deny, macs, pending,
  once,       \* operations whose sync.Once is spent
  due,        \* operations whose last client landed, liftPins not yet entered
  \* ... and the handler running it
  pc,
  todo, wait, \* clearPins: the operations still to end, the lift it waits for
  origin, left, held, cur, put,  \* runPin: each client's radio, clients still to do and
                                 \* done in this step, the client in hand and its radios
  owed, asked,
  faults, restarts

hostapd  == <<acl, assoc>>
zones    == <<deadzones, zpc, zmac, zon, zput>>
command  == <<kind, to, deny, macs>>
clearing == <<todo, wait>>
runpin   == <<origin, left, held, cur, put>>
releases == <<owed, asked>>
bounds   == <<faults, restarts>>
vars == <<hostapd, zones, pins, command, pending, once, due, pc, clearing, runpin,
          releases, bounds>>

\* A goroutine that can release entries: a handler, a lift, a deadzone timer.
Threads == ({"run", "lift"} \X Ops) \cup ({"zone"} \X Zones)
Pairs   == Clients \X Radios
Drained(t) == owed[t] = {} /\ asked[t] = {}

ZonePC == {"idle", "denying", "inforce", "lapsed", "over"}
OpPC   == {"idle", "clear", "note", "bar", "barDrop", "close", "closeDrop", "armed", "over"}

TypeOK ==
  /\ acl \in [Radios -> SUBSET Clients]
  /\ assoc \in [Clients -> Radios \cup {NoRadio}]
  /\ deadzones \in [Clients -> Zones \cup {NoZone}]
  /\ pins \in [Clients -> Ops \cup {NoOp}]
  /\ zpc \in [Zones -> ZonePC]
  /\ zmac \in [Zones -> Clients \cup {NoClient}]
  /\ zon \in [Zones -> SUBSET Radios] /\ zput \in [Zones -> SUBSET Radios]
  /\ kind \in [Ops -> BoxKinds \cup ClientKinds]
  /\ to \in [Ops -> Radios \cup {NoRadio}]
  /\ deny \in [Ops -> SUBSET Radios]
  /\ macs \in [Ops -> SUBSET Clients] /\ pending \in [Ops -> SUBSET Clients]
  /\ once \in SUBSET Ops /\ due \in SUBSET Ops
  /\ pc \in [Ops -> OpPC]
  /\ todo \in [Ops -> SUBSET Ops] /\ wait \in [Ops -> Ops \cup {NoOp}]
  /\ origin \in [Ops -> [Clients -> Radios]]
  /\ left \in [Ops -> SUBSET Clients] /\ held \in [Ops -> SUBSET Clients]
  /\ cur \in [Ops -> Clients \cup {NoClient}] /\ put \in [Ops -> SUBSET Radios]
  /\ owed \in [Threads -> SUBSET Pairs] /\ asked \in [Threads -> SUBSET Pairs]
  /\ faults \in Nat /\ restarts \in Nat

Init ==
  /\ acl = [r \in Radios |-> {}] /\ assoc \in [Clients -> Radios \cup {NoRadio}]
  /\ deadzones = [m \in Clients |-> NoZone] /\ pins = [m \in Clients |-> NoOp]
  /\ zpc = [z \in Zones |-> "idle"] /\ zmac = [z \in Zones |-> NoClient]
  /\ zon = [z \in Zones |-> {}] /\ zput = [z \in Zones |-> {}]
  /\ kind = [o \in Ops |-> "steer"] /\ to = [o \in Ops |-> NoRadio]
  /\ deny = [o \in Ops |-> {}] /\ macs = [o \in Ops |-> {}]
  /\ pending = [o \in Ops |-> {}] /\ once = {} /\ due = {}
  /\ pc = [o \in Ops |-> "idle"]
  /\ todo = [o \in Ops |-> {}] /\ wait = [o \in Ops |-> NoOp]
  /\ origin = [o \in Ops |-> [m \in Clients |-> Primary]]
  /\ left = [o \in Ops |-> {}] /\ held = [o \in Ops |-> {}]
  /\ cur = [o \in Ops |-> NoClient] /\ put = [o \in Ops |-> {}]
  /\ owed = [t \in Threads |-> {}] /\ asked = [t \in Threads |-> {}]
  /\ faults = 0 /\ restarts = 0

----------------------------------------------------------------------------
\* Definitions named Mutant... are what a definition would be with a plausible bug; no
\* specification uses them (see README, "Mutants").

\* The radio a command about m goes to: where it is, or the primary radio.
RadioFor(m) == IF assoc[m] = NoRadio THEN Primary ELSE assoc[m]

Busy(o) == pc[o] \in {"clear", "note", "bar", "barDrop", "close", "closeDrop"}
MayStart == Serial => (\A o \in Ops : ~Busy(o)) /\ (\A z \in Zones : zpc[z] # "denying")

\* hostapd's DENY_ACL ADD_MAC: the client is barred, and disconnected if it is there.
DenyAdd(m, r) ==
  /\ acl' = [acl EXCEPT ![r] = @ \cup {m}]
  /\ assoc' = [assoc EXCEPT ![m] = IF @ = r THEN NoRadio ELSE @]

Kick(cs, rs) ==
  assoc' = [m \in Clients |-> IF m \in cs /\ assoc[m] \in rs THEN NoRadio ELSE assoc[m]]

\* A claim in either registry bars m from r.  An expired deadzone is no claim.
StillDenied(m, r) ==
  \/ deadzones[m] # NoZone /\ zpc[deadzones[m]] = "inforce" /\ r \in zon[deadzones[m]]
  \/ pins[m] # NoOp /\ r \in deny[pins[m]]

PinHeld(o, m) == pins[m] = o

SatisfiedBy(o, r) == IF to[o] # NoRadio THEN r = to[o] ELSE r \notin deny[o]

\* Thread t takes on the release of clients cs from radios rs, asking or not.
Owe(t, cs, rs)   == owed' = [owed EXCEPT ![t] = @ \cup (cs \X rs)]
Unwind(t, m, rs) == asked' = [asked EXCEPT ![t] = @ \cup ({m} \X rs)]

----------------------------------------------------------------------------
(* The radio side.                                                         *)

\* liftPinOnArrival, on the AP-STA-CONNECTED event, up to its unlock.
Landed(m, r) ==
  LET o == pins[m] IN
  IF o # NoOp /\ SatisfiedBy(o, r)
  THEN /\ pending' = [pending EXCEPT ![o] = @ \ {m}]
       /\ due' = IF pending[o] \subseteq {m} THEN due \cup {o} ELSE due
  ELSE UNCHANGED <<pending, due>>

\* A client joins a radio that does not deny it.  The monitor handles the event, or
\* never hears it: it was detached and hostapd does not repeat itself.
Associate(m, r, heard) ==
  /\ assoc[m] # r /\ m \notin acl[r]
  /\ assoc' = [assoc EXCEPT ![m] = r]
  /\ IF heard THEN Landed(m, r) ELSE UNCHANGED <<pending, due>>
  /\ UNCHANGED <<acl, zones, pins, command, once, pc, clearing, runpin, releases, bounds>>

Leave(m) ==
  /\ assoc[m] # NoRadio
  /\ assoc' = [assoc EXCEPT ![m] = NoRadio]
  /\ UNCHANGED <<acl, zones, pins, command, pending, once, due, pc, clearing, runpin,
                 releases, bounds>>

----------------------------------------------------------------------------
(* releaseDeny.                                                            *)

\* Asking first: an entry another claim still wants is left alone.
AskStillDenied(t, m, r) ==
  /\ <<m, r>> \in owed[t] /\ asked[t] = {}
  /\ owed' = [owed EXCEPT ![t] = @ \ {<<m, r>>}]
  /\ IF StillDenied(m, r) THEN UNCHANGED asked ELSE Unwind(t, m, {r})
  /\ UNCHANGED <<hostapd, zones, pins, command, pending, once, due, pc, clearing, runpin, bounds>>

DenyDel(t, m, r) ==
  /\ <<m, r>> \in asked[t]
  /\ asked' = [asked EXCEPT ![t] = @ \ {<<m, r>>}]
  /\ acl' = [acl EXCEPT ![r] = @ \ {m}]
  /\ UNCHANGED <<assoc, zones, pins, command, pending, once, due, pc, clearing, runpin,
                 owed, bounds>>

\* liftPins, once: the claims go, under e.mu, before anything is asked.
LiftPins(o) ==
  IF o \in once THEN UNCHANGED <<once, pins, owed>>
  ELSE /\ once' = once \cup {o}
       /\ pins' = [m \in Clients |-> IF pins[m] = o THEN NoOp ELSE pins[m]]
       /\ Owe(<<"lift", o>>, {m \in Clients : pins[m] = o}, deny[o])

\* An operation nothing can reach any more goes back to what it was (garbage).
Collect(o) ==
  IF \E m \in Clients : pins'[m] = o THEN UNCHANGED <<to, deny, macs, pending>>
  ELSE /\ to' = [to EXCEPT ![o] = NoRadio]
       /\ deny' = [deny EXCEPT ![o] = {}]
       /\ macs' = [macs EXCEPT ![o] = {}]
       /\ pending' = [pending EXCEPT ![o] = {}]

\* The arrival that emptied pending calls liftPins after unlocking.
LiftDue(o) ==
  /\ o \in due
  /\ due' = due \ {o}
  /\ LiftPins(o)
  /\ UNCHANGED <<hostapd, zones, command, pending, pc, clearing, runpin, asked, bounds>>

MutantTimeoutWaits(o) ==  \* lifts only when everybody has landed
  /\ pc[o] = "armed"
  /\ pc' = [pc EXCEPT ![o] = "over"]
  /\ IF pending[o] = {} THEN LiftPins(o) /\ Collect(o)
     ELSE UNCHANGED <<pins, to, deny, macs, pending, once, owed>>
  /\ UNCHANGED <<hostapd, zones, kind, due, clearing, runpin, asked, bounds>>

PinTimeout(o) ==
  /\ pc[o] = "armed"
  /\ pc' = [pc EXCEPT ![o] = "over"]
  /\ LiftPins(o) /\ Collect(o)
  /\ UNCHANGED <<hostapd, zones, kind, due, clearing, runpin, asked, bounds>>

----------------------------------------------------------------------------
(* LinkDeadzone and its timer.                                             *)

\* ScopeCurrent covers the client's radio, ScopeAll every radio.
DeadzoneRadios(m) == {{RadioFor(m)}, Radios}

LinkDeadzone(z, m, on) ==
  /\ zpc[z] = "idle" /\ MayStart
  /\ on \in DeadzoneRadios(m)
  /\ zpc' = [zpc EXCEPT ![z] = "denying"]
  /\ zmac' = [zmac EXCEPT ![z] = m]
  /\ zon' = [zon EXCEPT ![z] = on]
  /\ UNCHANGED <<hostapd, deadzones, zput, pins, command, pending, once, due, pc, clearing,
                 runpin, releases, bounds>>

DeadzoneAdd(z, r) ==
  /\ zpc[z] = "denying" /\ r \in zon[z] \ zput[z]
  /\ DenyAdd(zmac[z], r)
  /\ zput' = [zput EXCEPT ![z] = @ \cup {r}]
  /\ UNCHANGED <<deadzones, zpc, zmac, zon, pins, command, pending, once, due, pc, clearing,
                 runpin, releases, bounds>>

EndZone(z) ==
  /\ zpc' = [zpc EXCEPT ![z] = "over"]
  /\ zmac' = [zmac EXCEPT ![z] = NoClient]
  /\ zon' = [zon EXCEPT ![z] = {}] /\ zput' = [zput EXCEPT ![z] = {}]

\* A refused ADD unwinds the ones that landed with a plain DEL, asking nobody.
DeadzoneRefused(z) ==
  /\ zpc[z] = "denying" /\ zon[z] # zput[z]
  /\ faults < MaxFaults /\ faults' = faults + 1
  /\ Unwind(<<"zone", z>>, zmac[z], zput[z])
  /\ EndZone(z)
  /\ UNCHANGED <<hostapd, deadzones, pins, command, pending, once, due, pc,
                 clearing, runpin, owed, restarts>>

\* Every ADD is in: record the ban, kick the client; the timer runs.
NoteDeadzone(z) ==
  /\ zpc[z] = "denying" /\ zon[z] = zput[z]
  /\ zpc' = [zpc EXCEPT ![z] = "inforce"]
  /\ deadzones' = [deadzones EXCEPT ![zmac[z]] = z]
  /\ Kick({zmac[z]}, Radios)
  /\ UNCHANGED <<acl, zmac, zon, zput, pins, command, pending, once, due, pc, clearing,
                 runpin, releases, bounds>>

\* The clock passes until.
DeadzoneLapses(z) ==
  /\ zpc[z] = "inforce"
  /\ zpc' = [zpc EXCEPT ![z] = "lapsed"]
  /\ UNCHANGED <<hostapd, deadzones, zmac, zon, zput, pins, command, pending, once, due, pc,
                 clearing, runpin, releases, bounds>>

\* The timer: forget whatever record the client has, then release this call's radios.
ForgetDeadzone(z) ==
  /\ zpc[z] = "lapsed"
  /\ deadzones' = [deadzones EXCEPT ![zmac[z]] = NoZone]
  /\ Owe(<<"zone", z>>, {zmac[z]}, zon[z])
  /\ EndZone(z)
  /\ UNCHANGED <<hostapd, pins, command, pending, once, due, pc, clearing,
                 runpin, asked, bounds>>

----------------------------------------------------------------------------
(* Movement commands: what each clears, denies and moves.                  *)

Started(o, k, dest, bar, cs, ops) ==
  /\ pc[o] = "idle" /\ MayStart /\ k \in Kinds
  /\ pc' = [pc EXCEPT ![o] = "clear"]
  /\ kind' = [kind EXCEPT ![o] = k]
  /\ to' = [to EXCEPT ![o] = dest]
  /\ deny' = [deny EXCEPT ![o] = bar]
  /\ macs' = [macs EXCEPT ![o] = cs]
  /\ todo' = [todo EXCEPT ![o] = ops]
  /\ UNCHANGED <<hostapd, zones, due, wait, runpin, asked, bounds>>

\* A box-wide command starts with clearPins over every operation in force.
MutantNothingInForce == {}  \* clearPins clears nothing
InForce == {o \in Ops : \E m \in Clients : pins[m] = o}
BoxCommand(o, k, dest, bar) ==
  Started(o, k, dest, bar, {}, InForce) /\ UNCHANGED <<pins, pending, once, owed>>

GatherTo(o, dest)  == Radios # {dest} /\ BoxCommand(o, "gather", dest, Radios \ {dest})
EvictFrom(o, from) == Radios # {from} /\ BoxCommand(o, "evict", NoRadio, {from})
\* The forced steers of api.go lift every pin and deny nothing.
ForceSteer(o) == BoxCommand(o, "steer", NoRadio, {})

\* clearPins lifts the snapshot one operation at a time and waits for each.
ClearNext(o, x) ==
  /\ pc[o] = "clear" /\ kind[o] \in BoxKinds /\ wait[o] = NoOp /\ x \in todo[o]
  /\ todo' = [todo EXCEPT ![o] = @ \ {x}]
  /\ wait' = [wait EXCEPT ![o] = x]
  /\ LiftPins(x)
  /\ UNCHANGED <<hostapd, zones, command, pending, due, pc, runpin, asked, bounds>>

ClearWaited(o) ==
  /\ pc[o] = "clear" /\ wait[o] # NoOp /\ Drained(<<"lift", wait[o]>>)
  /\ wait' = [wait EXCEPT ![o] = NoOp]
  /\ UNCHANGED <<hostapd, zones, pins, command, pending, once, due, pc, todo, runpin,
                 releases, bounds>>

\* The station tables are read after the clear; nobody to move ends the command.
ToMove(o) == IF kind[o] \in ClientKinds THEN macs[o]
             ELSE {m \in Clients : assoc[m] \in deny[o]}

Cleared(o) ==
  /\ pc[o] = "clear" /\ wait[o] = NoOp /\ todo[o] = {} /\ Drained(<<"run", o>>)
  /\ IF ToMove(o) = {}
     THEN pc' = [pc EXCEPT ![o] = "over"] /\ UNCHANGED pins /\ Collect(o)
     ELSE /\ pc' = [pc EXCEPT ![o] = "note"]
          /\ macs' = [macs EXCEPT ![o] = ToMove(o)]
          /\ UNCHANGED <<pins, to, deny, pending>>
  /\ kind' = [kind EXCEPT ![o] = "steer"]
  /\ UNCHANGED <<hostapd, zones, once, due, clearing, runpin, releases, bounds>>

MutantTakeKeepsEntries(o, m, x) ==  \* the client's entries are left in place
  /\ pins' = [pins EXCEPT ![m] = NoOp]
  /\ pending' = [pending EXCEPT ![x] = @ \ {m}]
  /\ UNCHANGED owed

\* A per-client command takes its client out of the operation holding it (clearPinsFor).
TakeFrom(o, m, x) ==
  /\ pins' = [pins EXCEPT ![m] = NoOp]
  /\ pending' = [pending EXCEPT ![x] = @ \ {m}]
  /\ Owe(<<"run", o>>, {m}, deny[x])

\* The operation it leaves with nobody pending.
Emptied(m) == {x \in {pins[m]} \ {NoOp} : pending[x] \subseteq {m}}

ClientCommand(o, k, m, dest, bar) ==
  /\ Started(o, k, dest, bar, {m}, Emptied(m)) /\ UNCHANGED once
  /\ IF pins[m] = NoOp THEN UNCHANGED <<pins, pending, owed>> ELSE TakeFrom(o, m, pins[m])

\* Once its client's entries are released, the emptied operation's once is consumed.
ConsumeOnce(o, x) ==
  /\ pc[o] = "clear" /\ kind[o] \in ClientKinds /\ x \in todo[o]
  /\ Drained(<<"run", o>>) /\ Drained(<<"lift", x>>)
  /\ once' = once \cup {x}
  /\ todo' = [todo EXCEPT ![o] = @ \ {x}]
  /\ UNCHANGED <<hostapd, zones, pins, command, pending, due, pc, wait, runpin, releases, bounds>>

GatherClientTo(o, m, dest) ==
  Radios # {dest} /\ ClientCommand(o, "gatherClient", m, dest, Radios \ {dest})
EvictClient(o, m) ==
  Radios # {RadioFor(m)} /\ ClientCommand(o, "evictClient", m, NoRadio, {RadioFor(m)})

----------------------------------------------------------------------------
(* runPin.                                                                 *)

\* Registered before anything is applied; each client's radio is read after.
NotePins(o) ==
  /\ pc[o] = "note"
  /\ pc' = [pc EXCEPT ![o] = "bar"]
  /\ pins' = [m \in Clients |-> IF m \in macs[o] THEN o ELSE pins[m]]
  /\ pending' = [pending EXCEPT ![o] = macs[o]]
  /\ left' = [left EXCEPT ![o] = macs[o]]
  /\ origin' = [origin EXCEPT ![o] = [m \in Clients |-> 
                   IF m \in macs[o] THEN RadioFor(m) ELSE Primary]]
  /\ UNCHANGED <<hostapd, zones, command, once, due, clearing, held, cur, put, releases, bounds>>

\* The client step 1 or step 3 is about, one at a time.
InHand(o, m, step) == pc[o] = step /\ m \in left[o] /\ cur[o] \in {NoClient, m}

Done(o, m) ==
  /\ left' = [left EXCEPT ![o] = @ \ {m}]
  /\ held' = [held EXCEPT ![o] = @ \cup {m}]
  /\ cur' = [cur EXCEPT ![o] = NoClient]
  /\ put' = [put EXCEPT ![o] = {}]

\* Step 1: bar the radios the client is not on.
Others(o, m) == deny[o] \ {origin[o][m]}

BarAdd(o, m, r) ==
  /\ InHand(o, m, "bar") /\ r \in Others(o, m) \ put[o]
  /\ DenyAdd(m, r)
  /\ cur' = [cur EXCEPT ![o] = m]
  /\ put' = [put EXCEPT ![o] = @ \cup {r}]
  /\ UNCHANGED <<zones, pins, command, pending, once, due, pc, clearing, origin, left, held,
                 releases, bounds>>

Barred(o, m) ==
  /\ InHand(o, m, "bar") /\ Others(o, m) = put[o]
  /\ Done(o, m)
  /\ UNCHANGED <<hostapd, zones, pins, command, pending, once, due, pc, clearing, origin,
                 releases, bounds>>

\* denyAll unwinds with plain DELs.
BarRefused(o, m) ==
  /\ InHand(o, m, "bar") /\ Others(o, m) # put[o]
  /\ faults < MaxFaults /\ faults' = faults + 1
  /\ pc' = [pc EXCEPT ![o] = "barDrop"]
  /\ cur' = [cur EXCEPT ![o] = m]
  /\ Unwind(<<"run", o>>, m, put[o])
  /\ UNCHANGED <<hostapd, zones, pins, command, pending, once, due, clearing, origin, left,
                 held, put, owed, restarts>>

\* Step 2 asks, and waits up to pinAskGrace: time for clients to Associate elsewhere.
AskBeforeDeny(o) ==
  /\ pc[o] = "bar" /\ left[o] = {}
  /\ pc' = [pc EXCEPT ![o] = "close"]
  /\ left' = [left EXCEPT ![o] = held[o]]
  /\ held' = [held EXCEPT ![o] = {}]
  /\ UNCHANGED <<hostapd, zones, pins, command, pending, once, due, clearing, origin, cur, put,
                 releases, bounds>>

\* Step 3: bar the radio it is on.  A client no longer held has what was placed released.
ReleaseUnlessHeld(o, m) ==
  IF PinHeld(o, m) THEN UNCHANGED owed ELSE Owe(<<"run", o>>, {m}, deny[o])

NothingToClose(o, m) == origin[o][m] \notin deny[o] \/ ~PinHeld(o, m)

ClosePass(o, m) ==
  /\ InHand(o, m, "close") /\ cur[o] = NoClient /\ Drained(<<"run", o>>)
  /\ NothingToClose(o, m)
  /\ ReleaseUnlessHeld(o, m)
  /\ Done(o, m)
  /\ UNCHANGED <<hostapd, zones, pins, command, pending, once, due, pc, clearing, origin,
                 asked, bounds>>

CloseAdd(o, m) ==
  /\ InHand(o, m, "close") /\ cur[o] = NoClient /\ Drained(<<"run", o>>)
  /\ ~NothingToClose(o, m)
  /\ DenyAdd(m, origin[o][m])
  /\ cur' = [cur EXCEPT ![o] = m]
  /\ UNCHANGED <<zones, pins, command, pending, once, due, pc, clearing, origin, left, held,
                 put, releases, bounds>>

CloseRecheck(o, m) ==
  /\ InHand(o, m, "close") /\ cur[o] = m
  /\ ReleaseUnlessHeld(o, m)
  /\ Done(o, m)
  /\ UNCHANGED <<hostapd, zones, pins, command, pending, once, due, pc, clearing, origin,
                 asked, bounds>>

\* hostapd refuses: release while still registered, and only then drop the claim.
CloseRefused(o, m) ==
  /\ InHand(o, m, "close") /\ cur[o] = NoClient /\ Drained(<<"run", o>>)
  /\ ~NothingToClose(o, m)
  /\ faults < MaxFaults /\ faults' = faults + 1
  /\ pc' = [pc EXCEPT ![o] = "closeDrop"]
  /\ cur' = [cur EXCEPT ![o] = m]
  /\ Owe(<<"run", o>>, {m}, deny[o])
  /\ UNCHANGED <<hostapd, zones, pins, command, pending, once, due, clearing, origin, left,
                 held, put, asked, restarts>>

\* fail: the client no longer counts, whichever operation holds it by now.
FailClient(o, m) ==
  /\ pc[o] \in {"barDrop", "closeDrop"} /\ cur[o] = m /\ Drained(<<"run", o>>)
  /\ pc' = [pc EXCEPT ![o] = IF @ = "barDrop" THEN "bar" ELSE "close"]
  /\ pins' = [pins EXCEPT ![m] = NoOp]
  /\ pending' = [pending EXCEPT ![o] = @ \ {m}]
  /\ left' = [left EXCEPT ![o] = @ \ {m}]
  /\ cur' = [cur EXCEPT ![o] = NoClient]
  /\ put' = [put EXCEPT ![o] = {}]
  /\ UNCHANGED <<hostapd, zones, command, once, due, clearing, origin, held, releases, bounds>>

\* Nobody pinned lifts at once; otherwise kick from the denied radios and arm the timer.
NobodyPinned(o) ==
  /\ pc[o] = "close" /\ left[o] = {} /\ held[o] = {} /\ Drained(<<"run", o>>)
  /\ pc' = [pc EXCEPT ![o] = "over"]
  /\ origin' = [origin EXCEPT ![o] = [m \in Clients |-> Primary]]
  /\ LiftPins(o) /\ Collect(o)
  /\ UNCHANGED <<hostapd, zones, kind, due, clearing, left, held, cur, put, asked, bounds>>

KickFromDenied(o) ==
  /\ pc[o] = "close" /\ left[o] = {} /\ held[o] # {} /\ Drained(<<"run", o>>)
  /\ pc' = [pc EXCEPT ![o] = "armed"]
  /\ Kick(held[o], deny[o])
  /\ held' = [held EXCEPT ![o] = {}]
  /\ origin' = [origin EXCEPT ![o] = [m \in Clients |-> Primary]]
  /\ UNCHANGED <<acl, zones, pins, command, pending, once, due, clearing, left, cur,
                 put, releases, bounds>>

----------------------------------------------------------------------------
\* The daemon dies and starts again: every goroutine and registry is gone, and
\* clearDenyACL empties every radio's list before anything else is served.
DaemonRestart ==
  /\ restarts < MaxRestarts /\ restarts' = restarts + 1
  /\ acl' = [r \in Radios |-> {}]
  /\ deadzones' = [m \in Clients |-> NoZone] /\ pins' = [m \in Clients |-> NoOp]
  /\ zpc' = [z \in Zones |-> IF zpc[z] = "idle" THEN "idle" ELSE "over"]
  /\ zmac' = [z \in Zones |-> NoClient]
  /\ zon' = [z \in Zones |-> {}] /\ zput' = [z \in Zones |-> {}]
  /\ kind' = [o \in Ops |-> "steer"] /\ to' = [o \in Ops |-> NoRadio]
  /\ deny' = [o \in Ops |-> {}] /\ macs' = [o \in Ops |-> {}]
  /\ pending' = [o \in Ops |-> {}] /\ due' = {}
  /\ once' = {o \in Ops : pc[o] # "idle"}
  /\ pc' = [o \in Ops |-> IF pc[o] = "idle" THEN "idle" ELSE "over"]
  /\ todo' = [o \in Ops |-> {}] /\ wait' = [o \in Ops |-> NoOp]
  /\ origin' = [o \in Ops |-> [m \in Clients |-> Primary]]
  /\ left' = [o \in Ops |-> {}] /\ held' = [o \in Ops |-> {}]
  /\ cur' = [o \in Ops |-> NoClient] /\ put' = [o \in Ops |-> {}]
  /\ owed' = [t \in Threads |-> {}] /\ asked' = [t \in Threads |-> {}]
  /\ UNCHANGED <<assoc, faults>>

----------------------------------------------------------------------------
Release == \E t \in Threads, m \in Clients, r \in Radios :
             AskStillDenied(t, m, r) \/ DenyDel(t, m, r)

Radio == \E m \in Clients :
  \/ \E r \in Radios, heard \in BOOLEAN : Associate(m, r, heard)
  \/ Leave(m)

Deadzone(z) ==
  \/ \E r \in Radios : DeadzoneAdd(z, r)
  \/ DeadzoneRefused(z) \/ NoteDeadzone(z) \/ DeadzoneLapses(z) \/ ForgetDeadzone(z)

RunPin(o) ==
  \/ \E x \in Ops : ClearNext(o, x) \/ ConsumeOnce(o, x)
  \/ ClearWaited(o) \/ Cleared(o) \/ NotePins(o)
  \/ \E m \in Clients : \/ \E r \in Radios : BarAdd(o, m, r)
                        \/ Barred(o, m) \/ BarRefused(o, m)
                        \/ ClosePass(o, m) \/ CloseAdd(o, m)
                        \/ CloseRecheck(o, m) \/ CloseRefused(o, m)
                        \/ FailClient(o, m)
  \/ AskBeforeDeny(o) \/ NobodyPinned(o) \/ KickFromDenied(o)

Lift(o) == LiftDue(o) \/ PinTimeout(o)

Command ==
  \/ \E z \in Zones, m \in Clients, on \in SUBSET Radios : LinkDeadzone(z, m, on)
  \/ \E o \in Ops :
       \/ \E r \in Radios : GatherTo(o, r) \/ EvictFrom(o, r)
       \/ ForceSteer(o)
       \/ \E m \in Clients : \/ \E r \in Radios : GatherClientTo(o, m, r)
                             \/ EvictClient(o, m)

Next ==
  \/ Radio \/ Release \/ Command \/ DaemonRestart
  \/ \E z \in Zones : Deadzone(z)
  \/ \E o \in Ops : RunPin(o) \/ Lift(o)

Spec == Init /\ [][Next]_vars

\* Every goroutine the daemon starts keeps running: the scheduler is fair, the
\* sleeps end, and hostapd answers.  Operators and clients owe nothing.
Fairness ==
  /\ WF_vars(Release)
  /\ \A z \in Zones : WF_vars(Deadzone(z))
  /\ \A o \in Ops : WF_vars(RunPin(o)) /\ WF_vars(Lift(o))

FairSpec == Spec /\ Fairness

----------------------------------------------------------------------------
(* Properties.                                                             *)

\* The deadzones whose goroutine has still to take m off r.
ZoneOwns(m, r) == \E z \in Zones :
  zpc[z] \in {"denying", "inforce", "lapsed"} /\ zmac[z] = m /\ r \in zput[z]

PinOwns(m, r) == pins[m] # NoOp /\ r \in deny[pins[m]]

\* A runPin handler that has placed entries for m will look at pinHeld before it ends.
Handling(o, m) ==
  \/ pc[o] = "bar" /\ m \in left[o] \cup held[o]
  \/ pc[o] = "close" /\ m \in left[o]
HandlerOwns(m, r) == \E o \in Ops : Handling(o, m) /\ r \in deny[o]

ReleaseOwns(m, r) == \E t \in Threads : <<m, r>> \in owed[t] \cup asked[t]

\* No deny entry is ever forgotten: whoever withdraws a claim leaves the entry
\* only where another claim, a handler or a release still answers for it
\* ("TIMED, always ... a forgotten one is indistinguishable from a broken
\* device", gather.go).
EntryOwned == \A m \in Clients, r \in Radios :
  m \in acl[r] => ZoneOwns(m, r) \/ PinOwns(m, r) \/ HandlerOwns(m, r) \/ ReleaseOwns(m, r)

ZoneActive(m) == \E z \in Zones : zmac[z] = m /\ zpc[z] \in {"denying", "inforce", "lapsed"}

\* Movement commands never lock a client off the box: with no deadzone on it and
\* no release of it under way, some radio still takes it, however commands,
\* arrivals and timeouts interleave (the accident clearPins is there to prevent).
NoLastingLockout == \A m \in Clients :
  ~ZoneActive(m) /\ (\A r \in Radios : ~ReleaseOwns(m, r)) => \E r \in Radios : m \notin acl[r]

\* A deadzone in force is enforced on every radio it covers until its time is up,
\* whatever other claim ends meanwhile (stillDenied, gather.go).
DeadzoneEnforced == \A z \in Zones :
  zpc[z] = "inforce" => \A r \in zon[z] : zmac[z] \in acl[r]

\* An operation never waits for a client it has lost: everyone pending is a
\* client the registry still gives to it (or its lift would wait for nobody).
WaitsOnlyForHeld == \A o \in Ops : \A m \in pending[o] : pins[m] = o \/ o \in once

\* A claim in the registry has somebody left to end it: its operation's once is
\* not spent, and its handler or its timer is still there to spend it.
ClaimHasEnder == \A m \in Clients : pins[m] # NoOp =>
  /\ pins[m] \notin once
  /\ Busy(pins[m]) \/ pc[pins[m]] = "armed" \/ pins[m] \in due

\* Every operation's claim on a client comes to an end, whatever hostapd refuses
\* and whichever arrivals the monitor misses.
EveryClaimEnds == \A m \in Clients, o \in Ops : (pins[m] = o) ~> (pins[m] # o)

\* No entry outlives its reason: a client denied on a radio is allowed there again,
\* by whatever timers, arrivals and releases come ("TIMED, always", gather.go).
EveryEntryEnds == \A m \in Clients, r \in Radios : (m \in acl[r]) ~> (m \notin acl[r])
=============================================================================
