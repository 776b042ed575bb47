------------------------------- MODULE Radio -------------------------------
(***************************************************************************)
(* One radio, and who may switch it off and on (radiopower.go,             *)
(* radiointent.go, radioctl.go, and select-radio in scripts/customize.sh). *)
(*                                                                         *)
(* Two switches: the radio's power (rfkill) and its access point (hostapd  *)
(* ENABLE / DISABLE).  Each has a marker file saying why it is off, which  *)
(* outlives the daemon.  The operator, timed outages, a pattern's cuts,    *)
(* recoveries, the daemon's start and the hotplug script all act on them,  *)
(* writing the marker in one step and the switch in another.               *)
(*                                                                         *)
(* wish, apWish and lost record what happened, for the properties only.    *)
(***************************************************************************)
EXTENDS Integers

CONSTANTS
  Outages,  \* RadioOutage calls in flight at once
  Cuts,     \* a pattern's access-point cuts in flight at once
  Kinds,    \* what disturbs the radio in this instance
  Budget    \* how many disturbances a behaviour may hold

AllKinds == {"power", "ap", "outage", "cut", "hotplug", "crash"}

ASSUME KindsAssumption  == Kinds \subseteq AllKinds
ASSUME BudgetAssumption == Budget \in Nat

VARIABLES
  power,       \* rfkill: the radio may transmit
  admin,       \* hostapd: the last command it obeyed was to serve
  stuck,       \* hostapd takes the BSS for up and the driver has lost it (#182)
  up,          \* the access point is on the air
  radioMark, apMark,   \* the marker files
  alive,       \* the daemon runs
  press, apPress,      \* the operator's call whose marker is written, switch not yet
  outage, cut,         \* each timed call and its goroutine
  spawned,     \* confirmAPBack goroutines not yet at startRecovery
  rec,         \* the recovery in progress and the check made at start
  hotplug,     \* where select-radio is
  left,        \* disturbances still to come
  wish, apWish,        \* the operator's last word, "disputed" once others took part
  lost         \* a watch was turned away, or the check at start from a wedged radio

kernel  == <<power, admin, stuck, up>>
markers == <<radioMark, apMark>>
timers  == <<outage, cut>>
ghosts  == <<wish, apWish, lost>>
vars == <<kernel, markers, alive, press, apPress, timers, spawned, rec, hotplug, left, ghosts>>

Marks   == {"none", "operator", "outage"}
Presses == {"none", "off", "on"}
Wishes  == {"on", "off", "disputed"}
Recoverers == {"watch", "check"}
RecPC   == {"idle", "settle", "look",
            "wait", "enable", "confirm", "rebuild", "revive", "finish"}
TimerPC == {"idle", "begin", "sleep", "restore"}

TypeOK ==
  /\ power \in BOOLEAN /\ admin \in BOOLEAN /\ stuck \in BOOLEAN /\ up \in BOOLEAN
  /\ radioMark \in Marks /\ apMark \in Marks
  /\ alive \in BOOLEAN /\ press \in Presses /\ apPress \in Presses
  /\ outage \in [Outages -> TimerPC] /\ cut \in [Cuts -> TimerPC]
  /\ spawned \in Nat /\ rec \in [Recoverers -> RecPC]
  /\ hotplug \in {"idle", "unblock", "restart"}
  /\ left \in Nat
  /\ wish \in Wishes /\ apWish \in Wishes /\ lost \in BOOLEAN

\* A box in service: the daemon long started, the radio on and serving.
Init ==
  /\ power = TRUE /\ admin = TRUE /\ stuck = FALSE /\ up = TRUE
  /\ radioMark = "none" /\ apMark = "none"
  /\ alive = TRUE /\ press = "none" /\ apPress = "none"
  /\ outage = [o \in Outages |-> "idle"] /\ cut = [c \in Cuts |-> "idle"]
  /\ spawned = 0 /\ rec = [p \in Recoverers |-> "idle"]
  /\ hotplug = "idle" /\ left = Budget
  /\ wish = "on" /\ apWish = "on" /\ lost = FALSE

----------------------------------------------------------------------------
(* rfkill and hostapd.                                                     *)

Block == power' = FALSE /\ up' = FALSE /\ UNCHANGED <<admin, stuck>>

\* Unblocking a blocked radio may leave the driver without the BSS hostapd believes in.
Unblock ==
  /\ power' = TRUE
  /\ UNCHANGED <<admin, up>>
  /\ \/ UNCHANGED stuck
     \/ ~power /\ admin /\ stuck' = TRUE

\* hostapd refuses ENABLE while it believes it serves.  Without power the BSS cannot
\* start, and whether hostapd then stays enabled is left open.
Enable ==
  /\ UNCHANGED <<power, stuck, up>>
  /\ \/ admin' = TRUE
     \/ ~admin /\ ~power /\ admin' = FALSE

Disable == admin' = FALSE /\ stuck' = FALSE /\ up' = FALSE /\ UNCHANGED power

RestartHostapd == admin' = TRUE /\ stuck' = FALSE /\ up' = FALSE /\ UNCHANGED power

\* hostapd watches rfkill itself and puts its BSS back on the air.
HostapdServes ==
  /\ power /\ admin /\ ~stuck /\ ~up
  /\ up' = TRUE
  /\ UNCHANGED <<power, admin, stuck, markers, alive, press, apPress, timers, spawned, rec,
                 hotplug, left, ghosts>>

Disturb(kind) == kind \in Kinds /\ left > 0 /\ left' = left - 1

\* Somebody else acts on the radio, or its access point, after the operator's off.
Dispute(w) == IF w = "off" THEN "disputed" ELSE w

\* setRadioPower(on): the switch, and a watch that confirms the access point comes back.
PowerOn == Unblock /\ spawned' = spawned + 1 /\ apWish' = Dispute(apWish)

----------------------------------------------------------------------------
(* The operator: SetRadioPower and SetAPEnabled.                           *)

\* Nothing begun before can switch the radio on any more.
PowerAlone == hotplug # "unblock" /\ \A o \in Outages : outage[o] = "idle"
\* Nothing begun before can bring the access point up any more.
APAlone ==
  /\ spawned = 0 /\ hotplug = "idle"
  /\ rec["watch"] = "idle" /\ rec["check"] \in {"idle", "settle"}
  /\ \A c \in Cuts : cut[c] = "idle"

Asked(want, alone) == IF want = "on" THEN "on" ELSE IF alone THEN "off" ELSE "disputed"
MarkFor(want) == IF want = "off" THEN "operator" ELSE "none"

\* The marker first, so that a radio that is off always says the operator meant it.
PowerPress(want) ==
  /\ alive /\ press = "none" /\ Disturb("power")
  /\ radioMark' = MarkFor(want)
  /\ press' = want
  /\ wish' = Asked(want, PowerAlone)
  /\ UNCHANGED <<kernel, apMark, alive, apPress, timers, spawned, rec, hotplug, apWish,
                 lost>>

PowerSwitch ==
  /\ press # "none"
  /\ IF press = "on" THEN PowerOn ELSE Block /\ UNCHANGED <<spawned, apWish>>
  /\ press' = "none"
  /\ UNCHANGED <<markers, alive, apPress, timers, rec, hotplug, left, wish, lost>>

APPress(want) ==
  /\ alive /\ apPress = "none" /\ Disturb("ap")
  /\ apMark' = MarkFor(want)
  /\ apPress' = want
  /\ apWish' = Asked(want, APAlone)
  /\ UNCHANGED <<kernel, radioMark, alive, press, timers, spawned, rec, hotplug, wish,
                 lost>>

APCommand ==
  /\ apPress # "none"
  /\ IF apPress = "on" THEN Enable ELSE Disable
  /\ apPress' = "none"
  /\ UNCHANGED <<markers, alive, press, timers, spawned, rec, hotplug, left, ghosts>>

----------------------------------------------------------------------------
(* RadioOutage: cut, mark, sleep, clear the marker, power on.              *)

OutageBegins(o) ==
  /\ alive /\ outage[o] = "idle" /\ Disturb("outage")
  /\ Block
  /\ outage' = [outage EXCEPT ![o] = "begin"]
  /\ wish' = Dispute(wish)
  /\ UNCHANGED <<markers, alive, press, apPress, cut, spawned, rec, hotplug, apWish, lost>>

MutantMarkedAsOperator(o) ==  \* the outage is recorded as the operator's decision
  /\ outage[o] = "begin"
  /\ radioMark' = "operator"
  /\ outage' = [outage EXCEPT ![o] = "sleep"]
  /\ UNCHANGED <<kernel, apMark, alive, press, apPress, cut, spawned, rec, hotplug, left,
                 ghosts>>

OutageMarked(o) ==
  /\ outage[o] = "begin"
  /\ radioMark' = "outage"
  /\ outage' = [outage EXCEPT ![o] = "sleep"]
  /\ UNCHANGED <<kernel, apMark, alive, press, apPress, cut, spawned, rec, hotplug, left,
                 ghosts>>

OutageEnds(o) ==
  /\ outage[o] = "sleep"
  /\ radioMark' = "none"
  /\ outage' = [outage EXCEPT ![o] = "restore"]
  /\ UNCHANGED <<kernel, apMark, alive, press, apPress, cut, spawned, rec, hotplug, left,
                 ghosts>>

OutageRestores(o) ==
  /\ outage[o] = "restore"
  /\ PowerOn
  /\ outage' = [outage EXCEPT ![o] = "idle"]
  /\ UNCHANGED <<markers, alive, press, apPress, cut, rec, hotplug, left, wish, lost>>

----------------------------------------------------------------------------
(* A pattern's access-point cut: setAPEnabled off, sleep, setAPEnabled on. *)

CutBegins(c) ==
  /\ alive /\ cut[c] = "idle" /\ Disturb("cut")
  /\ apMark' = "outage"
  /\ cut' = [cut EXCEPT ![c] = "begin"]
  /\ apWish' = Dispute(apWish)
  /\ UNCHANGED <<kernel, radioMark, alive, press, apPress, outage, spawned, rec, hotplug,
                 wish, lost>>

CutDisables(c) ==
  /\ cut[c] = "begin"
  /\ Disable
  /\ cut' = [cut EXCEPT ![c] = "sleep"]
  /\ UNCHANGED <<markers, alive, press, apPress, outage, spawned, rec, hotplug, left,
                 ghosts>>

CutEnds(c) ==
  /\ cut[c] = "sleep"
  /\ apMark' = "none"
  /\ cut' = [cut EXCEPT ![c] = "restore"]
  /\ UNCHANGED <<kernel, radioMark, alive, press, apPress, outage, spawned, rec, hotplug,
                 left, ghosts>>

CutEnables(c) ==
  /\ cut[c] = "restore"
  /\ Enable
  /\ cut' = [cut EXCEPT ![c] = "idle"]
  /\ UNCHANGED <<markers, alive, press, apPress, outage, spawned, rec, hotplug, left,
                 ghosts>>

----------------------------------------------------------------------------
(* confirmAPBack and enableAP: one watch at a time may recover the radio.  *)

Goes(p, pc) == rec' = [rec EXCEPT ![p] = pc]
NotRecovery == <<markers, alive, press, apPress, timers, hotplug, left, wish, apWish>>

StartRecovery ==
  /\ spawned > 0
  /\ spawned' = spawned - 1
  /\ IF rec["watch"] = "idle"
     THEN Goes("watch", "wait") /\ UNCHANGED lost
     ELSE lost' = TRUE /\ UNCHANGED rec
  /\ UNCHANGED <<kernel, NotRecovery>>

\* A wait ends with the access point seen up, or at its deadline with it last seen down.
\* What follows the deadline is a later step.
Waited(p, at, next) ==
  /\ rec[p] = at
  /\ Goes(p, IF up THEN "idle" ELSE next)
  /\ UNCHANGED <<kernel, spawned, lost, NotRecovery>>

\* A refusal is taken for the wedge.  No answer within the socket's deadline says nothing.
SendEnable ==
  /\ rec["watch"] = "enable"
  /\ Enable
  /\ \/ (admin \/ ~admin') /\ Goes("watch", "rebuild")
     \/ Goes("watch", "confirm")
  /\ UNCHANGED <<spawned, lost, NotRecovery>>

MutantNoRebuild(p) ==  \* no DISABLE first, and the ENABLE is refused
  /\ rec[p] = "rebuild"
  /\ Enable /\ Goes(p, "finish")
  /\ UNCHANGED <<spawned, lost, NotRecovery>>

\* rebuildBSS: DISABLE, or a restart of hostapd when it does not answer.
Rebuild(p) ==
  /\ rec[p] = "rebuild"
  /\ \/ Disable /\ Goes(p, "revive")
     \/ RestartHostapd /\ Goes(p, "finish")
  /\ UNCHANGED <<spawned, lost, NotRecovery>>

Revive(p) ==
  /\ rec[p] = "revive"
  /\ Enable
  /\ Goes(p, "finish")
  /\ UNCHANGED <<spawned, lost, NotRecovery>>

Recover(p) ==
  \/ p = "watch" /\ Waited(p, "wait", "enable")
  \/ p = "watch" /\ SendEnable
  \/ p = "watch" /\ Waited(p, "confirm", "rebuild")
  \/ p = "check" /\ Waited(p, "look", "rebuild")
  \/ Rebuild(p)
  \/ Revive(p)
  \/ Waited(p, "finish", "idle")

----------------------------------------------------------------------------
(* The daemon dies and starts again.                                       *)

Crash ==
  /\ alive /\ Disturb("crash")
  /\ alive' = FALSE
  /\ press' = "none" /\ apPress' = "none"
  /\ outage' = [o \in Outages |-> "idle"] /\ cut' = [c \in Cuts |-> "idle"]
  /\ spawned' = 0 /\ rec' = [p \in Recoverers |-> "idle"]
  \* a call cut off in the middle promised its caller nothing
  /\ wish' = IF press = "none" THEN wish ELSE Dispute(wish)
  /\ apWish' = IF apPress = "none" THEN apWish ELSE Dispute(apWish)
  /\ UNCHANGED <<kernel, markers, hotplug, lost>>

MutantIgnoresMarker == {}  \* the start powers on whatever was off (#186)
StaysOff == {"operator"}

\* restoreRadioPower, then checkRadiosAtStart's goroutine.
Start ==
  /\ ~alive /\ alive' = TRUE
  /\ IF power \/ radioMark \notin StaysOff
     THEN radioMark' = "none" ELSE UNCHANGED radioMark
  /\ IF ~power /\ radioMark \notin StaysOff
     THEN PowerOn ELSE UNCHANGED <<kernel, spawned, apWish>>
  /\ Goes("check", "settle")
  /\ UNCHANGED <<apMark, press, apPress, timers, hotplug, left, wish, lost>>

MutantCheckAll == ~power  \* the access point's marker is not consulted (#282)
\* Off on purpose, as the check at start sees it.
OffOnPurpose == ~power \/ apMark = "operator"

\* The check reads power and marker once, after its settling time.
CheckSettled ==
  /\ rec["check"] = "settle"
  /\ IF OffOnPurpose
     THEN Goes("check", "idle") /\ UNCHANGED apMark /\ lost' = (lost \/ stuck)
     ELSE /\ Goes("check", "look") /\ UNCHANGED lost
          /\ apMark' = IF apMark = "outage" THEN "none" ELSE apMark
  /\ UNCHANGED <<kernel, radioMark, alive, press, apPress, timers, spawned, hotplug, left,
                 wish, apWish>>

----------------------------------------------------------------------------
(* select-radio, run by udev when an adapter comes or goes.                *)

\* held_off lists the markers before the loop unblocks the onboard radio ...
HotplugReads ==
  /\ hotplug = "idle" /\ Disturb("hotplug")
  /\ hotplug' = IF radioMark = "none" THEN "unblock" ELSE "restart"
  /\ apWish' = Dispute(apWish)
  /\ UNCHANGED <<kernel, markers, alive, press, apPress, timers, spawned, rec, wish, lost>>

\* ... and nobody in the daemon is told that it did.
HotplugUnblocks ==
  /\ hotplug = "unblock"
  /\ Unblock
  /\ hotplug' = "restart"
  /\ UNCHANGED <<markers, alive, press, apPress, timers, spawned, rec, left, ghosts>>

HotplugRestarts ==
  /\ hotplug = "restart"
  /\ RestartHostapd
  /\ hotplug' = "idle"
  /\ UNCHANGED <<markers, alive, press, apPress, timers, spawned, rec, left, ghosts>>

----------------------------------------------------------------------------
Outage(o) == OutageMarked(o) \/ OutageEnds(o) \/ OutageRestores(o)
Cut(c)    == CutDisables(c) \/ CutEnds(c) \/ CutEnables(c)

Next ==
  \/ HostapdServes
  \/ \E want \in {"off", "on"} : PowerPress(want) \/ APPress(want)
  \/ PowerSwitch \/ APCommand
  \/ \E o \in Outages : OutageBegins(o) \/ Outage(o)
  \/ \E c \in Cuts : CutBegins(c) \/ Cut(c)
  \/ StartRecovery
  \/ \E p \in Recoverers : Recover(p)
  \/ CheckSettled
  \/ Crash \/ Start
  \/ HotplugReads \/ HotplugUnblocks \/ HotplugRestarts

Spec == Init /\ [][Next]_vars

\* hostapd, every goroutine and every call that has begun runs on; systemd restarts the
\* daemon.  Nothing obliges the operator, a pattern, udev or a kill to act.
Fairness ==
  /\ WF_vars(HostapdServes) /\ WF_vars(PowerSwitch) /\ WF_vars(APCommand)
  /\ \A o \in Outages : WF_vars(Outage(o))
  /\ \A c \in Cuts : WF_vars(Cut(c))
  /\ WF_vars(StartRecovery) /\ \A p \in Recoverers : WF_vars(Recover(p))
  /\ WF_vars(CheckSettled) /\ WF_vars(Start)
  /\ WF_vars(HotplugUnblocks \/ HotplugRestarts)

FairSpec == Spec /\ Fairness

----------------------------------------------------------------------------
(* Properties.                                                             *)

\* The box never leaves a radio dark that nobody asked to be dark: with the daemon
\* running and no press half done, a radio without power is the operator's last word
\* or an outage that will end, whatever was killed or restarted in between
\* (restoreRadioPower, RadioOutage).
DarkIsAskedFor ==
  alive /\ press = "none" /\ ~power =>
    wish # "on" \/ \E o \in Outages : outage[o] # "idle"

\* The operator's switch-off outlives restarts of the daemon and hotplugs that come
\* after it, as long as no outage is involved (SetRadioPower, #186).
OffStays == wish = "off" /\ press = "none" => ~power

\* An access point the operator disabled stays down across restarts of the daemon, as
\* long as the radio's power and the hotplug script are left alone (SetAPEnabled, #282).
APOffStays == apWish = "off" /\ apPress = "none" => ~up

\* When the disturbances are over and the operator wants it, the access point serves
\* in the end, wedged radio or not, unless startRecovery turned a watch away or the
\* check at start left a wedged radio alone for a marker's sake.
ServesAgain == <>[](wish = "on" /\ apWish = "on" => up) \/ <>lost

\* What comments of the code say, and it does not do (README, "Findings").
\* radiointent.go: only the operator switching the radio back on ends an off.
OnlyOperatorEnds == wish # "on" /\ press = "none" => ~power

\* state.go: the watch turned away is not needed, one is at work already.
ServesWhenWanted == <>[](wish = "on" /\ apWish = "on" => up)
=============================================================================
