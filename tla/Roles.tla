------------------------------- MODULE Roles -------------------------------
(***************************************************************************)
(* Who listens and who serves: a radio's role, which two configurations    *)
(* have to agree about.                                                    *)
(*                                                                         *)
(* OpenWrt's `wireless` says whether a radio's access point is disabled;   *)
(* boa's own package lists the listen-only radios, once by interface name  *)
(* and once by hardware address.  SetRadioRole changes both in a dozen     *)
(* separate commands, each of which can fail, and ends by restarting the   *)
(* daemon it runs in; the restart kills whatever other request is at work. *)
(* Around it live the init script that resolves the list against the       *)
(* hardware, the daemon's start, which makes the missing listen-only       *)
(* interfaces and removes the left-over ones, the two-minute timer that    *)
(* rebuilds one, the hotplug hook, and netifd and the driver, which are    *)
(* external.                                                               *)
(*                                                                         *)
(* A radio keeps its phy name here, so the two lists differ only by the    *)
(* radios that are away; how a radio is found in `wireless` is abstracted  *)
(* to the radio being there.                                               *)
(***************************************************************************)
EXTENDS Naturals, Sequences, FiniteSets

CONSTANTS
  Radios,       \* the box's radios
  Onboard,      \* those the shipped heuristic would listen with (brcmfmac)
  Requests,     \* role requests the API may have in flight at once
  Recorded,     \* the radios listening when the behaviour starts
  NoRadio,
  MaxAsks,      \* bound on the role requests
  MaxFaults,    \* bound on the commands that fail
  MaxBreaks     \* bound on unplugs, crashes and reboots, together

ASSUME RolesAssumption ==
  /\ Onboard \subseteq Radios
  /\ Recorded \subseteq Radios
  /\ NoRadio \notin Radios
  /\ {MaxAsks, MaxFaults, MaxBreaks} \subseteq Nat

VARIABLES
  conf,         \* the committed configuration
  work,         \* what `uci get` answers: the committed one and the staged edits
  present,      \* the radios that are plugged in
  ap,           \* each radio's access point: off, starting, or beaconing
  listening,    \* the radios with a listen-only interface
  up,           \* the daemon runs
  ports,        \* its ScanPorts, read when it started
  retired,      \* its scanRetired
  rebuilding,   \* the radio the rebuild timer has found missing, about to add
  restarting,   \* a detached restart is on its way
  hooks,        \* the radios whose hotplug hook has yet to run
  req,          \* the role requests in flight
  role,         \* the role each radio was last given, as the caller was told
  unfinished,   \* the radios whose last request has not come to its end
  asks, faults, breaks

uci    == <<conf, work>>
netdev == <<present, ap, listening>>
daemon == <<up, ports, retired, rebuilding, restarting>>
told   == <<role, unfinished>>
bounds == <<asks, faults, breaks>>
vars   == <<uci, netdev, daemon, hooks, req, told, bounds>>

Config == [off : SUBSET Radios, names : SUBSET Radios, macs : SUBSET Radios]
Ways   == {"scanner", "serve", "back"}

Free == [radio |-> NoRadio, way |-> "serve", at |-> 0, list |-> {}, sound |-> TRUE]

(***************************************************************************)
(* The commands of each way through SetRadioRole, in the code's order.     *)
(* "back" is what a promotion falls into when no access point comes up.    *)
(***************************************************************************)
MutantNoRestore(way) ==
  IF way = "scanner"
  THEN <<"stage", "commit", "reload", "listen", "readNames", "setNames",
         "readMacs", "setMacs", "commitBoa", "answer">>
  ELSE IF way = "serve"
  THEN <<"stage", "channel", "commit", "retire", "unlisten", "readNames",
         "setNames", "readMacs", "setMacs", "commitBoa", "reload", "await",
         "commitBoa", "answer">>
  ELSE <<"stage", "commit", "reload", "listen", "refuse">>

Program(way) ==
  IF way = "scanner"
  THEN <<"stage", "commit", "reload", "listen", "readNames", "setNames",
         "readMacs", "setMacs", "commitBoa", "answer">>
  ELSE IF way = "serve"
  THEN <<"stage", "channel", "commit", "retire", "unlisten", "readNames",
         "setNames", "readMacs", "setMacs", "commitBoa", "reload", "await",
         "commitBoa", "answer">>
  ELSE <<"stage", "commit", "readNames", "setNames", "readMacs", "setMacs",
         "commitBoa", "reload", "listen", "refuse">>

Listens(way) == way # "serve"

MutantSingleList(have, r, want) == IF want THEN {r} ELSE {}

(* scanPortsAfter, as a set: both lists name several radios. *)
AfterList(have, r, want) == IF want THEN have \cup {r} ELSE have \ {r}

(* What `uci commit` of one package writes: everything staged in it. *)
WirelessOf(c, w) == [c EXCEPT !.off = w.off]
BoaOf(c, w) == [c EXCEPT !.names = w.names, !.macs = w.macs]

(* netifd after `wifi reload`: access points the configuration disables go,*)
(* the others start unless they are there already.                        *)
Reloaded ==
  [r \in Radios |-> IF r \notin present \/ r \in conf.off THEN "off"
                    ELSE IF ap[r] = "off" THEN "starting"
                    ELSE ap[r]]

(* The radio scannerrole would find behind the interface it was asked by. *)
RadioThere(r) == r \in present /\ (r \in listening \/ ap[r] # "off")

TypeOK ==
  /\ {conf, work} \subseteq Config
  /\ {present, listening, ports, retired, hooks, unfinished} \subseteq SUBSET Radios
  /\ ap \in [Radios -> {"off", "starting", "up"}]
  /\ {up, restarting} \subseteq BOOLEAN
  /\ rebuilding \in Radios \cup {NoRadio}
  /\ req \in [Requests -> [radio : Radios \cup {NoRadio}, way : Ways, at : 0..14,
                           list : SUBSET Radios, sound : BOOLEAN]]
  /\ role \in [Radios -> {"scanner", "serve"}]

Init ==
  /\ conf = [off |-> Recorded, names |-> Recorded, macs |-> Recorded]
  /\ work = conf
  /\ present = Radios
  /\ ap = [r \in Radios |-> IF r \in Recorded THEN "off" ELSE "up"]
  /\ listening = Recorded
  /\ up = TRUE
  /\ ports = Recorded
  /\ retired = {}
  /\ rebuilding = NoRadio
  /\ restarting = FALSE
  /\ hooks = {}
  /\ req = [q \in Requests |-> Free]
  /\ role = [r \in Radios |-> IF r \in Recorded THEN "scanner" ELSE "serve"]
  /\ unfinished = {}
  /\ asks = 0 /\ faults = 0 /\ breaks = 0

(***************************************************************************)
(* SetRadioRole, one command at a time.                                    *)
(***************************************************************************)
Ask(q, r, way) ==
  /\ up /\ req[q] = Free /\ asks < MaxAsks
  /\ RadioThere(r)
  /\ req' = [req EXCEPT ![q] = [radio |-> r, way |-> way, at |-> 1, list |-> {}, sound |-> TRUE]]
  /\ unfinished' = unfinished \cup {r}
  /\ asks' = asks + 1
  /\ UNCHANGED <<uci, netdev, daemon, hooks, role, faults, breaks>>

At(q, command) ==
  /\ req[q] # Free
  /\ Program(req[q].way)[req[q].at] = command

(* The request goes on to its next command. *)
Next1(q) == [req EXCEPT ![q].at = @ + 1]

Stage(q) ==
  /\ At(q, "stage")
  /\ work' = [work EXCEPT !.off = AfterList(@, req[q].radio, Listens(req[q].way))]
  /\ req' = Next1(q)
  /\ UNCHANGED <<conf, netdev, daemon, hooks, told, bounds>>

(* ensureServingChannel writes a channel that is missing; which channel is *)
(* abstracted, so that the step only can fail.                             *)
EnsureChannel(q) ==
  /\ At(q, "channel")
  /\ req' = Next1(q)
  /\ UNCHANGED <<uci, netdev, daemon, hooks, told, bounds>>

Commit(q) ==
  /\ \/ At(q, "commit") /\ conf' = WirelessOf(conf, work)
     \/ At(q, "commitBoa") /\ conf' = BoaOf(conf, work)
  /\ req' = Next1(q)
  /\ UNCHANGED <<work, netdev, daemon, hooks, told, bounds>>

Reload(q) ==
  /\ At(q, "reload")
  /\ ap' = Reloaded
  /\ req' = Next1(q)
  /\ UNCHANGED <<uci, present, listening, daemon, hooks, told, bounds>>

(* An interface that is there is kept; none can be made on a radio that is *)
(* away, which the way back does not mind.                                 *)
Listen(q) ==
  /\ At(q, "listen")
  /\ req[q].radio \in present \/ req[q].way = "back"
  /\ listening' = listening \cup ({req[q].radio} \cap present)
  /\ req' = Next1(q)
  /\ UNCHANGED <<uci, present, ap, daemon, hooks, told, bounds>>

retireScan(q) ==
  /\ At(q, "retire")
  /\ retired' = retired \cup {req[q].radio}
  /\ req' = Next1(q)
  /\ UNCHANGED <<uci, netdev, up, ports, rebuilding, restarting, hooks, told, bounds>>

(* The timer's `iw` follows its check within milliseconds: that a radio is *)
(* retired and its interface looked for between the two is left out.       *)
Unlisten(q) ==
  /\ At(q, "unlisten")
  /\ rebuilding # req[q].radio
  /\ listening' = listening \ {req[q].radio}
  /\ req' = Next1(q)
  /\ UNCHANGED <<uci, present, ap, daemon, hooks, told, bounds>>

(* setScanPort and setScanMAC read a list with one command and write it    *)
(* with another; the address of a radio that is away cannot be read, and   *)
(* its list is then left alone.                                            *)
ReadList(q) ==
  /\ \/ At(q, "readNames") /\ req' = [Next1(q) EXCEPT ![q].list = work.names]
     \/ At(q, "readMacs") /\ req' = [Next1(q) EXCEPT ![q].list = work.macs]
  /\ UNCHANGED <<uci, netdev, daemon, hooks, told, bounds>>

SetList(q) ==
  LET after == AfterList(req[q].list, req[q].radio, Listens(req[q].way)) IN
  /\ \/ At(q, "setNames") /\ work' = [work EXCEPT !.names = after]
     \/ /\ At(q, "setMacs")
        /\ work' = IF req[q].radio \in present THEN [work EXCEPT !.macs = after] ELSE work
  /\ req' = [Next1(q) EXCEPT ![q].list = {}]
  /\ UNCHANGED <<conf, netdev, daemon, hooks, told, bounds>>

(* apCameUpOn asks for ten seconds; an access point still surveying then   *)
(* counts as one that was refused.                                         *)
Await(q) ==
  /\ At(q, "await")
  /\ \/ /\ ap[req[q].radio] = "up"
        /\ req' = Next1(q)
     \/ /\ ap[req[q].radio] # "up"
        /\ req' = [req EXCEPT ![q].way = "back", ![q].at = 1]
  /\ UNCHANGED <<uci, netdev, daemon, hooks, told, bounds>>

(* The caller is answered.  A request something went wrong beneath -- a    *)
(* rollback command failed, the radio was pulled out under it -- counts as *)
(* unfinished whatever it answers.                                         *)
End(q, as, known) ==
  /\ req' = [req EXCEPT ![q] = Free]
  /\ role' = [role EXCEPT ![req[q].radio] = as]
  /\ unfinished' = IF req[q].sound /\ known THEN unfinished \ {req[q].radio} ELSE unfinished

Answer(q) ==
  /\ At(q, "answer")
  /\ End(q, req[q].way, TRUE)
  /\ restarting' = TRUE
  /\ UNCHANGED <<uci, netdev, up, ports, retired, rebuilding, hooks, bounds>>

(* "Left listening", and no restart follows: a radio the daemon was not    *)
(* listening with before stays unknown to it, and unfinished.              *)
Refuse(q) ==
  /\ At(q, "refuse")
  /\ End(q, "scanner", req[q].radio \in ports)
  /\ UNCHANGED <<uci, netdev, daemon, hooks, bounds>>

Fallible == {"stage", "channel", "commit", "reload", "listen", "unlisten", "setNames",
             "setMacs", "commitBoa"}

(* A command fails.  On the way there the request ends in an error and     *)
(* what it had done stays done; on the way back the error is dropped.      *)
Fail(q) ==
  /\ faults < MaxFaults
  /\ \E command \in Fallible : At(q, command)
  /\ req' = IF req[q].way = "back" THEN [Next1(q) EXCEPT ![q].sound = FALSE]
                                   ELSE [req EXCEPT ![q] = Free]
  /\ faults' = faults + 1
  /\ UNCHANGED <<uci, netdev, daemon, hooks, told, asks, breaks>>

(* `iw interface add` on a radio that is away. *)
ListenNowhere(q) ==
  /\ At(q, "listen")
  /\ req[q].radio \notin present /\ req[q].way # "back"
  /\ req' = [req EXCEPT ![q] = Free]
  /\ UNCHANGED <<uci, netdev, daemon, hooks, told, bounds>>

Step(q) ==
  \/ Stage(q) \/ EnsureChannel(q) \/ Commit(q) \/ Reload(q) \/ Listen(q)
  \/ retireScan(q) \/ Unlisten(q) \/ ReadList(q) \/ SetList(q) \/ Await(q)
  \/ Answer(q) \/ Refuse(q) \/ ListenNowhere(q)

(***************************************************************************)
(* The daemon's own life.                                                  *)
(***************************************************************************)

(* The process ends, and with it every request it was serving. *)
Stopped ==
  /\ up' = FALSE
  /\ ports' = {} /\ retired' = {} /\ rebuilding' = NoRadio
  /\ req' = [q \in Requests |-> Free]

(* `sleep 1; /etc/init.d/boa restart`, in a session of its own. *)
RestartFires ==
  /\ restarting
  /\ restarting' = FALSE
  /\ Stopped
  /\ UNCHANGED <<uci, netdev, hooks, told, bounds>>

(* boa_resolve_scan: the names are derived again from the addresses, unless*)
(* none is recorded or none of them is here.                               *)
Resolved(c) ==
  IF c.macs \cap present = {} THEN c.names ELSE c.macs \cap present

(* The list is written back when it changed or a radio was dropped. *)
ResolveEdits(c) ==
  /\ c.macs \cap present # {}
  /\ Resolved(c) # c.names \/ ~ (c.macs \subseteq present)

(* ensureScanIfaces makes what is listed and missing; then an interface    *)
(* nothing claims is removed, if it sits beside an access point.           *)
Ensured(names) == listening \cup (names \cap present)

LeftOver(r, names) == r \notin names /\ ap[r] # "off"

(* The init script and the daemon's Start. *)
Start ==
  LET names == Resolved(work) IN
  /\ ~ up
  /\ up' = TRUE
  /\ work' = [work EXCEPT !.names = names]
  /\ conf' = IF ResolveEdits(work) THEN BoaOf(conf, work') ELSE conf
  /\ ports' = names
  /\ listening' = {r \in Ensured(names) : ~ LeftOver(r, names)}
  /\ UNCHANGED <<present, ap, retired, rebuilding, restarting, hooks, req, told, bounds>>

MutantRebuildRetired(r) == r \in ports /\ r \in present /\ r \notin listening

Rebuildable(r) ==
  r \in ports /\ r \in present /\ r \notin listening /\ r \notin retired

RebuildCheck(r) ==
  /\ up /\ rebuilding = NoRadio
  /\ Rebuildable(r)
  /\ rebuilding' = r
  /\ UNCHANGED <<uci, netdev, up, ports, retired, restarting, hooks, req, told, bounds>>

RebuildAdd ==
  /\ rebuilding # NoRadio
  /\ listening' = listening \cup ({rebuilding} \cap present)
  /\ rebuilding' = NoRadio
  /\ UNCHANGED <<uci, present, ap, up, ports, retired, restarting, hooks, req, told, bounds>>

(* persistChannelUCI and persistTxPowerUCI commit `wireless`, and with it  *)
(* whatever a role request has staged or left there.                       *)
PersistUCI ==
  /\ up /\ conf # WirelessOf(conf, work)
  /\ conf' = WirelessOf(conf, work)
  /\ UNCHANGED <<work, netdev, daemon, hooks, req, told, bounds>>

(***************************************************************************)
(* The hotplug hook, once a radio has appeared: at boot or on a replug.    *)
(***************************************************************************)

(* boa_scanner_phy, over the radios that have come up so far. *)
Heuristic(seen) ==
  IF seen \subseteq Onboard THEN {} ELSE seen \cap Onboard

ScannerByHook(r, seen) ==
  IF work.macs # {} THEN r \in work.macs ELSE r \in Heuristic(seen)

(* Listening wins: the access point off, both lists, the daemon restarted. *)
HookListens(r) ==
  \E seen \in SUBSET present :
    /\ r \in hooks /\ r \in seen
    /\ ScannerByHook(r, seen)
    /\ work' = [off |-> work.off \cup {r}, names |-> work.names \cup {r},
                macs |-> work.macs \cup {r}]
    /\ conf' = work'
    /\ ap' = [ap EXCEPT ![r] = "off"]
    /\ hooks' = hooks \ {r}
    /\ Stopped
    /\ UNCHANGED <<present, listening, restarting, told, bounds>>

(* Otherwise it serves what another radio serves; with none to copy from,  *)
(* it is left to the wizard.                                               *)
HookServes(r) ==
  \E seen \in SUBSET present :
    /\ r \in hooks /\ r \in seen
    /\ ~ ScannerByHook(r, seen)
    /\ ~ (Radios \ {r} \subseteq work.off)
    /\ work' = [work EXCEPT !.off = @ \ {r}]
    /\ conf' = WirelessOf(conf, work')
    /\ ap' = [ap EXCEPT ![r] = "starting"]
    /\ hooks' = hooks \ {r}
    /\ Stopped
    /\ UNCHANGED <<present, listening, restarting, told, bounds>>

HookLeaves(r) ==
  \E seen \in SUBSET present :
    /\ r \in hooks /\ r \in seen
    /\ ~ ScannerByHook(r, seen)
    /\ Radios \ {r} \subseteq work.off
    /\ hooks' = hooks \ {r}
    /\ UNCHANGED <<uci, netdev, daemon, req, told, bounds>>

Hook(r) == HookListens(r) \/ HookServes(r) \/ HookLeaves(r)

(***************************************************************************)
(* Drivers, cables and power.                                              *)
(***************************************************************************)

(* hostapd beacons; a driver that refuses the channel never gets here. *)
Beacon(r) ==
  /\ ap[r] = "starting"
  /\ ap' = [ap EXCEPT ![r] = "up"]
  /\ UNCHANGED <<uci, present, listening, daemon, hooks, req, told, bounds>>

Unplug(r) ==
  /\ breaks < MaxBreaks
  /\ r \in present
  /\ present' = present \ {r}
  /\ ap' = [ap EXCEPT ![r] = "off"]
  /\ listening' = listening \ {r}
  /\ hooks' = hooks \ {r}
  /\ req' = [q \in Requests |-> IF req[q].radio = r THEN [req[q] EXCEPT !.sound = FALSE]
                                                    ELSE req[q]]
  /\ breaks' = breaks + 1
  /\ UNCHANGED <<uci, daemon, told, asks, faults>>

Replug(r) ==
  /\ r \notin present
  /\ present' = present \cup {r}
  /\ hooks' = hooks \cup {r}
  /\ UNCHANGED <<uci, ap, listening, daemon, req, told, bounds>>

(* The daemon dies and procd starts it again. *)
Crash ==
  /\ up /\ breaks < MaxBreaks
  /\ Stopped
  /\ breaks' = breaks + 1
  /\ UNCHANGED <<uci, netdev, restarting, hooks, told, asks, faults>>

(* What was staged is gone, and so is every interface. *)
Reboot ==
  /\ breaks < MaxBreaks
  /\ work' = conf
  /\ listening' = {}
  /\ ap' = [r \in Radios |-> IF r \in present \ conf.off THEN "starting" ELSE "off"]
  /\ hooks' = present
  /\ restarting' = FALSE
  /\ Stopped
  /\ breaks' = breaks + 1
  /\ UNCHANGED <<conf, present, told, asks, faults>>

Next ==
  \/ \E q \in Requests, r \in Radios, way \in {"scanner", "serve"} : Ask(q, r, way)
  \/ \E q \in Requests : Step(q) \/ Fail(q)
  \/ RestartFires \/ Start \/ RebuildAdd \/ PersistUCI \/ Crash \/ Reboot
  \/ \E r \in Radios :
       RebuildCheck(r) \/ Hook(r) \/ Beacon(r) \/ Unplug(r) \/ Replug(r)

Spec == Init /\ [][Next]_vars

(* Handlers run on, init scripts and hooks end, the timer comes round.     *)
(* Nothing is promised of a driver, a cable or a caller.                   *)
FairSpec ==
  /\ Spec
  /\ WF_vars(\E q \in Requests : Step(q))
  /\ WF_vars(RestartFires) /\ WF_vars(Start) /\ WF_vars(RebuildAdd)
  /\ \A r \in Radios : WF_vars(RebuildCheck(r)) /\ WF_vars(Hook(r))

(***************************************************************************)
(* What the roles promise.                                                 *)
(***************************************************************************)

(* No radio whose role is settled has an access point and a listen-only    *)
(* interface side by side: the rebuild timer, which knows the old list     *)
(* until the restart, does not bring back what a promotion took away.      *)
NotBoth ==
  \A r \in Radios \ unfinished : ~ (r \in listening /\ ap[r] # "off")

(* OpenWrt's configuration and boa's agree about every radio whose role is *)
(* settled, and with what the caller was told -- whatever was committed    *)
(* halfway for another radio, refused by the driver, or rebooted into.     *)
ConfigsAgree ==
  \A r \in Radios \ unfinished :
    /\ r \in conf.off <=> role[r] = "scanner"
    /\ r \in conf.macs <=> role[r] = "scanner"

(* A radio that is in the role it was given: the daemon's ports, the names,*)
(* the interface and, for a scanner, the access point gone.                *)
InRole(r) ==
  IF role[r] = "scanner"
  THEN r \in conf.names /\ r \in ports /\ r \in listening /\ ap[r] = "off"
  ELSE r \notin conf.names /\ r \notin ports /\ r \notin listening

(* Once the commands stop failing and the cables and the power stay, every *)
(* settled radio that is plugged in ends up in its role, for good.         *)
SettlesInRole == <>[](\A r \in present \ unfinished : InRole(r))

(* "fall back to the heuristic only when nothing has been recorded, which  *)
(* is a box that has not been set up yet": a radio the API gave back to    *)
(* serving is not made a scanner again behind the operator's back.         *)
GivenBackStays ==
  \A r \in Radios \ unfinished : role[r] = "serve" => r \notin conf.macs

(* "the worst case is a config that is merely WRONG, not one that disagrees*)
(* with itself": with no request at work, the two packages agree.          *)
NeverDisagrees ==
  (\A q \in Requests : req[q] = Free) => conf.off = conf.macs

(* A radio neither configuration gives a job serves nobody and listens to  *)
(* nobody.                                                                 *)
NoneIdle == <>[](\A r \in present : r \notin conf.off \/ r \in listening)
=============================================================================
