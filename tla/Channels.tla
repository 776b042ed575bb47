------------------------------ MODULE Channels ------------------------------
(***************************************************************************)
(* The channel of one radio, and who puts it there (MoveChannel and        *)
(* scanBand in radiopower.go, csa.go, channelstore.go, channelrestore.go,  *)
(* airpoll.go).                                                            *)
(*                                                                         *)
(* A move lives only in the running hostapd, so the daemon remembers it    *)
(* and the tick puts a radio that has drifted back.  Three movers          *)
(* reconfigure hostapd one command at a time: the operator's move and the  *)
(* restore, which hold the radio's lock, and a scan that applies what it   *)
(* found, which does not.  A poll scans unattended, where the last scan's  *)
(* outcome says that this costs nothing.                                   *)
(*                                                                         *)
(* served, futile and dropped record what happened, for the properties     *)
(* only.                                                                   *)
(***************************************************************************)
EXTENDS Survey

CONSTANTS
  Asks,          \* the <<channel, width>> pairs moves ask for
  Airs,          \* what a sweep may hear
  Sweeps,        \* what a sweep of a serving radio may come to
  ConfigChannel, ConfigWidth,   \* what hostapd's configuration file names
  Refusable,     \* the parameters hostapd may come to refuse
  Csa,           \* what the driver may make of an announced switch
  Overlap,       \* whether a scan may meet the other movers at work
  Kinds,         \* what disturbs the radio in this instance
  Budget,        \* how many disturbances a behaviour may hold
  RestoreBudget, \* restoreBudget
  None

AllKinds == {"move", "scan", "restart", "meddle", "refuse", "disable", "status",
             "confirm", "readback", "save", "crash", "narrow", "poll"}

ASSUME KindsAssumption  == Kinds \subseteq AllKinds
ASSUME BudgetAssumption == Budget \in Nat /\ RestoreBudget \in Nat \ {0}
ASSUME OverlapAssumption == Overlap \in BOOLEAN
ASSUME RefusableAssumption == Refusable \subseteq Params
\* What scanCmd answers.  A refusal that passes is waited out, four times; one
\* that lasts, "busy", and a driver that hangs count as a refusal like any other.
\* "knocks" is a success that has taken the access point off the air.
SweepOutcomes == {"free", "knocks", "unsupported", "busy", "hung", "invalid"}
Refused(outcome) == outcome \in {"unsupported", "busy", "hung"}

ASSUME SweepsAssumption == Sweeps \subseteq SweepOutcomes
ASSUME CsaAssumption    == Csa \subseteq {"follows", "stays", "refuses"}
\* apChannels is all there is to ask for; the figures of a sweep are numbers.
ASSUME AsksAssumption   == Asks \subseteq Offered \X Nat
ASSUME AirsAssumption   == \A heard \in Airs : \A c \in Offered : Score(heard, c) \in Int
ASSUME ConfigAssumption ==
  ConfigChannel \in Offered /\ ConfigWidth \in Nat /\ ConfigWidth <= MaxWidth(ConfigChannel)

VARIABLES
  par,        \* hostapd's parameters; STATUS answers from them
  air,        \* the parameters the access point serves with, or None
  csa,        \* what this driver does with CHAN_SWITCH
  refusing,   \* the parameter hostapd refuses to SET, or None
  pref, disk, \* the remembered channel: in memory, in the file
  lock,       \* who holds lockRadio, or None
  job,        \* what each mover is doing
  tries, gaveUp, inFlight,   \* restoreState
  condemned,  \* csaRefused has this driver
  cost,       \* scanFree: what scanning this radio has been seen to cost
  seen,       \* the radio as radioOnFor last read it, or None
  look,       \* the preference the tick holds while it decides, or None
  left,       \* disturbances still to come
  served,     \* the channels served since the radio came up
  futile,     \* restores that set out since the radio was last where it belongs
  dropped     \* outages by unattended scans since the cost was last learned

hostapd == <<par, air, csa, refusing>>
store   == <<pref, disk>>
restore == <<tries, gaveUp, inFlight>>
cache   == <<seen, look>>
poll    == <<cost, dropped>>
vars == <<hostapd, store, lock, job, restore, condemned, cache, left, served, futile, poll>>

Movers == {"move", "restore", "scan"}
Stages == {"idle", "wait", "begin", "status", "announce", "count", "counted",
           "down", "set", "enable", "verdict", "sweep", "pick"}
Whys   == {"none", "malformed", "refused", "unasked", "stayed"}

\* What ChannelStore keeps: the channel and width asked for, and the channel the
\* move was seen to end on, or 0.
Prefs == [ch : Offered, w : Nat, settled : {0} \cup Offered]

ASSUME NoneAssumption == None \notin Movers \cup Params /\ None \notin Prefs

\* A mover at rest.  ch, w, mode: what it was asked for; was, from: what the
\* first STATUS said; k: the next SET; why: how the announcement failed.  Of a
\* scan, hurt: it took the access point down; heard: what it recommended by.
Idle == [at |-> "idle", ch |-> 0, w |-> 0, mode |-> "announce", was |-> FALSE,
         from |-> 0, k |-> 1, why |-> "none", refused |-> FALSE,
         hurt |-> FALSE, heard |-> <<>>]

Home == Configured(ConfigChannel, ConfigWidth)
Spend(kind) == kind \in Kinds /\ left > 0 /\ left' = left - 1
Keep == left' = left

\* What STATUS tells radioOnFor: channel, width, and whether the BSS is up.
Reading == [channel |-> par.channel, width |-> WidthOf(par), serving |-> air # None]

SatisfiedBy(p, c, w) ==
  /\ p.w = 0 \/ w = p.w
  /\ c = p.ch \/ (p.settled # 0 /\ c = p.settled)
Settled == pref # None /\ air # None /\ SatisfiedBy(pref, par.channel, WidthOf(par))

Init ==
  /\ par = Home /\ air = Home /\ csa \in Csa /\ refusing = None
  /\ pref = None /\ disk = None /\ lock = None
  /\ job = [m \in Movers |-> Idle]
  /\ tries = 0 /\ gaveUp = FALSE /\ inFlight = FALSE
  /\ condemned = FALSE /\ seen = None /\ look = None /\ left = Budget
  /\ served = {ConfigChannel} /\ futile = 0 /\ cost = "unknown" /\ dropped = 0

----------------------------------------------------------------------------
(* The end of a mover: the lock and the restore's mark are given back.     *)

Go(m, stage) == job' = [job EXCEPT ![m].at = stage]

\* A restore's mark is never taken back.
MutantInFlightForever(m) ==
  /\ job' = [job EXCEPT ![m] = Idle]
  /\ lock' = IF lock = m THEN None ELSE lock
  /\ inFlight' = inFlight

Done(m) ==
  /\ job' = [job EXCEPT ![m] = Idle]
  /\ lock' = IF lock = m THEN None ELSE lock
  /\ inFlight' = (inFlight /\ m # "restore")

Forgive == tries' = 0 /\ gaveUp' = FALSE

\* Remembered whether or not the access point is up.
MutantRememberAnyway(c, w, now) ==
  /\ pref' = [ch |-> c, w |-> w, settled |-> now]
  /\ disk' = pref' \/ ("save" \in Kinds /\ UNCHANGED disk)
  /\ Forgive

\* rememberChannel, gated on the access point being up.  A save that fails
\* leaves the choice in memory alone.
Remember(c, w, now) ==
  IF air = None THEN UNCHANGED <<store, tries, gaveUp>>
  ELSE /\ pref' = [ch |-> c, w |-> w, settled |-> now]
       /\ disk' = pref' \/ ("save" \in Kinds /\ UNCHANGED disk)
       /\ Forgive

----------------------------------------------------------------------------
(* MoveChannel and restoreOne up to moveChannelLocked.                     *)

Ask ==
  /\ job["move"].at = "idle"
  /\ \E a \in Asks, mode \in {"announce", "restart"} :
       /\ a[2] <= MaxWidth(a[1])
       /\ job' = [job EXCEPT !["move"] = [Idle EXCEPT !.at = "wait", !.ch = a[1],
                                                      !.w = a[2], !.mode = mode]]
  /\ Spend("move")
  /\ UNCHANGED <<hostapd, store, lock, restore, condemned, cache>>

TakeLock(m) ==
  /\ job[m].at = "wait" /\ lock = None
  /\ Overlap \/ job["scan"].at = "idle"
  /\ lock' = m
  /\ Go(m, IF m = "restore" THEN "begin" ELSE "status")
  /\ Keep /\ UNCHANGED <<hostapd, store, restore, condemned, cache>>

\* The restore acts on what the tick saw, without looking again.
MutantNoRecheck ==
  /\ job["restore"].at = "begin"
  /\ seen' = Reading
  /\ IF pref # None /\ air # None
     THEN /\ job' = [job EXCEPT !["restore"] = [@ EXCEPT !.at = "status", !.ch = pref.ch,
                                                         !.w = pref.w]]
          /\ UNCHANGED <<lock, restore>>
     ELSE Done("restore") /\ UNCHANGED <<tries, gaveUp>>
  /\ Keep /\ UNCHANGED <<hostapd, store, condemned, look>>

\* restoreOne reads the preference and the radio again under the lock.
Recheck ==
  /\ job["restore"].at = "begin"
  /\ seen' = Reading
  /\ IF pref # None /\ air # None /\ ~Settled
     THEN /\ job' = [job EXCEPT !["restore"] = [@ EXCEPT !.at = "status", !.ch = pref.ch,
                                                         !.w = pref.w]]
          /\ UNCHANGED <<lock, restore>>
     ELSE /\ Done("restore")
          /\ IF Settled THEN Forgive ELSE UNCHANGED <<tries, gaveUp>>
  /\ Keep /\ UNCHANGED <<hostapd, store, condemned, look>>

----------------------------------------------------------------------------
(* moveChannelLocked.                                                      *)

\* The first STATUS; one that is not answered reads as an access point that
\* is down.
ReadStatus(m) ==
  /\ job[m].at = "status"
  /\ \E answered \in BOOLEAN :
       LET was == answered /\ air # None
           announce == job[m].mode # "restart" /\ was /\ ~condemned
       IN  /\ IF answered THEN Keep ELSE Spend("status")
           /\ job' = [job EXCEPT ![m] =
                        [@ EXCEPT !.was = was, !.from = IF answered THEN par.channel ELSE 0,
                                  !.at = IF announce THEN "announce" ELSE "down"]]
  /\ UNCHANGED <<hostapd, store, lock, restore, condemned, cache>>

\* announceChannel up to hostapd's reply.
Announce(m) ==
  /\ job[m].at = "announce"
  /\ LET why == IF ~Announceable(job[m].ch, job[m].w) THEN "malformed"
                ELSE IF csa = "refuses" THEN "refused" ELSE "none"
     IN  job' = [job EXCEPT ![m] = [@ EXCEPT !.why = why,
                                             !.at = IF why = "none" THEN "count" ELSE "down"]]
  /\ Keep /\ UNCHANGED <<hostapd, store, lock, restore, condemned, cache>>

\* The countdown ends and the radio switches.
Switch(m) ==
  /\ job[m].at = "count" /\ csa = "follows" /\ air # None
  /\ par' = Configured(job[m].ch, job[m].w) /\ air' = par'
  /\ Go(m, "counted")
  /\ Keep /\ UNCHANGED <<csa, refusing, store, lock, restore, condemned, cache>>

\* csaSettle is over and the channel is read back.
Confirm(m) ==
  /\ \/ job[m].at = "counted"
     \/ job[m].at = "count" /\ ~(csa = "follows" /\ air # None)
  /\ \/ /\ par.channel = job[m].ch
        /\ seen' = None
        /\ Remember(job[m].ch, job[m].w, job[m].ch)
        /\ Done(m) /\ Keep
     \/ /\ par.channel # job[m].ch
        /\ job' = [job EXCEPT ![m] = [@ EXCEPT !.at = "down", !.why = "stayed"]]
        /\ Keep /\ UNCHANGED <<store, lock, restore, seen>>
     \/ /\ Spend("confirm")
        /\ job' = [job EXCEPT ![m] = [@ EXCEPT !.at = "down", !.why = "unasked"]]
        /\ UNCHANGED <<store, lock, restore, seen>>
  /\ UNCHANGED <<hostapd, condemned, look>>

\* DISABLE, where there is an access point to take down.  A DISABLE that is
\* not answered ends the move.
Down(m) ==
  /\ job[m].at = "down"
  /\ \/ /\ Go(m, "set") /\ Keep
        /\ air' = IF job[m].was THEN None ELSE air
        /\ UNCHANGED <<lock, inFlight>>
     \/ /\ job[m].was /\ Spend("disable") /\ Done(m) /\ UNCHANGED air
  /\ UNCHANGED <<par, csa, refusing, store, tries, gaveUp, condemned, cache>>

\* The SETs in turn, until one is refused.
Set(m) ==
  /\ job[m].at = "set"
  /\ LET cmds == SetCommands(job[m].ch, job[m].w)
         cmd  == cmds[job[m].k]
         last == job[m].k = Len(cmds)
     IN  IF cmd[1] = refusing
         THEN /\ job' = [job EXCEPT ![m] = [@ EXCEPT !.at = "enable", !.refused = TRUE]]
              /\ UNCHANGED par
         ELSE /\ par' = [par EXCEPT ![cmd[1]] = cmd[2]]
              /\ job' = [job EXCEPT ![m] = [@ EXCEPT !.at = IF last THEN "enable" ELSE "set",
                                                     !.k = IF last THEN 1 ELSE job[m].k + 1]]
  /\ Keep /\ UNCHANGED <<air, csa, refusing, store, lock, restore, condemned, cache>>

\* Where an access point may come up that is enabled with these parameters.
Landings(p) ==
  {p} \cup (IF p.side # 0 THEN {Swapped(p)} ELSE {})
      \cup (IF p.side # 0 /\ "narrow" \in Kinds THEN {Narrowed(p)} ELSE {})

\* ENABLE: nothing to a BSS that is up, and refused over a contradiction.
ComeUp ==
  IF air = None /\ Coherent(par)
  THEN \E p \in Landings(par) : par' = p /\ air' = p
  ELSE UNCHANGED <<par, air>>

Enable(m) ==
  /\ job[m].at = "enable"
  /\ IF job[m].was THEN ComeUp ELSE UNCHANGED <<par, air>>
  /\ seen' = None
  /\ Go(m, "verdict")
  /\ Keep /\ UNCHANGED <<csa, refusing, store, lock, restore, condemned, look>>

\* learnCSARefusal: an ordinary move within a band, announced in vain and
\* then made by restart, condemns the driver.
Learn(m) ==
  condemned' = (condemned \/ (/\ job[m].why # "none" /\ job[m].from \in Offered
                              /\ Is24(job[m].from) = Is24(job[m].ch)))

\* A move that was refused along the way remembers where it came back.
MutantRefusalForgotten(m) ==
  /\ m # "scan" /\ job[m].at = "verdict"
  /\ Done(m) /\ Keep
  /\ IF job[m].was /\ air = None
     THEN UNCHANGED <<store, tries, gaveUp, condemned>>
     ELSE /\ Remember(job[m].ch, job[m].w, par.channel)
          /\ IF par.channel = job[m].ch THEN Learn(m) ELSE UNCHANGED condemned
  /\ UNCHANGED <<hostapd, cache>>

\* restartVerdict and the channel read back.
Conclude(m) ==
  /\ m # "scan" /\ job[m].at = "verdict"
  /\ Done(m)
  /\ \E answered \in BOOLEAN :
       LET now == IF answered THEN par.channel ELSE 0
       IN  /\ IF answered THEN Keep ELSE Spend("readback")
           /\ IF (job[m].was /\ air = None) \/ (now # job[m].ch /\ job[m].refused)
              THEN UNCHANGED <<store, tries, gaveUp, condemned>>
              ELSE /\ Remember(job[m].ch, job[m].w, now)
                   /\ IF now = job[m].ch THEN Learn(m) ELSE UNCHANGED condemned
  /\ UNCHANGED <<hostapd, cache>>

----------------------------------------------------------------------------
(* scanBand.  It takes no lock.                                            *)

\* A plausible error: what iw's exit status says, whatever became of the
\* access point.
MutantCostByExit(hurt) == cost' = "free"

\* rememberScanCost, by the outcome.
RememberCost(hurt) == cost' = IF hurt THEN "costly" ELSE "free"

Sweeping(outcome, mode, then) ==
  job' = [job EXCEPT !["scan"] =
            [Idle EXCEPT !.at = then, !.was = TRUE, !.mode = mode, !.from = par.channel,
                         !.w = WidthOf(par), !.hurt = outcome # "free"]]

\* ScanBand, which may take the access point down where the driver will not scan
\* while it serves.  An invalid request is nobody's refusal, and ends it (#442).
Scan ==
  /\ job["scan"].at = "idle" /\ air # None /\ Spend("scan")
  /\ Overlap \/ lock = None
  /\ \E outcome \in Sweeps \ {"invalid"} :
       /\ Sweeping(outcome, "apply", IF outcome = "free" THEN "pick" ELSE "sweep")
       /\ air' = IF outcome = "free" THEN air ELSE None
  /\ UNCHANGED <<par, csa, refusing, store, lock, restore, condemned, cache, poll>>

\* freeScanner, or a radio that was never scanned, which must have no station on it.
MayPoll == cost = "free" \/ cost = "unknown"

\* airScanOnce and scanBandFree.  The poll takes no access point down, but the sweep
\* may; a refusal is remembered as this radio's cost.
Poll ==
  /\ job["scan"].at = "idle" /\ air # None /\ MayPoll /\ Spend("poll")
  /\ Overlap \/ lock = None
  /\ \E outcome \in Sweeps \ {"invalid"} :
       IF outcome = "knocks"
       THEN /\ air' = None /\ dropped' = dropped + 1
            /\ Sweeping(outcome, "poll", "sweep") /\ UNCHANGED cost
       ELSE RememberCost(Refused(outcome)) /\ UNCHANGED <<air, job, dropped>>
  /\ UNCHANGED <<par, csa, refusing, store, lock, restore, condemned, cache>>

\* The access point is brought back.  A sweep that fails even with it stopped
\* ends there, and its cost is not remembered.
SweepEnds ==
  /\ job["scan"].at = "sweep"
  /\ ComeUp
  /\ \/ Go("scan", "pick") /\ UNCHANGED <<lock, inFlight>>
     \/ job["scan"].mode = "apply" /\ Done("scan")
  /\ Keep /\ UNCHANGED <<csa, refusing, store, tries, gaveUp, condemned, cache, poll>>

\* A manual scan starts the account of the unattended ones afresh.
Learned(hurt) ==
  RememberCost(hurt) /\ dropped' = IF job["scan"].mode = "poll" THEN dropped ELSE 0

Recommended == [heard \in Airs |-> [band24 \in BOOLEAN |-> PickBestChannel(heard, band24)]]

\* The quietest channel of the radio's band, no wider than it may be.  A poll
\* moves nothing, nor does a scan that was not asked to, or has no better place.
Pick ==
  /\ job["scan"].at = "pick"
  /\ \/ Done("scan") /\ Learned(job["scan"].hurt)
     \/ \E heard \in Airs :
          LET c == Recommended[heard][Is24(job["scan"].from)]
              w == IF job["scan"].w > MaxWidth(c) THEN MaxWidth(c) ELSE job["scan"].w
          IN  /\ job["scan"].mode = "apply" /\ c # job["scan"].from
              /\ job' = [job EXCEPT !["scan"] = [@ EXCEPT !.at = "down", !.ch = c, !.w = w,
                                                         !.heard = heard]]
              /\ UNCHANGED <<lock, inFlight, poll>>
  /\ Keep /\ UNCHANGED <<hostapd, store, tries, gaveUp, condemned, cache>>

\* Applied only where it landed exactly.  The restart it took is an outage of
\* the scan, and remembered as its cost.
ScanConclude ==
  /\ job["scan"].at = "verdict"
  /\ Done("scan") /\ seen' = None
  /\ IF par.channel = job["scan"].ch /\ par.channel # job["scan"].from
     THEN Remember(job["scan"].ch, job["scan"].w, par.channel)
     ELSE UNCHANGED <<store, tries, gaveUp>>
  /\ Learned(TRUE)
  /\ Keep
  /\ UNCHANGED <<hostapd, condemned, look>>

----------------------------------------------------------------------------
(* The tick (restoreChannels).                                             *)

RadioBusy == lock # None

\* The preference, and no move under way.
Look ==
  /\ look = None /\ pref # None /\ ~RadioBusy
  /\ look' = pref
  /\ Keep /\ UNCHANGED <<hostapd, store, lock, job, restore, condemned, seen>>

Exhausted == tries >= RestoreBudget

\* The radio as it was last read, and restoreState.begin.
Decide ==
  /\ look # None /\ look' = None
  /\ LET r     == IF seen = None THEN Reading ELSE seen
         off   == r.serving /\ ~SatisfiedBy(look, r.channel, r.width)
         begin == off /\ ~inFlight /\ ~gaveUp
     IN  /\ seen' = r
         /\ IF r.serving /\ ~off
            THEN Forgive
            ELSE /\ gaveUp' = (gaveUp \/ (begin /\ Exhausted))
                 /\ tries' = IF begin /\ ~Exhausted THEN tries + 1 ELSE tries
         /\ IF begin /\ ~Exhausted
            THEN inFlight' = TRUE /\ Go("restore", "wait")
            ELSE UNCHANGED <<inFlight, job>>
  /\ Keep /\ UNCHANGED <<hostapd, store, lock, condemned>>

\* What radioOnFor read is 15 seconds old.
Expire ==
  /\ seen # None /\ seen' = None
  /\ Keep /\ UNCHANGED <<hostapd, store, lock, job, restore, condemned, look>>

----------------------------------------------------------------------------
(* What happens to the radio and the daemon.                               *)

Moving == \E m \in Movers : job[m].at \notin {"idle", "wait", "begin", "pick"}
MidConfig == \E m \in Movers : job[m].at \in {"down", "set", "enable", "sweep"}

\* hostapd starts again from its configuration: between moves ("restart"), or
\* while one of them waits for the radio ("meddle").
Restart ==
  /\ IF Moving THEN ~MidConfig /\ Spend("meddle") ELSE Spend("restart")
  /\ \E p \in Landings(Home) : par' = p /\ air' = p
  /\ UNCHANGED <<csa, refusing, store, lock, job, restore, condemned, cache>>

\* hostapd begins, or ceases, to refuse a parameter.
Refuse ==
  /\ Spend("refuse")
  /\ \/ refusing = None /\ refusing' \in Refusable
     \/ refusing # None /\ refusing' = None
  /\ UNCHANGED <<par, air, csa, store, lock, job, restore, condemned, cache>>

\* The daemon stops, and starts with what its file holds.
Crash ==
  /\ Spend("crash")
  /\ pref' = disk /\ lock' = None
  /\ job' = [m \in Movers |-> Idle]
  /\ Forgive /\ inFlight' = FALSE /\ condemned' = FALSE
  /\ cost' = "unknown" /\ dropped' = 0
  /\ seen' = None /\ look' = None
  /\ UNCHANGED <<hostapd, disk>>

----------------------------------------------------------------------------
MoverStep(m) ==
  \/ TakeLock(m) \/ ReadStatus(m) \/ Announce(m) \/ Switch(m) \/ Confirm(m)
  \/ Down(m) \/ Set(m) \/ Enable(m) \/ Conclude(m)

\* The restore sets out to move the radio.
SetsOut == job["restore"].at = "begin" /\ job'["restore"].at = "status"

\* A daemon that starts again starts the account of its restores afresh.
Serves == served' = IF air' = None THEN served ELSE served \cup {air'.channel}
History ==
  /\ Serves
  /\ futile' = IF Settled' \/ (job["move"].at # "idle" /\ job'["move"].at = "idle") THEN 0
               ELSE IF SetsOut THEN futile + 1 ELSE futile

NotPoll == History /\ UNCHANGED poll

Next ==
  \/ \E m \in Movers : MoverStep(m) /\ NotPoll
  \/ (Ask \/ Recheck \/ Look \/ Decide \/ Expire \/ Restart \/ Refuse) /\ NotPoll
  \/ (Scan \/ Poll \/ SweepEnds \/ Pick \/ ScanConclude) /\ History
  \/ Crash /\ Serves /\ futile' = 0

Spec == Init /\ [][Next]_vars
FairSpec ==
  /\ Spec
  /\ \A m \in Movers : WF_vars(MoverStep(m) /\ NotPoll)
  /\ WF_vars(Recheck /\ NotPoll)
  /\ WF_vars((SweepEnds \/ Pick \/ ScanConclude) /\ History)
  /\ WF_vars(Look /\ NotPoll) /\ WF_vars(Decide /\ NotPoll) /\ WF_vars(Expire /\ NotPoll)

----------------------------------------------------------------------------
(* What must hold.                                                         *)

TypeOK ==
  /\ DOMAIN par = Params /\ air # None => DOMAIN air = Params
  /\ csa \in Csa /\ refusing \in {None} \cup Params
  /\ pref \in Prefs \cup {None} /\ disk \in Prefs \cup {None}
  /\ lock \in {None} \cup Movers
  /\ \A m \in Movers : job[m].at \in Stages /\ job[m].why \in Whys
  /\ cost \in {"unknown", "free", "costly"} /\ dropped \in Nat
  /\ tries \in 0..RestoreBudget /\ gaveUp \in BOOLEAN /\ inFlight \in BOOLEAN
  /\ condemned \in BOOLEAN /\ left \in 0..Budget /\ futile \in Nat

\* Whatever an earlier move left behind, a mover whose SETs were all accepted
\* enables exactly the channel and width it was asked for, in parameters that
\* hostapd takes (setChannelCommands, under the lock of one move at a time).
EnablesWhatItSet ==
  \A m \in Movers :
    (job[m].at = "enable" /\ ~job[m].refused)
       => Coherent(par) /\ par = Configured(job[m].ch, job[m].w)

\* A restore moves a radio only off a place nobody chose: when it sets out, the
\* preference is the latest one and the radio is not there (#441).
RestoresOnlyDrift ==
  job["restore"].at \in {"status", "announce"} =>
    pref # None /\ ~Settled /\ job["restore"].ch = pref.ch /\ job["restore"].w = pref.w

\* A restore that never sticks ends: in one life of the daemon, at most
\* restoreBudget of them set out, and one that had begun before the account was
\* cleared.  Only a radio that came to be where it belongs, or a deliberate move,
\* clears it (restoreState).
RestoresAreBounded == futile <= RestoreBudget + 1

\* A preference is a place the radio has served (ChannelStore.Put): where it
\* settled, it did serve.
RememberedWasServed == pref # None => pref.settled \in served

\* Left alone, a radio that serves ends where it was put, or the daemon has
\* given up on it.
EndsSettled == <>[](pref = None \/ air = None \/ Settled \/ gaveUp)

QuietIn == [heard \in Airs |-> [band24 \in BOOLEAN |->
              {c \in Offered : RecommendsQuiet(heard, band24, c)}]]

\* An applied scan goes where the air it heard is quiet, in the band the radio is
\* in (pickBestChannel, summariseScan, coveredChannels).
AppliesTheQuiet ==
  job["scan"].at \in {"down", "set", "enable", "verdict"} =>
    job["scan"].ch \in QuietIn[job["scan"].heard][Is24(job["scan"].from)]

\* Nobody's access point goes down again and again for the poll: one that a poll
\* knocked off the air is not polled again until a scan that somebody asked for
\* has found it free, or the daemon has forgotten (airScanOnce).
PollDropsOnce == dropped <= 1

\* The daemon takes a driver for one that refuses announcements only where the
\* driver is the explanation (learnCSARefusal).
CondemnsOnlyRefusers == condemned => csa # "follows"
=============================================================================
