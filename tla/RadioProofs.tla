---------------------------- MODULE RadioProofs ----------------------------
(***************************************************************************)
(* Theorems about Radio, for every set of outages and cuts, every kind of  *)
(* disturbance and any number of them.  The four invariants are proved one *)
(* after the other, each by showing that no disjunct of Next breaks it.    *)
(***************************************************************************)
EXTENDS Radio, TLAPS

\* The actions, and what they are made of.
USE DEF HostapdServes, PowerPress, PowerSwitch, APPress, APCommand, OutageBegins, Outage,
  OutageMarked, OutageEnds, OutageRestores, CutBegins, Cut, CutDisables, CutEnds, CutEnables,
  StartRecovery, Waited, SendEnable, Rebuild, Revive, Recover, CheckSettled, Crash, Start,
  HotplugReads, HotplugUnblocks, HotplugRestarts
USE DEF kernel, markers, timers, ghosts, NotRecovery

----------------------------------------------------------------------------
(* Types, a few variables at a time.                                       *)

Switches == power \in BOOLEAN /\ admin \in BOOLEAN
Air      == stuck \in BOOLEAN /\ up \in BOOLEAN
Flags    == alive \in BOOLEAN /\ lost \in BOOLEAN
Words    == /\ radioMark \in Marks /\ apMark \in Marks
            /\ press \in Presses /\ apPress \in Presses
            /\ wish \in Wishes /\ apWish \in Wishes
            /\ hotplug \in {"idle", "unblock", "restart"}
Counts   == spawned \in Nat /\ left \in Nat
Places   == /\ outage \in [Outages -> TimerPC] /\ cut \in [Cuts -> TimerPC]
            /\ rec \in [Recoverers -> RecPC]
Typed    == Switches /\ Air /\ Flags /\ Words /\ Counts /\ Places

LEMMA TypedIsTypeOK == Typed <=> TypeOK
BY Zenon DEF Typed, Switches, Air, Flags, Words, Counts, Places, TypeOK

LEMMA InitTyped == Init => Typed
<1>. SUFFICES ASSUME Init PROVE Typed
  OBVIOUS
<1>1. Switches /\ Air /\ Flags
  BY DEF Init, Switches, Air, Flags
<1>2. Words
  BY DEF Init, Words, Marks, Presses, Wishes
<1>3. Counts
  BY BudgetAssumption DEF Init, Counts
<1>4. Places
  BY DEF Init, Places, TimerPC, RecPC
<1>. QED
  BY <1>1, <1>2, <1>3, <1>4 DEF Typed

LEMMA NextTyped == Typed /\ [Next]_vars => Typed'
<1>. SUFFICES ASSUME Typed, [Next]_vars PROVE Typed'
  OBVIOUS
<1>1. CASE UNCHANGED vars
  BY <1>1 DEF vars, Typed, Switches, Air, Flags, Words, Counts, Places
<1>2. CASE Next
  <2>. USE <1>2 DEF Typed, Next
  <2>1. Switches'
    BY DEF Switches, PowerOn, Unblock, Block, Enable, Disable, RestartHostapd
  <2>2. Air'
    BY DEF Air, PowerOn, Unblock, Block, Enable, Disable, RestartHostapd
  <2>3. Flags'
    BY DEF Flags
  <2>4. Words'
    BY DEF Words, Marks, Presses, Wishes, MarkFor, Asked, Dispute, PowerOn
  <2>5. Counts'
    BY DEF Counts, Disturb, PowerOn
  <2>6. Places'
    BY DEF Places, TimerPC, RecPC, Recoverers, Goes
  <2>. QED
    BY <2>1, <2>2, <2>3, <2>4, <2>5, <2>6
<1>. QED
  BY <1>1, <1>2

LEMMA AlwaysTyped == Spec => []Typed
BY InitTyped, NextTyped, PTL DEF Spec

HIDE DEF HostapdServes, PowerPress, PowerSwitch, APPress, APCommand, OutageBegins, Outage,
  OutageMarked, OutageEnds, OutageRestores, CutBegins, Cut, CutDisables, CutEnds, CutEnables,
  StartRecovery, Waited, SendEnable, Rebuild, Revive, Recover, CheckSettled, Crash, Start,
  HotplugReads, HotplugUnblocks, HotplugRestarts

\* Every variable of Radio keeps its type.
THEOREM TypeCorrect == Spec => []TypeOK
BY AlwaysTyped, TypedIsTypeOK, PTL

----------------------------------------------------------------------------
(* DarkIsAskedFor: the marker "operator", and a press that is under way,   *)
(* are never found without the operator's word.                            *)

DarkInv ==
  /\ radioMark = "operator" \/ press = "off" => wish # "on"
  /\ DarkIsAskedFor

LEMMA InitDark == Init => DarkInv
BY DEF Init, DarkInv, DarkIsAskedFor

LEMMA NextDark == Typed /\ DarkInv /\ [Next]_vars => DarkInv'
<1>. SUFFICES ASSUME Typed, DarkInv, [Next]_vars PROVE DarkInv'
  OBVIOUS
<1>. DEFINE Read == <<power, alive, radioMark, press, outage, wish>>
<1>1. CASE UNCHANGED Read
  BY <1>1 DEF DarkInv, DarkIsAskedFor
<1>2. ASSUME NEW want \in {"off", "on"}, PowerPress(want) PROVE DarkInv'
  <2>. USE <1>2 DEF PowerPress
  <2>1. radioMark' = "operator" \/ press' = "off" => wish' # "on"
    BY DEF MarkFor, Asked
  <2>2. press' # "none"
    OBVIOUS
  <2>. QED
    BY <2>1, <2>2 DEF DarkInv, DarkIsAskedFor
<1>3. CASE PowerSwitch
  <2>. USE <1>3 DEF PowerSwitch
  <2>1. radioMark' = radioMark /\ wish' = wish /\ press' = "none"
    OBVIOUS
  \* power goes off here only after a press "off", whose word is not "on"
  <2>2. ~power' => wish' # "on"
    BY DEF Typed, Words, Presses, PowerOn, Unblock, Block, DarkInv
  <2>. QED
    BY <2>1, <2>2 DEF DarkInv, DarkIsAskedFor
<1>4. ASSUME NEW o \in Outages, OutageBegins(o) PROVE DarkInv'
  <2>1. wish' = Dispute(wish) /\ UNCHANGED <<radioMark, press>>
    BY <1>4 DEF OutageBegins
  <2>2. outage'[o] # "idle"
    BY <1>4 DEF OutageBegins, Typed, Places
  <2>. QED
    BY <2>1, <2>2 DEF DarkInv, DarkIsAskedFor, Dispute
<1>5. ASSUME NEW o \in Outages, OutageMarked(o) \/ OutageEnds(o) PROVE DarkInv'
  <2>1. radioMark' # "operator" /\ UNCHANGED <<press, wish>>
    BY <1>5 DEF OutageMarked, OutageEnds
  <2>2. outage'[o] # "idle"
    BY <1>5 DEF OutageMarked, OutageEnds, Typed, Places
  <2>. QED
    BY <2>1, <2>2 DEF DarkInv, DarkIsAskedFor
<1>6. ASSUME NEW o \in Outages, OutageRestores(o) PROVE DarkInv'
  BY <1>6 DEF OutageRestores, PowerOn, Unblock, DarkInv, DarkIsAskedFor
<1>7. CASE Crash
  BY <1>7 DEF Crash, Dispute, DarkInv, DarkIsAskedFor
<1>8. CASE Start
  <2>. USE <1>8 DEF Start, StaysOff
  <2>1. (radioMark' = "operator" => radioMark = "operator") /\ UNCHANGED <<press, wish>>
    OBVIOUS
  \* what stays off is what the operator's marker is there for
  <2>2. ~power' => radioMark = "operator"
    BY DEF PowerOn, Unblock
  <2>. QED
    BY <2>1, <2>2 DEF DarkInv, DarkIsAskedFor
<1>9. CASE HotplugUnblocks
  BY <1>9 DEF HotplugUnblocks, Unblock, DarkInv, DarkIsAskedFor
<1>10. ASSUME HostapdServes \/ APCommand \/ StartRecovery \/ CheckSettled
                \/ HotplugReads \/ HotplugRestarts
       PROVE  UNCHANGED Read
  BY <1>10 DEF HostapdServes, APCommand, Enable, Disable, StartRecovery, CheckSettled,
     HotplugReads, HotplugRestarts, RestartHostapd
<1>11. ASSUME NEW want \in {"off", "on"}, APPress(want) PROVE UNCHANGED Read
  BY <1>11 DEF APPress
<1>12. ASSUME NEW c \in Cuts, CutBegins(c) \/ Cut(c) PROVE UNCHANGED Read
  BY <1>12 DEF CutBegins, Cut, CutDisables, CutEnds, CutEnables, Enable, Disable
<1>13. ASSUME NEW p \in Recoverers, Recover(p) PROVE UNCHANGED Read
  BY <1>13 DEF Recover, Waited, SendEnable, Rebuild, Revive, Enable, Disable, RestartHostapd
<1>14. CASE UNCHANGED vars
  BY <1>14, <1>1 DEF vars
<1>. QED
  BY <1>1, <1>2, <1>3, <1>4, <1>5, <1>6, <1>7, <1>8, <1>9, <1>10, <1>11, <1>12, <1>13, <1>14
     DEF Next, Outage

\* No radio is left dark unasked, whatever is killed, restarted or plugged in between
\* (restoreRadioPower, RadioOutage, SetRadioPower).
THEOREM NobodyLeftDark == Spec => []DarkIsAskedFor
<1>1. Spec => []DarkInv
  BY InitDark, NextDark, AlwaysTyped, PTL DEF Spec
<1>2. DarkInv => DarkIsAskedFor
  BY DEF DarkInv
<1>. QED
  BY <1>1, <1>2, PTL

----------------------------------------------------------------------------
(* OffStays: while the operator's off is undisputed its marker is there,   *)
(* nobody who could overrule it has begun, and no press is half done when  *)
(* the daemon starts.                                                      *)

OffInv == wish = "off" =>
  /\ alive \/ press = "none"
  /\ press # "on" /\ radioMark = "operator" /\ hotplug # "unblock"
  /\ \A o \in Outages : outage[o] = "idle"
  /\ press = "none" => ~power

LEMMA InitOff == Init => OffInv
BY DEF Init, OffInv

LEMMA NextOff == Typed /\ OffInv /\ [Next]_vars => OffInv'
<1>. SUFFICES ASSUME Typed, OffInv, [Next]_vars, wish' = "off" PROVE OffInv'
  BY DEF OffInv
<1>. DEFINE Read == <<power, alive, radioMark, press, outage, hotplug, wish>>
<1>1. CASE UNCHANGED Read
  BY <1>1 DEF OffInv
<1>2. ASSUME NEW want \in {"off", "on"}, PowerPress(want) PROVE OffInv'
  <2>. USE <1>2 DEF PowerPress
  <2>1. want = "off" /\ PowerAlone
    BY DEF Asked
  <2>. QED
    BY <2>1 DEF OffInv, MarkFor, PowerAlone
\* the actions that keep the word all start where it was "off" already
<1>3. CASE PowerSwitch
  BY <1>3 DEF PowerSwitch, Block, Typed, Words, Presses, OffInv
<1>4. ASSUME NEW o \in Outages, OutageBegins(o) PROVE FALSE
  BY <1>4 DEF OutageBegins, Dispute
<1>5. ASSUME NEW o \in Outages, Outage(o) PROVE FALSE
  BY <1>5 DEF Outage, OutageMarked, OutageEnds, OutageRestores, OffInv
<1>6. CASE Crash
  <2>1. press = "none" /\ wish = "off"
    BY <1>6 DEF Crash, Dispute
  <2>. QED
    BY <1>6, <2>1 DEF Crash, OffInv
<1>7. CASE Start
  <2>1. wish = "off" /\ radioMark = "operator" /\ press = "none" /\ ~power
    BY <1>7 DEF Start, OffInv
  <2>. QED
    BY <1>7, <2>1 DEF Start, StaysOff, kernel, OffInv
<1>8. CASE HotplugReads
  BY <1>8 DEF HotplugReads, OffInv
<1>9. CASE HotplugUnblocks
  BY <1>9 DEF HotplugUnblocks, OffInv
<1>10. CASE HotplugRestarts
  BY <1>10 DEF HotplugRestarts, RestartHostapd, OffInv
<1>11. ASSUME HostapdServes \/ APCommand \/ StartRecovery \/ CheckSettled PROVE UNCHANGED Read
  BY <1>11 DEF HostapdServes, APCommand, Enable, Disable, StartRecovery, CheckSettled
<1>12. ASSUME NEW want \in {"off", "on"}, APPress(want) PROVE UNCHANGED Read
  BY <1>12 DEF APPress
<1>13. ASSUME NEW c \in Cuts, CutBegins(c) \/ Cut(c) PROVE UNCHANGED Read
  BY <1>13 DEF CutBegins, Cut, CutDisables, CutEnds, CutEnables, Enable, Disable
<1>14. ASSUME NEW p \in Recoverers, Recover(p) PROVE UNCHANGED Read
  BY <1>14 DEF Recover, Waited, SendEnable, Rebuild, Revive, Enable, Disable, RestartHostapd
<1>15. CASE UNCHANGED vars
  BY <1>15, <1>1 DEF vars
<1>. QED
  BY <1>1, <1>2, <1>3, <1>4, <1>5, <1>6, <1>7, <1>8, <1>9, <1>10, <1>11, <1>12, <1>13, <1>14,
     <1>15 DEF Next

\* The operator's switch-off outlives restarts and hotplugs (SetRadioPower,
\* restoreRadioPower, select-radio; #186).
THEOREM OffOutlivesRestarts == Spec => []OffStays
<1>1. Spec => []OffInv
  BY InitOff, NextOff, AlwaysTyped, PTL DEF Spec
<1>2. OffInv => OffStays
  BY DEF OffInv, OffStays
<1>. QED
  BY <1>1, <1>2, PTL

----------------------------------------------------------------------------
(* APOffStays: the same for the access point, with every goroutine that    *)
(* could send ENABLE at rest and the check at start still to read.         *)

APOffInv == apWish = "off" =>
  /\ apPress # "on" /\ apMark = "operator" /\ hotplug = "idle" /\ spawned = 0
  /\ rec["watch"] = "idle" /\ rec["check"] \in {"idle", "settle"}
  /\ \A c \in Cuts : cut[c] = "idle"
  /\ apPress = "none" => ~admin /\ ~up

LEMMA InitAPOff == Init => APOffInv
BY DEF Init, APOffInv

LEMMA NextAPOff == Typed /\ APOffInv /\ [Next]_vars => APOffInv'
<1>. SUFFICES ASSUME Typed, APOffInv, [Next]_vars, apWish' = "off" PROVE APOffInv'
  BY DEF APOffInv
<1>. DEFINE Read == <<admin, up, apMark, apPress, cut, spawned, rec, hotplug, apWish>>
<1>1. CASE UNCHANGED Read
  BY <1>1 DEF APOffInv
<1>2. ASSUME NEW want \in {"off", "on"}, APPress(want) PROVE APOffInv'
  <2>. USE <1>2 DEF APPress
  <2>1. want = "off" /\ APAlone
    BY DEF Asked
  <2>. QED
    BY <2>1 DEF APOffInv, MarkFor, APAlone
\* the actions that keep the word all start where it was "off" already
<1>3. CASE APCommand
  BY <1>3 DEF APCommand, Disable, Typed, Words, Presses, APOffInv
<1>4. CASE HostapdServes
  BY <1>4 DEF HostapdServes, Typed, Words, Presses, APOffInv
<1>5. ASSUME NEW want \in {"off", "on"}, PowerPress(want) PROVE UNCHANGED Read
  BY <1>5 DEF PowerPress
\* a power-on disputes the word, a power-off takes the access point off the air
<1>6. CASE PowerSwitch
  BY <1>6 DEF PowerSwitch, PowerOn, Dispute, Block, APOffInv
<1>7. ASSUME NEW o \in Outages, OutageBegins(o) \/ Outage(o) PROVE APOffInv'
  BY <1>7 DEF OutageBegins, Outage, OutageMarked, OutageEnds, OutageRestores, PowerOn, Dispute,
     Block, APOffInv
<1>8. ASSUME NEW c \in Cuts, CutBegins(c) PROVE FALSE
  BY <1>8 DEF CutBegins, Dispute
<1>9. ASSUME NEW c \in Cuts, Cut(c) PROVE FALSE
  BY <1>9 DEF Cut, CutDisables, CutEnds, CutEnables, APOffInv
<1>10. CASE StartRecovery
  BY <1>10 DEF StartRecovery, Typed, Counts, APOffInv
<1>11. ASSUME NEW p \in Recoverers, Recover(p) PROVE FALSE
  BY <1>11 DEF Recover, Waited, SendEnable, Rebuild, Revive, Recoverers, APOffInv
<1>12. CASE CheckSettled
  <2>1. OffOnPurpose
    BY <1>12 DEF CheckSettled, APOffInv, OffOnPurpose
  <2>. QED
    BY <1>12, <2>1 DEF CheckSettled, Goes, Recoverers, Typed, Places, APOffInv
<1>13. CASE Crash
  <2>1. apPress = "none" /\ apWish = "off"
    BY <1>13 DEF Crash, Dispute
  <2>. QED
    BY <1>13, <2>1 DEF Crash, Recoverers, APOffInv
<1>14. CASE Start
  BY <1>14 DEF Start, Goes, Recoverers, PowerOn, Dispute, Typed, Places, APOffInv
<1>15. ASSUME HotplugReads \/ HotplugUnblocks \/ HotplugRestarts PROVE FALSE
  BY <1>15 DEF HotplugReads, HotplugUnblocks, HotplugRestarts, Dispute, APOffInv
<1>16. CASE UNCHANGED vars
  BY <1>16, <1>1 DEF vars
<1>. QED
  BY <1>1, <1>2, <1>3, <1>4, <1>5, <1>6, <1>7, <1>8, <1>9, <1>10, <1>11, <1>12, <1>13, <1>14,
     <1>15, <1>16 DEF Next

\* An access point the operator disabled stays down across restarts (SetAPEnabled,
\* checkRadiosAtStart; #282).
THEOREM APOffOutlivesRestarts == Spec => []APOffStays
<1>1. Spec => []APOffInv
  BY InitAPOff, NextAPOff, AlwaysTyped, PTL DEF Spec
<1>2. APOffInv => APOffStays
  BY DEF APOffInv, APOffStays
<1>. QED
  BY <1>1, <1>2, PTL
=============================================================================
