----------------------------- MODULE RolesProofs -----------------------------
(***************************************************************************)
(* Proofs about Roles, for any radios, role changes, commands that fail,   *)
(* unplugs, crashes and reboots, with one role change at work at a time on *)
(* a box with no onboard radio: the types, and that for every radio whose  *)
(* role is settled the configurations agree and nothing is on the air      *)
(* beside a listen-only interface.                                         *)
(***************************************************************************)
EXTENDS Roles, TLAPS

----------------------------------------------------------------------------
(* The inductive invariant.                                                *)

OneAtATime == \A p, q \in Requests : p = q

Configs == /\ conf \in Config /\ work \in Config
Sets    == /\ present \subseteq Radios /\ listening \subseteq Radios /\ ports \subseteq Radios
           /\ retired \subseteq Radios /\ hooks \subseteq Radios /\ unfinished \subseteq Radios
Calls   == req \in [Requests -> [radio : Radios \cup {NoRadio}, way : Ways, at : Nat,
                                 list : SUBSET Radios, sound : BOOLEAN]]
Rest    == /\ ap \in [Radios -> {"off", "starting", "up"}]
           /\ up \in BOOLEAN /\ restarting \in BOOLEAN
           /\ rebuilding \in Radios \cup {NoRadio}
           /\ role \in [Radios -> {"scanner", "serve"}]
TypeInv == Configs /\ Sets /\ Calls /\ Rest

\* Where a way's commands stand in its program.
Last(way)     == IF way = "serve" THEN 14 ELSE 10
CommitAt(way) == IF way = "serve" THEN 3 ELSE 2
NamesAt(way)  == IF way = "serve" THEN 7 ELSE IF way = "scanner" THEN 6 ELSE 4
ReloadAt(way) == IF way = "serve" THEN 11 ELSE IF way = "scanner" THEN 3 ELSE 8

\* A request at work is of a radio, stands at one of its commands, and the daemon serves it.
Underway(q) == /\ req[q].radio \in Radios /\ up
               /\ 1 <= req[q].at /\ req[q].at <= Last(req[q].way)

UnderwayInv == \A q \in Requests : req[q] # Free => Underway(q)

\* And the role of its radio is not settled.
Working(q) == req[q].radio \in unfinished /\ Underway(q)

\* What it read of a list is what is there until it writes it.
Read(q) == /\ req[q].at = NamesAt(req[q].way) => req[q].list = work.names
           /\ req[q].at = NamesAt(req[q].way) + 2 => req[q].list = work.macs

\* What it has done so far is done, unless something went wrong beneath it.
Done(q) ==
  LET c == req[q] r == c.radio IN
  /\ r \in present
  /\ c.at > 1 => (r \in work.off <=> Listens(c.way))
  /\ c.at > CommitAt(c.way) => (r \in conf.off <=> Listens(c.way))
  /\ c.at > NamesAt(c.way) => (r \in work.names <=> Listens(c.way))
  /\ c.at > NamesAt(c.way) + 2 => (r \in work.macs <=> Listens(c.way))
  /\ c.at > NamesAt(c.way) + 3 =>
       (r \in conf.names <=> Listens(c.way)) /\ (r \in conf.macs <=> Listens(c.way))
  /\ Listens(c.way) /\ c.at > ReloadAt(c.way) => ap[r] = "off"
  /\ c.way = "serve" /\ c.at > 4 => r \in retired
  /\ c.way = "serve" /\ c.at > 5 => r \notin listening /\ r # rebuilding

CallInv == \A q \in Requests : req[q] # Free =>
  Working(q) /\ Read(q) /\ (req[q].sound => Done(q))

\* A radio whose role is settled, as both configurations have it, the access point and
\* the interface, and the daemon's idea of what it listens with.
Listener(r) ==
  /\ r \in conf.off /\ r \in work.off /\ r \in conf.macs /\ r \in work.macs
  /\ ap[r] = "off"
Server(r) ==
  /\ r \notin conf.off /\ r \notin work.off /\ r \notin conf.macs /\ r \notin work.macs
  /\ r \notin conf.names /\ r \notin work.names
  /\ r \notin listening /\ r # rebuilding
  /\ r \in ports => r \in retired

InPlace(r) == IF role[r] = "scanner" THEN Listener(r) ELSE Server(r)

SettledInv == \A r \in Radios \ unfinished : InPlace(r)

IInv == TypeInv /\ CallInv /\ SettledInv
----------------------------------------------------------------------------
(* Programs.                                                               *)

\* Which command stands where.
LEMMA Positions ==
  ASSUME NEW w \in Ways, NEW i \in Nat, 1 <= i, i <= Last(w)
  PROVE  LET c == Program(w)[i] IN
         /\ c = "stage" <=> i = 1
         /\ c = "channel" <=> w = "serve" /\ i = 2
         /\ c = "commit" <=> i = CommitAt(w)
         /\ c = "reload" <=> i = ReloadAt(w)
         /\ c = "listen" <=> (w = "scanner" /\ i = 4) \/ (w = "back" /\ i = 9)
         /\ c = "retire" <=> w = "serve" /\ i = 4
         /\ c = "unlisten" <=> w = "serve" /\ i = 5
         /\ c = "readNames" <=> i = NamesAt(w) - 1
         /\ c = "setNames" <=> i = NamesAt(w)
         /\ c = "readMacs" <=> i = NamesAt(w) + 1
         /\ c = "setMacs" <=> i = NamesAt(w) + 2
         /\ c = "commitBoa" <=> i = NamesAt(w) + 3 \/ (w = "serve" /\ i = 13)
         /\ c = "await" <=> w = "serve" /\ i = 12
         /\ c = "answer" <=> w # "back" /\ i = Last(w)
         /\ c = "refuse" <=> w = "back" /\ i = Last(w)
<1>1. CASE w = "scanner"
  <2>1. \/ i = 1 \/ i = 2 \/ i = 3 \/ i = 4 \/ i = 5
        \/ i = 6 \/ i = 7 \/ i = 8 \/ i = 9 \/ i = 10
    BY <1>1 DEF Last
  <2>2. LET p == Program(w) IN
        /\ p[1] = "stage" /\ p[2] = "commit" /\ p[3] = "reload" /\ p[4] = "listen"
        /\ p[5] = "readNames" /\ p[6] = "setNames" /\ p[7] = "readMacs" /\ p[8] = "setMacs"
        /\ p[9] = "commitBoa" /\ p[10] = "answer"
    BY <1>1 DEF Program
  <2> QED BY <1>1, <2>1, <2>2 DEF Last, CommitAt, ReloadAt, NamesAt
<1>2. CASE w = "serve"
  <2>1. \/ i = 1 \/ i = 2 \/ i = 3 \/ i = 4 \/ i = 5 \/ i = 6 \/ i = 7
        \/ i = 8 \/ i = 9 \/ i = 10 \/ i = 11 \/ i = 12 \/ i = 13 \/ i = 14
    BY <1>2 DEF Last
  <2>2. LET p == Program(w) IN
        /\ p[1] = "stage" /\ p[2] = "channel" /\ p[3] = "commit" /\ p[4] = "retire"
        /\ p[5] = "unlisten" /\ p[6] = "readNames" /\ p[7] = "setNames" /\ p[8] = "readMacs"
        /\ p[9] = "setMacs" /\ p[10] = "commitBoa" /\ p[11] = "reload" /\ p[12] = "await"
        /\ p[13] = "commitBoa" /\ p[14] = "answer"
    BY <1>2 DEF Program
  <2> QED BY <1>2, <2>1, <2>2 DEF Last, CommitAt, ReloadAt, NamesAt
<1>3. CASE w = "back"
  <2>1. \/ i = 1 \/ i = 2 \/ i = 3 \/ i = 4 \/ i = 5
        \/ i = 6 \/ i = 7 \/ i = 8 \/ i = 9 \/ i = 10
    BY <1>3 DEF Last
  <2>2. LET p == Program(w) IN
        /\ p[1] = "stage" /\ p[2] = "commit" /\ p[3] = "readNames" /\ p[4] = "setNames"
        /\ p[5] = "readMacs" /\ p[6] = "setMacs" /\ p[7] = "commitBoa" /\ p[8] = "reload"
        /\ p[9] = "listen" /\ p[10] = "refuse"
    BY <1>3 DEF Program
  <2> QED BY <1>3, <2>1, <2>2 DEF Last, CommitAt, ReloadAt, NamesAt
<1> QED BY <1>1, <1>2, <1>3 DEF Ways

\* A request at work: its command, and what the invariant says of it.
LEMMA WhereIs ==
  ASSUME TypeInv, UnderwayInv, NEW q \in Requests, req[q] # Free
  PROVE  LET c == req[q] IN
         /\ c.radio \in Radios /\ up
         /\ c.way \in Ways /\ c.at \in Nat /\ 1 <= c.at /\ c.at <= Last(c.way)
         /\ c.list \subseteq Radios /\ c.sound \in BOOLEAN
BY DEF TypeInv, Calls, UnderwayInv, Underway

LEMMA CommandAt ==
  ASSUME TypeInv, UnderwayInv, NEW q \in Requests, NEW command, At(q, command)
  PROVE  /\ req[q] # Free
         /\ LET w == req[q].way i == req[q].at IN
            /\ command = "stage" => i = 1
            /\ command = "channel" => w = "serve" /\ i = 2
            /\ command = "commit" => i = CommitAt(w)
            /\ command = "reload" => i = ReloadAt(w)
            /\ command = "listen" => (w = "scanner" /\ i = 4) \/ (w = "back" /\ i = 9)
            /\ command = "retire" => w = "serve" /\ i = 4
            /\ command = "unlisten" => w = "serve" /\ i = 5
            /\ command = "readNames" => i = NamesAt(w) - 1
            /\ command = "setNames" => i = NamesAt(w)
            /\ command = "readMacs" => i = NamesAt(w) + 1
            /\ command = "setMacs" => i = NamesAt(w) + 2
            /\ command = "commitBoa" => i = NamesAt(w) + 3 \/ (w = "serve" /\ i = 13)
            /\ command = "await" => w = "serve" /\ i = 12
            /\ command = "answer" => w # "back" /\ i = Last(w)
            /\ command = "refuse" => w = "back" /\ i = Last(w)
<1>1. req[q] # Free /\ Program(req[q].way)[req[q].at] = command
  BY DEF At
<1> QED BY <1>1, WhereIs, Positions

\* A request that goes on.
LEMMA GoesOn ==
  ASSUME TypeInv, UnderwayInv, NEW q \in Requests, req[q] # Free, req' = Next1(q)
  PROVE  /\ req' \in [Requests -> [radio : Radios \cup {NoRadio}, way : Ways, at : Nat,
                                   list : SUBSET Radios, sound : BOOLEAN]]
         /\ req'[q] # Free
         /\ req'[q].radio = req[q].radio /\ req'[q].way = req[q].way
         /\ req'[q].at = req[q].at + 1 /\ req'[q].list = req[q].list
         /\ req'[q].sound = req[q].sound
BY WhereIs DEF TypeInv, Calls, Next1, Free

----------------------------------------------------------------------------
(* Types.                                                                  *)

LEMMA NotFound == NoRadio \notin Radios /\ Recorded \subseteq Radios /\ Onboard \subseteq Radios
BY RolesAssumption

LEMMA InitTypes == Init => TypeInv
<1> SUFFICES ASSUME Init PROVE TypeInv
  OBVIOUS
<1>1. Configs /\ Sets
  BY NotFound DEF Init, Configs, Sets, Config
<1>2. Calls
  BY DEF Init, Calls, Free, Ways
<1>3. Rest
  BY DEF Init, Rest
<1> QED BY <1>1, <1>2, <1>3 DEF TypeInv

LEMMA FreeCall == Free \in [radio : Radios \cup {NoRadio}, way : Ways, at : Nat,
                            list : SUBSET Radios, sound : BOOLEAN]
BY DEF Free, Ways

LEMMA StepTypes ==
  ASSUME TypeInv, UnderwayInv, NEW q \in Requests, Step(q) \/ Fail(q)
  PROVE  TypeInv'
<1>0. Configs /\ Sets /\ Calls /\ Rest
  BY DEF TypeInv
<1>1. ASSUME req[q] # Free, req' = Next1(q) PROVE Calls'
  BY <1>1, GoesOn DEF Calls
<1>2. ASSUME req' = [req EXCEPT ![q] = Free] PROVE Calls'
  BY <1>0, <1>2, FreeCall DEF Calls
<1>3. CASE Stage(q)
  <2>1. req[q] # Free /\ req' = Next1(q) /\ req[q].radio \in Radios
    BY <1>3, WhereIs DEF Stage, At
  <2>2. work' \in Config
    BY <1>0, <1>3, <2>1 DEF Stage, Configs, Config, AfterList
  <2> QED BY <1>0, <1>1, <1>3, <2>1, <2>2 DEF TypeInv, Stage, Configs, Sets, Rest, netdev, daemon, told
<1>4. CASE EnsureChannel(q)
  <2>1. req[q] # Free /\ req' = Next1(q)
    BY <1>4 DEF EnsureChannel, At
  <2> QED BY <1>0, <1>1, <1>4, <2>1 DEF TypeInv, EnsureChannel, Configs, Sets, Rest, uci, netdev, daemon, told
<1>5. CASE Commit(q)
  <2>1. req[q] # Free /\ req' = Next1(q)
    BY <1>5 DEF Commit, At
  <2>2. conf' \in Config
    BY <1>0, <1>5 DEF Commit, Configs, Config, WirelessOf, BoaOf
  <2> QED BY <1>0, <1>1, <1>5, <2>1, <2>2 DEF TypeInv, Commit, Configs, Sets, Rest, netdev, daemon, told
<1>6. CASE Reload(q)
  <2>1. req[q] # Free /\ req' = Next1(q)
    BY <1>6 DEF Reload, At
  <2>2. ap' \in [Radios -> {"off", "starting", "up"}]
    BY <1>0, <1>6 DEF Reload, Reloaded, Rest
  <2> QED BY <1>0, <1>1, <1>6, <2>1, <2>2 DEF TypeInv, Reload, Configs, Sets, Rest, uci, daemon, told
<1>7. CASE Listen(q)
  <2>1. req[q] # Free /\ req' = Next1(q)
    BY <1>7 DEF Listen, At
  <2> QED BY <1>0, <1>1, <1>7, <2>1 DEF TypeInv, Listen, Configs, Sets, Rest, uci, daemon, told
<1>8. CASE retireScan(q)
  <2>1. req[q] # Free /\ req' = Next1(q) /\ req[q].radio \in Radios
    BY <1>8, WhereIs DEF retireScan, At
  <2> QED BY <1>0, <1>1, <1>8, <2>1 DEF TypeInv, retireScan, Configs, Sets, Rest, uci, netdev, told
<1>9. CASE Unlisten(q)
  <2>1. req[q] # Free /\ req' = Next1(q)
    BY <1>9 DEF Unlisten, At
  <2> QED BY <1>0, <1>1, <1>9, <2>1 DEF TypeInv, Unlisten, Configs, Sets, Rest, uci, daemon, told
<1>10. CASE ReadList(q)
  <2>1. req[q] # Free
    BY <1>10 DEF ReadList, At
  <2>2. Next1(q) \in [Requests -> [radio : Radios \cup {NoRadio}, way : Ways, at : Nat,
                                   list : SUBSET Radios, sound : BOOLEAN]]
    BY <1>0, <2>1 DEF Calls, Next1
  <2>3. work.names \subseteq Radios /\ work.macs \subseteq Radios
    BY <1>0 DEF Configs, Config
  <2>4. Calls'
    BY <1>10, <2>2, <2>3 DEF ReadList, Calls
  <2> QED BY <1>0, <1>10, <2>4 DEF TypeInv, ReadList, Configs, Sets, Rest, uci, netdev, daemon, told
<1>11. CASE SetList(q)
  <2>1. req[q] # Free /\ req[q].radio \in Radios /\ req[q].list \subseteq Radios
    BY <1>11, WhereIs DEF SetList, At
  <2>2. Next1(q) \in [Requests -> [radio : Radios \cup {NoRadio}, way : Ways, at : Nat,
                                   list : SUBSET Radios, sound : BOOLEAN]]
    BY <1>0, <2>1 DEF Calls, Next1
  <2>3. Calls'
    BY <1>11, <2>2 DEF SetList, Calls
  <2>4. AfterList(req[q].list, req[q].radio, Listens(req[q].way)) \subseteq Radios
    BY <2>1 DEF AfterList
  <2>5. work' \in Config
    BY <1>0, <1>11, <2>4 DEF SetList, Configs, Config
  <2> QED BY <1>0, <1>11, <2>3, <2>5 DEF TypeInv, SetList, Configs, Sets, Rest, netdev, daemon, told
<1>12. CASE Await(q)
  <2>1. req[q] # Free
    BY <1>12 DEF Await, At
  <2>2. Calls'
    BY <1>0, <1>1, <1>12, <2>1 DEF Await, Calls, Ways
  <2> QED BY <1>0, <1>12, <2>2 DEF TypeInv, Await, Configs, Sets, Rest, uci, netdev, daemon, told
<1>13. CASE Answer(q)
  <2>1. req[q] # Free /\ req[q].way \in {"scanner", "serve"}
    BY <1>13, CommandAt, WhereIs DEF Answer, Ways
  <2>2. Calls' /\ role' \in [Radios -> {"scanner", "serve"}] /\ unfinished' \subseteq Radios
    BY <1>0, <1>2, <1>13, <2>1 DEF Answer, End, Sets, Rest
  <2> QED BY <1>0, <1>13, <2>2 DEF TypeInv, Answer, Configs, Sets, Rest, uci, netdev
<1>14. CASE Refuse(q)
  <2>1. Calls' /\ role' \in [Radios -> {"scanner", "serve"}] /\ unfinished' \subseteq Radios
    BY <1>0, <1>2, <1>14 DEF Refuse, End, Sets, Rest
  <2> QED BY <1>0, <1>14, <2>1 DEF TypeInv, Refuse, Configs, Sets, Rest, uci, netdev, daemon
<1>15. CASE ListenNowhere(q)
  BY <1>0, <1>2, <1>15 DEF TypeInv, ListenNowhere, Configs, Sets, Rest, uci, netdev, daemon, told
<1>16. CASE Fail(q)
  <2>1. req[q] # Free
    BY <1>16 DEF Fail, At
  <2>2. Next1(q) \in [Requests -> [radio : Radios \cup {NoRadio}, way : Ways, at : Nat,
                                   list : SUBSET Radios, sound : BOOLEAN]]
    BY <1>0, <2>1 DEF Calls, Next1
  <2>3. Calls'
    BY <1>2, <1>16, <2>2 DEF Fail, Calls
  <2> QED BY <1>0, <1>16, <2>3 DEF TypeInv, Fail, Configs, Sets, Rest, uci, netdev, daemon, told
<1> QED BY <1>3, <1>4, <1>5, <1>6, <1>7, <1>8, <1>9, <1>10, <1>11, <1>12, <1>13, <1>14, <1>15,
           <1>16 DEF Step

LEMMA StoppedTypes ==
  ASSUME TypeInv, Stopped
  PROVE  /\ Calls' /\ ports' \subseteq Radios /\ retired' \subseteq Radios
         /\ up' \in BOOLEAN /\ rebuilding' \in Radios \cup {NoRadio}
         /\ \A q \in Requests : req'[q] = Free
BY FreeCall DEF Stopped, Calls

\* The steps that touch no request but to end it.
BoxStep ==
  \/ RestartFires \/ Start \/ RebuildAdd \/ PersistUCI \/ Crash \/ Reboot
  \/ \E r \in Radios : RebuildCheck(r) \/ Hook(r) \/ Beacon(r) \/ Replug(r)

LEMMA BoxTypes == ASSUME TypeInv, BoxStep PROVE TypeInv'
<1>0. Configs /\ Sets /\ Calls /\ Rest
  BY DEF TypeInv
<1>1. CASE RestartFires
  BY <1>0, <1>1, StoppedTypes DEF TypeInv, RestartFires, Configs, Sets, Rest, uci, netdev, told
<1>2. CASE Start
  <2>1. Resolved(work) \subseteq Radios
    BY <1>0 DEF Resolved, Configs, Sets, Config
  <2>2. work' \in Config /\ conf' \in Config
    BY <1>0, <1>2, <2>1 DEF Start, Configs, Config, BoaOf
  <2>3. listening' \subseteq Radios
    BY <1>0, <1>2, <2>1 DEF Start, Ensured, Sets
  <2> QED BY <1>0, <1>2, <2>1, <2>2, <2>3 DEF TypeInv, Start, Configs, Sets, Calls, Rest, told
<1>3. CASE RebuildAdd
  BY <1>0, <1>3 DEF TypeInv, RebuildAdd, Configs, Sets, Calls, Rest, uci, told
<1>4. CASE PersistUCI
  <2>1. conf' \in Config
    BY <1>0, <1>4 DEF PersistUCI, Configs, Config, WirelessOf
  <2> QED BY <1>0, <1>4, <2>1 DEF TypeInv, PersistUCI, Configs, Sets, Calls, Rest, netdev, daemon, told
<1>5. CASE Crash
  BY <1>0, <1>5, StoppedTypes DEF TypeInv, Crash, Configs, Sets, Rest, uci, netdev, told
<1>6. CASE Reboot
  BY <1>0, <1>6, StoppedTypes DEF TypeInv, Reboot, Configs, Sets, Rest, told
<1>7. ASSUME NEW r \in Radios, RebuildCheck(r) PROVE TypeInv'
  BY <1>0, <1>7 DEF TypeInv, RebuildCheck, Configs, Sets, Calls, Rest, uci, netdev, told
<1>8. ASSUME NEW r \in Radios, HookListens(r) PROVE TypeInv'
  <2>1. work' \in Config /\ conf' \in Config
    BY <1>0, <1>8 DEF HookListens, Configs, Config
  <2> QED BY <1>0, <1>8, <2>1, StoppedTypes DEF TypeInv, HookListens, Configs, Sets, Rest, told
<1>9. ASSUME NEW r \in Radios, HookServes(r) PROVE TypeInv'
  <2>1. work' \in Config /\ conf' \in Config
    BY <1>0, <1>9 DEF HookServes, Configs, Config, WirelessOf
  <2> QED BY <1>0, <1>9, <2>1, StoppedTypes DEF TypeInv, HookServes, Configs, Sets, Rest, told
<1>10. ASSUME NEW r \in Radios, HookLeaves(r) PROVE TypeInv'
  BY <1>0, <1>10 DEF TypeInv, HookLeaves, Configs, Sets, Calls, Rest, uci, netdev, daemon, told
<1>11. ASSUME NEW r \in Radios, Beacon(r) PROVE TypeInv'
  BY <1>0, <1>11 DEF TypeInv, Beacon, Configs, Sets, Calls, Rest, uci, daemon, told
<1>12. ASSUME NEW r \in Radios, Replug(r) PROVE TypeInv'
  BY <1>0, <1>12 DEF TypeInv, Replug, Configs, Sets, Calls, Rest, uci, daemon, told
<1> QED BY <1>1, <1>2, <1>3, <1>4, <1>5, <1>6, <1>7, <1>8, <1>9, <1>10, <1>11, <1>12
        DEF BoxStep, Hook

\* A cable that is pulled spoils the request that is about its radio.
LEMMA Unplugged ==
  ASSUME TypeInv, NEW r \in Radios, Unplug(r)
  PROVE  /\ Calls'
         /\ \A q \in Requests :
              /\ req[q] = Free <=> req'[q] = Free
              /\ req'[q].radio = req[q].radio /\ req'[q].way = req[q].way
              /\ req'[q].at = req[q].at /\ req'[q].list = req[q].list
              /\ req'[q].sound => req[q].sound /\ req[q].radio # r
<1>1. req \in [Requests -> [radio : Radios \cup {NoRadio}, way : Ways, at : Nat,
                            list : SUBSET Radios, sound : BOOLEAN]]
  BY DEF TypeInv, Calls
<1>2. \A q \in Requests : req'[q] = IF req[q].radio = r THEN [req[q] EXCEPT !.sound = FALSE]
                                                        ELSE req[q]
  BY DEF Unplug
<1>3. Calls'
  BY <1>1, <1>2 DEF Unplug, Calls
<1>4. r # NoRadio
  BY NotFound
<1>5. ASSUME NEW q \in Requests
      PROVE  /\ req[q] = Free <=> req'[q] = Free
             /\ req'[q].radio = req[q].radio /\ req'[q].way = req[q].way
             /\ req'[q].at = req[q].at /\ req'[q].list = req[q].list
             /\ req'[q].sound => req[q].sound /\ req[q].radio # r
  <2>1. CASE req[q].radio = r
    <3>1. req'[q] = [req[q] EXCEPT !.sound = FALSE]
      BY <1>2, <2>1
    <3>2. /\ req'[q].radio = req[q].radio /\ req'[q].way = req[q].way
          /\ req'[q].at = req[q].at /\ req'[q].list = req[q].list /\ ~req'[q].sound
      BY <1>1, <3>1
    <3>3. Free.radio = NoRadio
      BY DEF Free
    <3> QED BY <1>4, <2>1, <3>2, <3>3
  <2>2. CASE req[q].radio # r
    <3>1. req'[q] = req[q]
      BY <1>2, <2>2
    <3> QED BY <2>2, <3>1
  <2> QED BY <2>1, <2>2
<1> QED BY <1>3, <1>5

LEMMA UnplugTypes == ASSUME TypeInv, NEW r \in Radios, Unplug(r) PROVE TypeInv'
BY Unplugged DEF TypeInv, Unplug, Configs, Sets, Rest, uci, daemon, told

LEMMA AskTypes ==
  ASSUME TypeInv, NEW q \in Requests, NEW r \in Radios, NEW way \in {"scanner", "serve"},
         Ask(q, r, way)
  PROVE  /\ TypeInv'
         /\ req'[q] # Free /\ req'[q].radio = r /\ req'[q].way = way /\ req'[q].at = 1
<1>1. req' = [req EXCEPT ![q] = [radio |-> r, way |-> way, at |-> 1, list |-> {}, sound |-> TRUE]]
  BY DEF Ask
<1>2. Calls'
  BY <1>1 DEF TypeInv, Calls, Ways
<1>3. req'[q] = [radio |-> r, way |-> way, at |-> 1, list |-> {}, sound |-> TRUE]
  BY <1>1 DEF TypeInv, Calls
<1> QED BY <1>2, <1>3 DEF TypeInv, Ask, Configs, Sets, Rest, uci, netdev, daemon, Free

LEMMA TypesKept == TypeInv /\ UnderwayInv /\ [Next]_vars => TypeInv'
<1> SUFFICES ASSUME TypeInv, UnderwayInv, [Next]_vars PROVE TypeInv'
  OBVIOUS
<1>1. CASE UNCHANGED vars
  BY <1>1 DEF vars, uci, netdev, daemon, told, TypeInv, Configs, Sets, Calls, Rest
<1> QED BY <1>1, AskTypes, StepTypes, BoxTypes, UnplugTypes DEF Next, BoxStep

----------------------------------------------------------------------------
(* Requests stand at their commands.                                       *)

LEMMA NotLast ==
  ASSUME TypeInv, UnderwayInv, NEW q \in Requests, NEW command, At(q, command),
         command # "answer", command # "refuse"
  PROVE  req[q] # Free /\ req[q].at # Last(req[q].way)
<1>1. req[q] # Free /\ Program(req[q].way)[req[q].at] = command
  BY DEF At
<1>2. /\ req[q].way \in Ways /\ req[q].at \in Nat
      /\ 1 <= req[q].at /\ req[q].at <= Last(req[q].way)
  BY <1>1, WhereIs
<1> QED BY <1>1, <1>2, Positions DEF Ways

LEMMA StepUnderway ==
  ASSUME TypeInv, UnderwayInv, NEW q \in Requests, Step(q) \/ Fail(q)
  PROVE  UnderwayInv'
<1>1. req[q] # Free /\ up' = up /\ req \in [Requests -> [radio : Radios \cup {NoRadio}, way : Ways,
                                             at : Nat, list : SUBSET Radios, sound : BOOLEAN]]
  BY DEF Step, Fail, Stage, EnsureChannel, Commit, Reload, Listen, retireScan, Unlisten, ReadList,
         SetList, Await, Answer, Refuse, ListenNowhere, At, daemon, TypeInv, Calls
<1>2. Underway(q) /\ req[q].way \in Ways /\ req[q].at \in Nat
  BY <1>1, WhereIs DEF UnderwayInv
<1>3. \A p \in Requests : p # q => req'[p] = req[p]
  BY <1>1 DEF Step, Fail, Stage, EnsureChannel, Commit, Reload, Listen, retireScan, Unlisten, ReadList,
         SetList, Await, Answer, Refuse, ListenNowhere, End, Next1
<1>4. Underway(q)' \/ req'[q] = Free
  <2>1. CASE Await(q)
    <3>1. \/ req' = Next1(q)
          \/ req' = [req EXCEPT ![q].way = "back", ![q].at = 1]
      BY <2>1 DEF Await
    <3>2. \/ req'[q].radio = req[q].radio /\ req'[q].way = req[q].way /\ req'[q].at = req[q].at + 1
          \/ req'[q].radio = req[q].radio /\ req'[q].way = "back" /\ req'[q].at = 1
      BY <1>1, <3>1 DEF Next1
    <3>3. req[q].at # Last(req[q].way)
      BY <2>1, NotLast DEF Await
    <3> QED BY <1>1, <1>2, <3>2, <3>3 DEF Underway, Last, Ways
  <2>2. CASE Answer(q) \/ Refuse(q) \/ ListenNowhere(q) \/ (Fail(q) /\ req[q].way # "back")
    BY <1>1, <2>2 DEF Answer, Refuse, ListenNowhere, End, Fail
  <2>3. CASE \/ Stage(q) \/ EnsureChannel(q) \/ Commit(q) \/ Reload(q) \/ Listen(q) \/ retireScan(q)
             \/ Unlisten(q) \/ ReadList(q) \/ SetList(q) \/ (Fail(q) /\ req[q].way = "back")
    <3>1. req[q].at # Last(req[q].way)
      BY <2>3, NotLast DEF Stage, EnsureChannel, Commit, Reload, Listen, retireScan, Unlisten,
         ReadList, SetList, Fail, Fallible
    <3>2. req'[q].radio = req[q].radio /\ req'[q].way = req[q].way /\ req'[q].at = req[q].at + 1
      BY <1>1, <2>3 DEF Stage, EnsureChannel, Commit, Reload, Listen, retireScan, Unlisten,
         ReadList, SetList, Fail, Next1
    <3> QED BY <1>1, <1>2, <3>1, <3>2 DEF Underway, Last, Ways
  <2> QED BY <2>1, <2>2, <2>3 DEF Step
<1> QED BY <1>1, <1>3, <1>4 DEF UnderwayInv, Underway

LEMMA UnderwayKept == TypeInv /\ UnderwayInv /\ [Next]_vars => UnderwayInv'
<1> SUFFICES ASSUME TypeInv, UnderwayInv, [Next]_vars PROVE UnderwayInv'
  OBVIOUS
<1>1. CASE UNCHANGED vars
  BY <1>1 DEF vars, daemon, UnderwayInv, Underway
<1>2. ASSUME NEW q \in Requests, NEW r \in Radios, NEW way \in {"scanner", "serve"}, Ask(q, r, way)
      PROVE  UnderwayInv'
  <2>1. req'[q].radio = r /\ req'[q].way = way /\ req'[q].at = 1 /\ up' = up /\ up
    BY <1>2, AskTypes DEF Ask, daemon
  <2>2. \A p \in Requests : p # q => req'[p] = req[p]
    BY <1>2 DEF Ask, TypeInv, Calls
  <2> QED BY <2>1, <2>2 DEF UnderwayInv, Underway, Last
<1>3. CASE BoxStep
  <2>1. \/ \A q \in Requests : req'[q] = Free
        \/ req' = req /\ (up' = up \/ up' = TRUE)
    BY <1>3, StoppedTypes
       DEF BoxStep, RestartFires, Start, RebuildAdd, PersistUCI, Crash, Reboot, RebuildCheck, Hook,
           HookListens, HookServes, HookLeaves, Beacon, Replug, daemon
  <2> QED BY <2>1 DEF UnderwayInv, Underway
<1>4. ASSUME NEW r \in Radios, Unplug(r) PROVE UnderwayInv'
  BY <1>4, Unplugged DEF UnderwayInv, Underway, Unplug, daemon
<1> QED BY <1>1, <1>2, <1>3, <1>4, StepUnderway DEF Next, BoxStep

LEMMA TypesInductive == Spec => [](TypeInv /\ UnderwayInv)
<1>1. Init => TypeInv /\ UnderwayInv
  BY InitTypes DEF Init, UnderwayInv
<1>2. TypeInv /\ UnderwayInv /\ [Next]_vars => (TypeInv /\ UnderwayInv)'
  BY TypesKept, UnderwayKept
<1> QED BY <1>1, <1>2, PTL DEF Spec

----------------------------------------------------------------------------
(* What a request at work has done.                                        *)

LEMMA TheOnly == ASSUME OneAtATime, NEW q \in Requests PROVE \A p \in Requests : p = q
BY DEF OneAtATime

LEMMA CallsAre == CallInv => UnderwayInv
BY DEF CallInv, UnderwayInv, Working

LEMMA Accounted ==
  ASSUME OneAtATime, NEW q \in Requests,
         req'[q] # Free => Working(q)' /\ Read(q)' /\ (req'[q].sound => Done(q)')
  PROVE  CallInv'
BY TheOnly DEF CallInv

\* The parts of the configuration are its fields.
LEMMA Fields ==
  ASSUME TypeInv
  PROVE  /\ conf = [off |-> conf.off, names |-> conf.names, macs |-> conf.macs]
         /\ work = [off |-> work.off, names |-> work.names, macs |-> work.macs]
BY DEF TypeInv, Configs, Config

LEMMA StepCalls ==
  ASSUME OneAtATime, IInv, NEW q \in Requests, Step(q) \/ Fail(q)
  PROVE  CallInv'
<1> DEFINE c == req[q]
           r == req[q].radio
<1>0. req[q] # Free
  BY DEF Step, Fail, Stage, EnsureChannel, Commit, Reload, Listen, retireScan, Unlisten, ReadList,
         SetList, Await, Answer, Refuse, ListenNowhere, At
<1>1. /\ Working(q) /\ Read(q) /\ (c.sound => Done(q)) /\ TypeInv /\ CallInv /\ UnderwayInv
      /\ c.way \in {"scanner", "serve", "back"} /\ c.at \in Nat /\ r \in Radios
  BY <1>0, CallsAre, WhereIs DEF IInv, CallInv, Ways
<1>2. ASSUME req' = Next1(q)
      PROVE  /\ req'[q].radio = r /\ req'[q].way = c.way /\ req'[q].at = c.at + 1
             /\ req'[q].list = c.list /\ req'[q].sound = c.sound
  BY <1>0, <1>1, <1>2, GoesOn
<1>3. CASE Stage(q)
  <2>1. c.at = 1 /\ req' = Next1(q)
    BY <1>1, <1>3, CommandAt DEF Stage
  <2>2. work'.off = AfterList(work.off, r, Listens(c.way))
    BY <1>1, <1>3, Fields DEF Stage
  <2>3. r \in work'.off <=> Listens(c.way)
    BY <2>2 DEF AfterList
  <2>4. Working(q)'
    BY <1>1, <1>2, <1>3, <2>1 DEF Stage, Working, Underway, Last, told, daemon
  <2>5. Read(q)'
    BY <1>1, <1>2, <2>1 DEF Read, NamesAt
  <2>6. c.sound => Done(q)'
    BY <1>1, <1>2, <1>3, <2>1, <2>3 DEF Stage, Done, NamesAt, CommitAt, ReloadAt, netdev
  <2> QED BY <1>2, <2>1, <2>4, <2>5, <2>6, Accounted
<1>4. CASE EnsureChannel(q)
  <2>1. c.at = 2 /\ c.way = "serve" /\ req' = Next1(q)
    BY <1>1, <1>4, CommandAt DEF EnsureChannel
  <2>2. Working(q)' /\ Read(q)'
    BY <1>1, <1>2, <1>4, <2>1 DEF EnsureChannel, Working, Underway, Read, Last, NamesAt, told, daemon
  <2>3. c.sound => Done(q)'
    BY <1>1, <1>2, <1>4, <2>1 DEF EnsureChannel, Done, NamesAt, CommitAt, ReloadAt, uci, netdev, Listens
  <2> QED BY <1>2, <2>1, <2>2, <2>3, Accounted
<1>5. CASE Commit(q)
  <2>1. req' = Next1(q) /\ UNCHANGED <<work, netdev, daemon, hooks, told, bounds>>
    BY <1>5 DEF Commit
  <2>2. \/ c.at = CommitAt(c.way) /\ conf' = WirelessOf(conf, work)
        \/ (c.at = NamesAt(c.way) + 3 \/ (c.way = "serve" /\ c.at = 13)) /\ conf' = BoaOf(conf, work)
    BY <1>1, <1>5, CommandAt DEF Commit
  <2>3. CASE c.at = CommitAt(c.way) /\ conf' = WirelessOf(conf, work)
    <3>1. conf'.off = work.off /\ conf'.names = conf.names /\ conf'.macs = conf.macs
      BY <1>1, <2>3, Fields DEF WirelessOf
    <3>2. Working(q)' /\ Read(q)'
      BY <1>1, <1>2, <2>1, <2>3 DEF Working, Underway, Read, Last, NamesAt, CommitAt, told, daemon
    <3>3. c.sound => Done(q)'
      BY <1>1, <1>2, <2>1, <2>3, <3>1 DEF Done, NamesAt, CommitAt, ReloadAt, netdev, daemon
    <3> QED BY <1>2, <2>1, <3>2, <3>3, Accounted
  <2>4. CASE (c.at = NamesAt(c.way) + 3 \/ (c.way = "serve" /\ c.at = 13)) /\ conf' = BoaOf(conf, work)
    <3>1. conf'.off = conf.off /\ conf'.names = work.names /\ conf'.macs = work.macs
      BY <1>1, <2>4, Fields DEF BoaOf
    <3>2. Working(q)' /\ Read(q)'
      BY <1>1, <1>2, <2>1, <2>4 DEF Working, Underway, Read, Last, NamesAt, told, daemon
    <3>3. c.sound => Done(q)'
      BY <1>1, <1>2, <2>1, <2>4, <3>1 DEF Done, NamesAt, CommitAt, ReloadAt, netdev, daemon
    <3> QED BY <1>2, <2>1, <3>2, <3>3, Accounted
  <2> QED BY <2>2, <2>3, <2>4
<1>6. CASE Reload(q)
  <2>1. c.at = ReloadAt(c.way) /\ req' = Next1(q)
    BY <1>1, <1>6, CommandAt DEF Reload
  <2>2. Working(q)' /\ Read(q)'
    BY <1>1, <1>2, <1>6, <2>1 DEF Reload, Working, Underway, Read, Last, NamesAt, ReloadAt, uci, told, daemon
  <2>3. r \in conf.off => ap'[r] = "off"
    BY <1>1, <1>6 DEF Reload, Reloaded
  <2>4. c.sound => Done(q)'
    BY <1>1, <1>2, <1>6, <2>1, <2>3
       DEF Reload, Done, NamesAt, CommitAt, ReloadAt, uci, daemon, Listens
  <2> QED BY <1>2, <2>1, <2>2, <2>4, Accounted
<1>7. CASE Listen(q)
  <2>1. /\ req' = Next1(q)
        /\ (c.way = "scanner" /\ c.at = 4) \/ (c.way = "back" /\ c.at = 9)
    BY <1>1, <1>7, CommandAt DEF Listen
  <2>2. Working(q)' /\ Read(q)'
    BY <1>1, <1>2, <1>7, <2>1 DEF Listen, Working, Underway, Read, Last, NamesAt, uci, told, daemon
  <2>3. c.sound => Done(q)'
    BY <1>1, <1>2, <1>7, <2>1 DEF Listen, Done, NamesAt, CommitAt, ReloadAt, uci, daemon, Listens
  <2> QED BY <1>2, <2>1, <2>2, <2>3, Accounted
<1>8. CASE retireScan(q)
  <2>1. c.at = 4 /\ c.way = "serve" /\ req' = Next1(q)
    BY <1>1, <1>8, CommandAt DEF retireScan
  <2>2. Working(q)' /\ Read(q)'
    BY <1>1, <1>2, <1>8, <2>1 DEF retireScan, Working, Underway, Read, Last, NamesAt, uci, told
  <2>3. c.sound => Done(q)'
    BY <1>1, <1>2, <1>8, <2>1 DEF retireScan, Done, NamesAt, CommitAt, ReloadAt, uci, netdev, Listens
  <2> QED BY <1>2, <2>1, <2>2, <2>3, Accounted
<1>9. CASE Unlisten(q)
  <2>1. c.at = 5 /\ c.way = "serve" /\ req' = Next1(q)
    BY <1>1, <1>9, CommandAt DEF Unlisten
  <2>2. Working(q)' /\ Read(q)'
    BY <1>1, <1>2, <1>9, <2>1 DEF Unlisten, Working, Underway, Read, Last, NamesAt, uci, told, daemon
  <2>3. c.sound => Done(q)'
    BY <1>1, <1>2, <1>9, <2>1 DEF Unlisten, Done, NamesAt, CommitAt, ReloadAt, uci, daemon, Listens
  <2> QED BY <1>2, <2>1, <2>2, <2>3, Accounted
<1>10. CASE ReadList(q)
  <2>1. \/ c.at = NamesAt(c.way) - 1 /\ req' = [Next1(q) EXCEPT ![q].list = work.names]
        \/ c.at = NamesAt(c.way) + 1 /\ req' = [Next1(q) EXCEPT ![q].list = work.macs]
    BY <1>1, <1>10, CommandAt DEF ReadList
  <2>2. /\ req'[q].radio = r /\ req'[q].way = c.way /\ req'[q].at = c.at + 1
        /\ req'[q].sound = c.sound
        /\ req'[q].list = IF c.at = NamesAt(c.way) - 1 THEN work.names ELSE work.macs
    BY <1>1, <2>1 DEF TypeInv, Calls, Next1, NamesAt
  <2>3. Working(q)' /\ Read(q)'
    BY <1>1, <1>10, <2>1, <2>2 DEF ReadList, Working, Underway, Read, Last, NamesAt, uci, told, daemon
  <2>4. c.sound => Done(q)'
    BY <1>1, <1>10, <2>1, <2>2
       DEF ReadList, Done, NamesAt, CommitAt, ReloadAt, uci, netdev, daemon, Listens
  <2> QED BY <2>2, <2>3, <2>4, Accounted
<1>11. CASE SetList(q)
  <2> DEFINE after == AfterList(c.list, r, Listens(c.way))
  <2>1. \/ c.at = NamesAt(c.way) /\ work' = [work EXCEPT !.names = after]
        \/ /\ c.at = NamesAt(c.way) + 2
           /\ work' = IF r \in present THEN [work EXCEPT !.macs = after] ELSE work
    BY <1>1, <1>11, CommandAt DEF SetList
  <2>2. /\ req'[q].radio = r /\ req'[q].way = c.way /\ req'[q].at = c.at + 1
        /\ req'[q].sound = c.sound
    BY <1>1, <1>11 DEF SetList, TypeInv, Calls, Next1
  <2>3. r \in after <=> Listens(c.way)
    BY DEF AfterList
  <2>4. /\ work'.off = work.off
        /\ c.at = NamesAt(c.way) => work'.names = after /\ work'.macs = work.macs
        /\ c.at # NamesAt(c.way) => /\ work'.names = work.names
                                    /\ r \in present => work'.macs = after
    BY <1>1, <2>1, Fields DEF NamesAt
  <2> HIDE DEF after
  <2>5. Working(q)' /\ Read(q)'
    BY <1>1, <1>11, <2>1, <2>2 DEF SetList, Working, Underway, Read, Last, NamesAt, told, daemon
  <2>6. c.sound => Done(q)'
    BY <1>1, <1>11, <2>1, <2>2, <2>3, <2>4
       DEF SetList, Done, NamesAt, CommitAt, ReloadAt, netdev, daemon, Listens
  <2> QED BY <2>2, <2>5, <2>6, Accounted
<1>12. CASE Await(q)
  <2>1. c.at = 12 /\ c.way = "serve" /\ UNCHANGED <<uci, netdev, daemon, hooks, told, bounds>>
    BY <1>1, <1>12, CommandAt DEF Await
  <2>2. CASE req' = Next1(q)
    <3>1. Working(q)' /\ Read(q)'
      BY <1>1, <1>2, <2>1, <2>2 DEF Working, Underway, Read, Last, NamesAt, uci, told, daemon
    <3>2. c.sound => Done(q)'
      BY <1>1, <1>2, <2>1, <2>2 DEF Done, NamesAt, CommitAt, ReloadAt, uci, netdev, daemon, Listens
    <3> QED BY <1>2, <2>2, <3>1, <3>2, Accounted
  <2>3. CASE req' = [req EXCEPT ![q].way = "back", ![q].at = 1]
    <3>1. /\ req'[q].radio = r /\ req'[q].way = "back" /\ req'[q].at = 1
          /\ req'[q].sound = c.sound
      BY <1>1, <2>3 DEF TypeInv, Calls
    <3>2. Working(q)' /\ Read(q)'
      BY <1>1, <2>1, <3>1 DEF Working, Underway, Read, Last, NamesAt, told, daemon
    <3>3. c.sound => Done(q)'
      BY <1>1, <2>1, <3>1 DEF Done, NamesAt, CommitAt, ReloadAt, netdev
    <3> QED BY <3>1, <3>2, <3>3, Accounted
  <2> QED BY <1>12, <2>2, <2>3 DEF Await
<1>13. ASSUME req' = [req EXCEPT ![q] = Free] PROVE CallInv'
  BY <1>1, <1>13, Accounted DEF TypeInv, Calls
<1>14. CASE Fail(q)
  <2>1. CASE c.way # "back"
    BY <1>13, <1>14, <2>1 DEF Fail
  <2>2. CASE c.way = "back"
    <3>1. /\ c.at # 10 /\ c.at # NamesAt(c.way) - 1 /\ c.at # NamesAt(c.way) + 1
      <4>1. PICK command \in Fallible : At(q, command)
        BY <1>14 DEF Fail
      <4> QED BY <1>1, <2>2, <4>1, CommandAt DEF Fallible, NamesAt, CommitAt, ReloadAt
    <3>2. req' = [Next1(q) EXCEPT ![q].sound = FALSE]
      BY <1>14, <2>2 DEF Fail
    <3>3. /\ req'[q].radio = r /\ req'[q].way = "back" /\ req'[q].at = c.at + 1
          /\ ~req'[q].sound
      BY <1>1, <2>2, <3>2 DEF TypeInv, Calls, Next1
    <3>4. Working(q)' /\ Read(q)'
      BY <1>1, <1>14, <2>2, <3>1, <3>3 DEF Fail, Working, Underway, Read, Last, NamesAt, told, daemon
    <3> QED BY <3>3, <3>4, Accounted
  <2> QED BY <2>1, <2>2
<1> QED BY <1>3, <1>4, <1>5, <1>6, <1>7, <1>8, <1>9, <1>10, <1>11, <1>12, <1>13, <1>14
        DEF Step, Answer, Refuse, ListenNowhere, End

LEMMA AskCalls ==
  ASSUME OneAtATime, IInv, NEW q \in Requests, NEW r \in Radios,
         NEW way \in {"scanner", "serve"}, Ask(q, r, way)
  PROVE  CallInv'
<1>1. /\ req'[q].radio = r /\ req'[q].way = way /\ req'[q].at = 1
  BY AskTypes DEF IInv
<1>2. r \in present /\ up /\ r \in unfinished' /\ UNCHANGED <<uci, netdev, daemon>>
  BY DEF Ask, RadioThere
<1>3. Working(q)' /\ Read(q)'
  BY <1>1, <1>2 DEF Working, Underway, Read, Last, NamesAt, daemon
<1>4. Done(q)'
  BY <1>1, <1>2 DEF Done, NamesAt, CommitAt, ReloadAt, netdev
<1> QED BY <1>3, <1>4, Accounted

\* What ends the process ends the requests it serves.
LEMMA StoppedCalls == ASSUME TypeInv, Stopped PROVE CallInv'
BY StoppedTypes DEF CallInv

\* What matters of the box to a request at work.
LEMMA Undisturbed ==
  ASSUME TypeInv, CallInv, up' = up, req' = req, UNCHANGED <<work, unfinished>>,
         conf'.off \in {conf.off, work.off}, UNCHANGED <<conf.names, conf.macs>>,
         present \subseteq present', retired' = retired,
         \A r \in Radios : ap[r] = "off" => ap'[r] = "off",
         listening' \subseteq listening \cup {rebuilding},
         rebuilding' \in {rebuilding, NoRadio} \/ rebuilding' \notin retired
  PROVE  CallInv'
<1> SUFFICES ASSUME NEW q \in Requests, req[q] # Free
             PROVE  Working(q)' /\ Read(q)' /\ (req[q].sound => Done(q)')
  BY DEF CallInv
<1>1. Working(q) /\ Read(q) /\ (req[q].sound => Done(q))
  BY DEF CallInv
<1>2. Working(q)' /\ Read(q)'
  BY <1>1 DEF Working, Underway, Read
<1>3. ASSUME Done(q) PROVE Done(q)'
  <2>1. req[q].radio # NoRadio /\ req[q].radio \in Radios
    BY <1>1, NotFound DEF Working, Underway
  <2> DEFINE c == req[q]
             r == req[q].radio
  <2>2. c.at \in Nat
    BY DEF TypeInv, Calls
  <2>3. r \in present'
    BY <1>3 DEF Done
  <2>4. c.at > CommitAt(c.way) => (r \in conf'.off <=> Listens(c.way))
    BY <1>3, <2>2 DEF Done, CommitAt
  <2>5. Listens(c.way) /\ c.at > ReloadAt(c.way) => ap'[r] = "off"
    BY <1>3, <2>1 DEF Done
  <2>6. c.way = "serve" /\ c.at > 5 => r \notin listening' /\ r # rebuilding'
    BY <1>3, <2>1, <2>2 DEF Done
  <2> QED BY <1>3, <2>3, <2>4, <2>5, <2>6 DEF Done
<1> QED BY <1>1, <1>2, <1>3

LEMMA BoxCalls == ASSUME IInv, BoxStep PROVE CallInv'
<1>0. TypeInv /\ CallInv /\ UnderwayInv
  BY CallsAre DEF IInv
<1>1. CASE RestartFires \/ Crash \/ Reboot \/ \E r \in Radios : HookListens(r) \/ HookServes(r)
  BY <1>0, <1>1, StoppedCalls DEF RestartFires, Crash, Reboot, HookListens, HookServes
<1>2. CASE Start
  <2>1. \A q \in Requests : req[q] = Free
    BY <1>0, <1>2 DEF Start, CallInv, Working, Underway
  <2> QED BY <1>2, <2>1 DEF Start, CallInv
<1>3. CASE RebuildAdd
  BY <1>0, <1>3, Undisturbed DEF RebuildAdd, uci, told
<1>4. CASE PersistUCI
  <2>1. conf'.off = work.off /\ conf'.names = conf.names /\ conf'.macs = conf.macs
    BY <1>0, <1>4, Fields DEF PersistUCI, WirelessOf
  <2> QED BY <1>0, <1>4, <2>1, Undisturbed DEF PersistUCI, netdev, daemon, told
<1>5. ASSUME NEW r \in Radios, RebuildCheck(r) PROVE CallInv'
  BY <1>0, <1>5, Undisturbed DEF RebuildCheck, Rebuildable, uci, netdev, told
<1>6. ASSUME NEW r \in Radios, HookLeaves(r) PROVE CallInv'
  BY <1>0, <1>6, Undisturbed DEF HookLeaves, uci, netdev, daemon, told
<1>7. ASSUME NEW r \in Radios, Beacon(r) PROVE CallInv'
  <2>1. \A s \in Radios : ap[s] = "off" => ap'[s] = "off"
    BY <1>0, <1>7 DEF Beacon, TypeInv, Rest
  <2> QED BY <1>0, <1>7, <2>1, Undisturbed DEF Beacon, uci, daemon, told
<1>8. ASSUME NEW r \in Radios, Replug(r) PROVE CallInv'
  BY <1>0, <1>8, Undisturbed DEF Replug, uci, daemon, told
<1> QED BY <1>1, <1>2, <1>3, <1>4, <1>5, <1>6, <1>7, <1>8 DEF BoxStep, Hook

LEMMA UnplugCalls == ASSUME IInv, NEW r \in Radios, Unplug(r) PROVE CallInv'
<1>0. TypeInv /\ CallInv /\ UnderwayInv
  BY CallsAre DEF IInv
<1> SUFFICES ASSUME NEW q \in Requests, req'[q] # Free
             PROVE  Working(q)' /\ Read(q)' /\ (req'[q].sound => Done(q)')
  BY DEF CallInv
<1>1. /\ req[q] # Free /\ req'[q].radio = req[q].radio /\ req'[q].way = req[q].way
      /\ req'[q].at = req[q].at /\ req'[q].list = req[q].list
      /\ req'[q].sound => req[q].sound /\ req[q].radio # r
  BY <1>0, Unplugged
<1>2. Working(q) /\ Read(q) /\ (req[q].sound => Done(q))
  BY <1>0, <1>1 DEF CallInv
<1>3. Working(q)' /\ Read(q)'
  BY <1>1, <1>2 DEF Unplug, Working, Underway, Read, uci, daemon, told
<1>4. ASSUME req'[q].sound PROVE Done(q)'
  <2>1. Done(q) /\ req[q].radio # r
    BY <1>1, <1>2, <1>4
  <2>2. ap'[req[q].radio] = ap[req[q].radio]
    BY <1>0, <2>1 DEF Unplug, TypeInv, Rest
  <2> QED BY <1>1, <2>1, <2>2 DEF Unplug, Done, uci, daemon, told
<1> QED BY <1>3, <1>4

LEMMA CallsKept == ASSUME OneAtATime PROVE IInv /\ [Next]_vars => CallInv'
<1> SUFFICES ASSUME IInv, [Next]_vars PROVE CallInv'
  OBVIOUS
<1>1. CASE UNCHANGED vars
  BY <1>1 DEF vars, uci, netdev, daemon, told, IInv, CallInv, Working, Underway, Read, Done
<1> QED BY <1>1, AskCalls, StepCalls, BoxCalls, UnplugCalls DEF Next, BoxStep

LEMMA InitCalls == Init => CallInv
BY DEF Init, CallInv

----------------------------------------------------------------------------
(* What a settled radio keeps.                                             *)

LEMMA InitSettled == Init => SettledInv
BY NotFound DEF Init, SettledInv, InPlace, Listener, Server

\* A radio some list names.
Known(r) == r \in conf.names \/ r \in work.names \/ r \in work.macs

\* A radio in its place stays there whichever of the two packages is written from the
\* other or from what is staged, and whatever of what is recorded is listened with.
LEMMA Stays ==
  ASSUME NEW r \in Radios, InPlace(r), role'[r] = role[r],
         \/ r \in conf'.off <=> r \in conf.off
         \/ r \in conf'.off <=> r \in work.off,
         \/ r \in work'.off <=> r \in work.off
         \/ r \in work'.off <=> r \in conf.off,
         \/ r \in conf'.macs <=> r \in conf.macs
         \/ r \in conf'.macs <=> r \in work.macs,
         \/ r \in work'.macs <=> r \in work.macs
         \/ r \in work'.macs <=> r \in conf.macs,
         r \in conf'.names \/ r \in work'.names => Known(r),
         r \in ports' => Known(r) \/ (r \in ports /\ (r \in retired => r \in retired')),
         r \in listening' => Known(r) \/ r \in listening \/ r = rebuilding,
         r = rebuilding' => r = rebuilding \/ r \in ports \ retired,
         r \in conf.off /\ ap[r] = "off" => ap'[r] = "off"
  PROVE  InPlace(r)'
<1>1. CASE role[r] = "scanner"
  BY <1>1 DEF InPlace, Listener
<1>2. CASE role[r] # "scanner"
  BY <1>2 DEF InPlace, Server, Known
<1> QED BY <1>1, <1>2

\* A role change leaves the radios it is not about in their places.
LEMMA StepElsewhere ==
  ASSUME IInv, NEW q \in Requests, Step(q) \/ Fail(q),
         NEW r \in Radios \ unfinished
  PROVE  InPlace(r)'
<1>0. /\ TypeInv /\ CallInv /\ UnderwayInv /\ InPlace(r)
      /\ req[q] # Free => r # req[q].radio /\ req[q].radio \in Radios
  BY CallsAre DEF IInv, SettledInv, CallInv, Working, Underway
<1>1. req[q] # Free
  BY DEF Step, Fail, Stage, EnsureChannel, Commit, Reload, Listen, retireScan, Unlisten, ReadList,
         SetList, Await, Answer, Refuse, ListenNowhere, At
<1>2. CASE EnsureChannel(q) \/ ReadList(q) \/ Await(q) \/ ListenNowhere(q) \/ Fail(q)
  BY <1>0, <1>2, Stays
     DEF EnsureChannel, ReadList, Await, ListenNowhere, Fail, Known, uci, netdev, daemon, told
<1>3. CASE Stage(q)
  <2>1. work'.off = AfterList(work.off, req[q].radio, Listens(req[q].way))
        /\ work'.names = work.names /\ work'.macs = work.macs
    BY <1>0, <1>3, Fields DEF Stage
  <2>2. r \in work'.off <=> r \in work.off
    BY <1>0, <1>1, <2>1 DEF AfterList
  <2> QED BY <1>0, <1>3, <2>1, <2>2, Stays DEF Stage, Known, netdev, daemon, told
<1>4. CASE Commit(q)
  <2>1. \/ conf'.off = work.off /\ conf'.names = conf.names /\ conf'.macs = conf.macs
        \/ conf'.off = conf.off /\ conf'.names = work.names /\ conf'.macs = work.macs
    BY <1>0, <1>4, Fields DEF Commit, WirelessOf, BoaOf
  <2> QED BY <1>0, <1>4, <2>1, Stays DEF Commit, Known, netdev, daemon, told
<1>5. CASE Reload(q)
  <2>1. r \in conf.off => ap'[r] = "off"
    BY <1>5 DEF Reload, Reloaded
  <2> QED BY <1>0, <1>5, <2>1, Stays DEF Reload, Known, uci, daemon, told
<1>6. CASE Listen(q) \/ Unlisten(q)
  BY <1>0, <1>1, <1>6, Stays DEF Listen, Unlisten, Known, uci, daemon, told
<1>7. CASE retireScan(q)
  BY <1>0, <1>7, Stays DEF retireScan, Known, uci, netdev, told
<1>8. CASE SetList(q)
  <2> DEFINE after == AfterList(req[q].list, req[q].radio, Listens(req[q].way))
  <2>1. /\ Read(q)
        /\ \/ /\ req[q].at = NamesAt(req[q].way)
              /\ work' = [work EXCEPT !.names = after]
           \/ /\ req[q].at = NamesAt(req[q].way) + 2
              /\ work' = IF req[q].radio \in present THEN [work EXCEPT !.macs = after] ELSE work
    BY <1>0, <1>1, <1>8, CommandAt DEF SetList, CallInv
  <2>2. r \in after <=> r \in req[q].list
    BY <1>0, <1>1 DEF AfterList
  <2> HIDE DEF after
  <2>3. /\ work'.off = work.off
        /\ r \in work'.names <=> r \in work.names
        /\ r \in work'.macs <=> r \in work.macs
    BY <1>0, <2>1, <2>2, Fields DEF Read
  <2> QED BY <1>0, <1>8, <2>3, Stays DEF SetList, Known, netdev, daemon, told
<1>9. CASE Answer(q) \/ Refuse(q)
  <2>1. role'[r] = role[r]
    BY <1>0, <1>1, <1>9 DEF Answer, Refuse, End, TypeInv, Rest
  <2> QED BY <1>0, <1>9, <2>1, Stays DEF Answer, Refuse, Known, uci, netdev, daemon
<1> QED BY <1>2, <1>3, <1>4, <1>5, <1>6, <1>7, <1>8, <1>9 DEF Step

\* A role change that ends well leaves its own radio in its place.
LEMMA StepSettles ==
  ASSUME IInv, NEW q \in Requests, Step(q) \/ Fail(q),
         NEW r \in unfinished \ unfinished'
  PROVE  InPlace(r)'
<1> DEFINE c == req[q]
<1>0. TypeInv /\ CallInv /\ UnderwayInv
  BY CallsAre DEF IInv
<1>1. /\ Answer(q) \/ Refuse(q)
      /\ r = c.radio /\ c.sound
  BY DEF Step, Fail, Stage, EnsureChannel, Commit, Reload, Listen, retireScan, Unlisten, ReadList,
         SetList, Await, Answer, Refuse, End, ListenNowhere, told
<1>2. /\ Done(q) /\ c.at = Last(c.way) /\ r \in Radios
      /\ c.way \in {"scanner", "serve", "back"}
      /\ Answer(q) => c.way # "back"
      /\ Refuse(q) => c.way = "back"
  BY <1>0, <1>1, CommandAt, WhereIs DEF Answer, Refuse, CallInv, Ways
<1>3. /\ UNCHANGED <<conf, work, ap, listening, ports, retired, rebuilding>>
      /\ role'[r] = IF c.way = "serve" THEN "serve" ELSE "scanner"
  BY <1>0, <1>1, <1>2 DEF Answer, Refuse, End, TypeInv, Rest, uci, netdev, daemon
<1>4. CASE c.way = "serve"
  <2>1. c.at = 14 /\ ~Listens(c.way)
    BY <1>2, <1>4 DEF Last, Listens
  <2>2. /\ r \notin work.off /\ r \notin conf.off /\ r \notin work.names /\ r \notin work.macs
        /\ r \notin conf.names /\ r \notin conf.macs
        /\ r \in retired /\ r \notin listening /\ r # rebuilding
    BY <1>1, <1>2, <1>4, <2>1 DEF Done, CommitAt, NamesAt
  <2> QED BY <1>3, <1>4, <2>2 DEF InPlace, Server
<1>5. CASE c.way # "serve"
  <2>1. c.at = 10 /\ Listens(c.way)
    BY <1>2, <1>5 DEF Last, Listens
  <2>2. /\ r \in work.off /\ r \in conf.off /\ r \in work.macs /\ r \in conf.macs
        /\ ap[r] = "off"
    BY <1>1, <1>2, <1>5, <2>1 DEF Done, CommitAt, NamesAt, ReloadAt
  <2> QED BY <1>3, <1>5, <2>2 DEF InPlace, Listener
<1> QED BY <1>4, <1>5

\* What the hook makes of a radio it has no list to consult for: on a box with no onboard
\* radio, nothing.
LEMMA HookFollowsList ==
  ASSUME Onboard = {}, NEW r, NEW seen, ScannerByHook(r, seen)
  PROVE  r \in work.macs
BY DEF ScannerByHook, Heuristic

LEMMA HookSettled ==
  ASSUME Onboard = {}, IInv, NEW h \in Radios, Hook(h), NEW r \in Radios \ unfinished
  PROVE  InPlace(r)'
<1>0. TypeInv /\ InPlace(r)
  BY DEF IInv, SettledInv
<1>1. CASE HookListens(h)
  <2>1. h \in work.macs
    BY <1>1, HookFollowsList DEF HookListens
  <2>2. work' = [off |-> work.off \cup {h}, names |-> work.names \cup {h},
                 macs |-> work.macs \cup {h}]
        /\ conf' = work' /\ ap' = [ap EXCEPT ![h] = "off"] /\ Stopped
        /\ listening' = listening /\ role' = role
    BY <1>1 DEF HookListens, told
  <2>3. r = h => r \in work.off
    BY <1>0, <2>1 DEF InPlace, Listener, Server
  <2>4. ap[r] = "off" => ap'[r] = "off"
    BY <1>0, <2>2 DEF TypeInv, Rest
  <2> QED BY <1>0, <2>1, <2>2, <2>3, <2>4, Stays, NotFound DEF Stopped, Known, told
<1>2. CASE HookServes(h)
  <2>1. h \notin work.macs
    BY <1>2 DEF HookServes, ScannerByHook
  <2>2. work' = [work EXCEPT !.off = @ \ {h}] /\ conf' = WirelessOf(conf, work')
        /\ ap' = [ap EXCEPT ![h] = "starting"] /\ Stopped
        /\ listening' = listening /\ role' = role
    BY <1>2 DEF HookServes, told
  <2>3. /\ work'.off = work.off \ {h} /\ work'.names = work.names /\ work'.macs = work.macs
        /\ conf'.off = work.off \ {h} /\ conf'.names = conf.names /\ conf'.macs = conf.macs
    BY <1>0, <2>2, Fields DEF WirelessOf
  <2>4. r = h => r \notin work.off /\ r \notin conf.off
    BY <1>0, <2>1 DEF InPlace, Listener, Server
  <2>5. r \in conf.off /\ ap[r] = "off" => ap'[r] = "off"
    BY <1>0, <2>2, <2>4 DEF TypeInv, Rest
  <2> QED BY <1>0, <2>2, <2>3, <2>4, <2>5, Stays, NotFound DEF Stopped, Known, told
<1>3. CASE HookLeaves(h)
  BY <1>0, <1>3, Stays DEF HookLeaves, Known, uci, netdev, daemon, told
<1> QED BY <1>0, <1>1, <1>2, <1>3 DEF Hook

LEMMA BoxSettled ==
  ASSUME Onboard = {}, IInv, BoxStep, NEW r \in Radios \ unfinished
  PROVE  InPlace(r)'
<1>0. TypeInv /\ InPlace(r) /\ r # NoRadio
  BY NotFound DEF IInv, SettledInv
<1>1. CASE RestartFires \/ Crash
  BY <1>0, <1>1, Stays DEF RestartFires, Crash, Stopped, Known, uci, netdev, told
<1>2. CASE Reboot
  <2>1. r \in conf.off => ap'[r] = "off"
    BY <1>2 DEF Reboot
  <2> QED BY <1>0, <1>2, <2>1, Stays DEF Reboot, Stopped, Known, told
<1>3. CASE Start
  <2>1. r \in Resolved(work) => Known(r)
    BY DEF Resolved, Known
  <2>2. work'.off = work.off /\ work'.names = Resolved(work) /\ work'.macs = work.macs
    BY <1>0, <1>3, Fields DEF Start
  <2>3. /\ conf'.off = conf.off
        /\ conf'.names \in {conf.names, Resolved(work)} /\ conf'.macs \in {conf.macs, work.macs}
    BY <1>0, <1>3, <2>2, Fields DEF Start, BoaOf
  <2>4. /\ ports' = Resolved(work) /\ UNCHANGED <<ap, rebuilding, role>>
        /\ r \in listening' => r \in listening \/ r \in Resolved(work)
    BY <1>3 DEF Start, Ensured, told
  <2>5. r \in conf'.names \/ r \in work'.names \/ r \in ports' => Known(r)
    BY <2>1, <2>2, <2>3, <2>4 DEF Known
  <2>6. r \in listening' => Known(r) \/ r \in listening
    BY <2>1, <2>4
  <2> QED BY <1>0, <2>2, <2>3, <2>4, <2>5, <2>6, Stays
<1>4. CASE RebuildAdd
  BY <1>0, <1>4, Stays DEF RebuildAdd, Known, uci, told
<1>5. CASE PersistUCI
  <2>1. conf'.off = work.off /\ conf'.names = conf.names /\ conf'.macs = conf.macs
    BY <1>0, <1>5, Fields DEF PersistUCI, WirelessOf
  <2> QED BY <1>0, <1>5, <2>1, Stays DEF PersistUCI, Known, netdev, daemon, told
<1>6. ASSUME NEW s \in Radios, RebuildCheck(s) PROVE InPlace(r)'
  BY <1>0, <1>6, Stays DEF RebuildCheck, Rebuildable, Known, uci, netdev, told
<1>7. ASSUME NEW s \in Radios, Hook(s) PROVE InPlace(r)'
  BY <1>7, HookSettled
<1>8. ASSUME NEW s \in Radios, Beacon(s) PROVE InPlace(r)'
  <2>1. ap[r] = "off" => ap'[r] = "off"
    BY <1>0, <1>8 DEF Beacon, TypeInv, Rest
  <2> QED BY <1>0, <1>8, <2>1, Stays DEF Beacon, Known, uci, daemon, told
<1>9. ASSUME NEW s \in Radios, Replug(s) PROVE InPlace(r)'
  BY <1>0, <1>9, Stays DEF Replug, Known, uci, daemon, told
<1> QED BY <1>1, <1>2, <1>3, <1>4, <1>5, <1>6, <1>7, <1>8, <1>9 DEF BoxStep

LEMMA UnplugSettled ==
  ASSUME IInv, NEW s \in Radios, Unplug(s), NEW r \in Radios \ unfinished
  PROVE  InPlace(r)'
<1>0. TypeInv /\ InPlace(r)
  BY DEF IInv, SettledInv
<1>1. ap[r] = "off" => ap'[r] = "off"
  BY <1>0 DEF Unplug, TypeInv, Rest
<1> QED BY <1>0, <1>1, Stays DEF Unplug, Known, uci, daemon, told

LEMMA SettledKept ==
  ASSUME Onboard = {} PROVE IInv /\ [Next]_vars => SettledInv'
<1> SUFFICES ASSUME IInv, [Next]_vars, NEW r \in Radios, r \notin unfinished' PROVE InPlace(r)'
  BY DEF SettledInv
<1>0. TypeInv /\ (r \notin unfinished => InPlace(r))
  BY DEF IInv, SettledInv
<1>1. CASE UNCHANGED vars
  BY <1>0, <1>1 DEF vars, uci, netdev, daemon, told, InPlace, Listener, Server
<1>2. ASSUME NEW q \in Requests, Step(q) \/ Fail(q) PROVE InPlace(r)'
  BY <1>2, StepElsewhere, StepSettles
<1>3. ASSUME NEW q \in Requests, NEW s \in Radios, NEW way \in {"scanner", "serve"}, Ask(q, s, way)
      PROVE  InPlace(r)'
  BY <1>0, <1>3, Stays DEF Ask, Known, uci, netdev, daemon
<1>4. ASSUME BoxStep PROVE InPlace(r)'
  <2>1. unfinished' = unfinished
    BY <1>4 DEF BoxStep, RestartFires, Start, RebuildAdd, PersistUCI, Crash, Reboot, RebuildCheck,
                Hook, HookListens, HookServes, HookLeaves, Beacon, Replug, told
  <2> QED BY <1>4, <2>1, BoxSettled
<1>5. ASSUME NEW s \in Radios, Unplug(s) PROVE InPlace(r)'
  BY <1>5, UnplugSettled DEF Unplug, told
<1> QED BY <1>1, <1>2, <1>3, <1>4, <1>5 DEF Next, BoxStep

----------------------------------------------------------------------------
(* The theorems.                                                           *)

LEMMA Bounded == TypeInv /\ UnderwayInv => TypeOK
<1> SUFFICES ASSUME TypeInv, UnderwayInv PROVE TypeOK
  OBVIOUS
<1>1. req \in [Requests -> [radio : Radios \cup {NoRadio}, way : Ways, at : 0..14,
                            list : SUBSET Radios, sound : BOOLEAN]]
  <2> SUFFICES ASSUME NEW q \in Requests PROVE req[q].at \in 0..14
    BY DEF TypeInv, Calls
  <2>1. CASE req[q] = Free
    BY <2>1 DEF Free
  <2>2. CASE req[q] # Free
    BY <2>2, WhereIs DEF Last
  <2> QED BY <2>1, <2>2
<1>2. {conf, work} \subseteq Config
  BY DEF TypeInv, Configs
<1>3. {present, listening, ports, retired, hooks, unfinished} \subseteq SUBSET Radios
  BY DEF TypeInv, Sets
<1>4. /\ ap \in [Radios -> {"off", "starting", "up"}]
      /\ {up, restarting} \subseteq BOOLEAN
      /\ rebuilding \in Radios \cup {NoRadio}
      /\ role \in [Radios -> {"scanner", "serve"}]
  BY DEF TypeInv, Rest
<1> QED BY <1>1, <1>2, <1>3, <1>4 DEF TypeOK

LEMMA Inductive ==
  ASSUME OneAtATime, Onboard = {} PROVE Spec => []IInv
<1>1. Init => IInv
  BY InitTypes, InitCalls, InitSettled DEF IInv
<1>2. IInv /\ [Next]_vars => IInv'
  BY TypesKept, CallsAre, CallsKept, SettledKept DEF IInv
<1> QED BY <1>1, <1>2, PTL DEF Spec

(* The state has its types, and a request at work stands at one of its     *)
(* commands (SetRadioRole, scannerrole.go), however many are at work.      *)
THEOREM TypeCorrect == Spec => []TypeOK
BY TypesInductive, Bounded, PTL

(* No radio whose role is settled has an access point and a listen-only    *)
(* interface side by side (SetRadioRole, retireScan, and                   *)
(* rebuildMissingScanIfaces of scannerrole.go; the hook 20-boa-radio).     *)
THEOREM NothingBesideAListener ==
  ASSUME OneAtATime, Onboard = {} PROVE Spec => []NotBoth
<1>1. IInv => NotBoth
  BY DEF IInv, SettledInv, InPlace, Listener, Server, NotBoth
<1> QED BY <1>1, Inductive, PTL

(* OpenWrt's configuration and boa's agree about every radio whose role is *)
(* settled, and with the role its caller was told (SetRadioRole, its       *)
(* commits and its way back; the hook 20-boa-radio).                       *)
THEOREM ConfigurationsAgree ==
  ASSUME OneAtATime, Onboard = {} PROVE Spec => []ConfigsAgree
<1>1. IInv => ConfigsAgree
  BY DEF IInv, TypeInv, Rest, SettledInv, InPlace, Listener, Server, ConfigsAgree
<1> QED BY <1>1, Inductive, PTL

(* A radio given back to serving is not made a scanner again by the hook:  *)
(* what its heuristic does on a box with an onboard radio, it cannot do    *)
(* without one (boa_scanner_phy in 20-boa-radio).                          *)
THEOREM GivenBackWithoutOnboard ==
  ASSUME OneAtATime, Onboard = {} PROVE Spec => []GivenBackStays
<1>1. IInv => GivenBackStays
  BY DEF IInv, SettledInv, InPlace, Server, GivenBackStays
<1> QED BY <1>1, Inductive, PTL
=============================================================================
