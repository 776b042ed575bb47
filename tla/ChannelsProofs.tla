---------------------------- MODULE ChannelsProofs ----------------------------
(***************************************************************************)
(* Theorems about Channels.                                                *)
(*                                                                         *)
(* TypeCorrect and PollsDropOnce hold of every instance, and               *)
(* AppliesWhatIsQuiet wherever those heard stand on channels of the band.  *)
(* The others hold where no scan meets another mover at work (~Overlap),   *)
(* and each names the disturbances that would defeat it.                   *)
(***************************************************************************)
EXTENDS Channels, TLAPS, WellFoundedInduction, FiniteSetTheorems

----------------------------------------------------------------------------
(* The parameters of hostapd.                                              *)

Parameters ==
  [mode : Int, vht : Int, channel : Int, side : Int,
   vhtWidth : Int, heWidth : Int, vhtCentre : Int, heCentre : Int]

\* The radio stands on a channel of the table, whatever else is set.
Placed == {p \in Parameters : p.channel \in Offered}

LEMMA ConfiguredType ==
  ASSUME NEW c \in Offered, NEW w \in Nat
  PROVE  Configured(c, w) \in Placed /\ Configured(c, w).channel = c
BY DEF Configured, Placed, Parameters, Offered, LowBlock, HighBlock, SecOffset, Centre80, Is24

\* hostapd takes what setChannelCommands sends for a channel and a width the
\* table has.
LEMMA ConfiguredCoherent ==
  ASSUME NEW c \in Offered, NEW w \in Nat, w <= MaxWidth(c)
  PROVE  Coherent(Configured(c, w))
BY DEF Configured, Offered, LowBlock, HighBlock, SecOffset, Centre80, Is24, Coherent, MaxWidth

LEMMA ParametersDomain ==
  ASSUME NEW p \in Parameters
  PROVE  DOMAIN p = Params
<1>1. Params = {Order[1], Order[2], Order[3], Order[4], Order[5], Order[6], Order[7], Order[8]}
  BY DEF Params
<1>2. QED
  BY <1>1 DEF Parameters, Order

\* One SET changes one parameter.
LEMMA SetOne ==
  ASSUME NEW p \in Parameters, NEW k \in 1..8, NEW v \in Int
  PROVE  /\ [p EXCEPT ![Order[k]] = v] \in Parameters
         /\ [p EXCEPT ![Order[k]] = v][Order[k]] = v
         /\ \A j \in 1..8 : j # k => [p EXCEPT ![Order[k]] = v][Order[j]] = p[Order[j]]
BY DEF Order, Parameters

LEMMA Commands ==
  ASSUME NEW c \in Offered, NEW w \in Nat
  PROVE  /\ Len(SetCommands(c, w)) = 8
         /\ \A k \in 1..8 :
              SetCommands(c, w)[k] = <<Order[k], Configured(c, w)[Order[k]]>>
BY DEF SetCommands

\* A SET of the commands keeps the radio on a channel of the table.
LEMMA SetPlaced ==
  ASSUME NEW p \in Placed, NEW c \in Offered, NEW w \in Nat, NEW k \in 1..8
  PROVE  [p EXCEPT ![Order[k]] = Configured(c, w)[Order[k]]] \in Placed
<1> DEFINE q == Configured(c, w)
           v == q[Order[k]]
<1>1. q \in Parameters /\ q.channel \in Offered
  BY ConfiguredType DEF Placed
<1> HIDE DEF q
<1>2. v \in Int
  BY <1>1 DEF Parameters, Order
<1>3. [p EXCEPT ![Order[k]] = v].channel \in {p.channel, q.channel}
  BY <1>1 DEF Placed, Parameters, Order
<1> HIDE DEF v
<1>4. QED
  BY <1>1, <1>2, <1>3, SetOne DEF Placed, v, q

\* The eight parameters are all there is.
LEMMA SetAll ==
  ASSUME NEW p \in Parameters, NEW c \in Offered, NEW w \in Nat,
         \A i \in 1..8 : p[Order[i]] = Configured(c, w)[Order[i]]
  PROVE  p = Configured(c, w)
<1> DEFINE q == Configured(c, w)
<1>1. q \in Parameters
  BY ConfiguredType DEF Placed
<1>2. \A i \in 1..8 : p[Order[i]] = q[Order[i]]
  OBVIOUS
<1> HIDE DEF q
<1>3. /\ p.mode = q.mode /\ p.vht = q.vht /\ p.channel = q.channel /\ p.side = q.side
      /\ p.vhtWidth = q.vhtWidth /\ p.heWidth = q.heWidth
      /\ p.vhtCentre = q.vhtCentre /\ p.heCentre = q.heCentre
  BY <1>2 DEF Order
<1>4. QED
  BY <1>1, <1>3 DEF Parameters, q

\* The partner of a channel of the table is on it.
LEMMA PartnerOffered ==
  ASSUME NEW c \in Offered, SecOffset(c) # 0
  PROVE  Partner(c) \in Offered
<1>1. CASE c \in LowBlock
  BY <1>1 DEF Partner, SecOffset, Offered, LowBlock, HighBlock
<1>2. CASE c \in HighBlock
  BY <1>2 DEF Partner, SecOffset, Offered, LowBlock, HighBlock
<1>3. CASE c \in {1, 6, 11, 165}
  BY <1>3 DEF SecOffset
<1>4. QED
  BY <1>1, <1>2, <1>3 DEF Offered

LEMMA NarrowedType ==
  ASSUME NEW p \in Parameters
  PROVE  Narrowed(p) \in Parameters /\ Narrowed(p).channel = p.channel
<1> DEFINE p1 == [p  EXCEPT !.side = 0]
           p2 == [p1 EXCEPT !.vhtWidth = 0]
           p3 == [p2 EXCEPT !.heWidth = 0]
           p4 == [p3 EXCEPT !.vhtCentre = p.channel]
           p5 == [p4 EXCEPT !.heCentre = p.channel]
<1>0. p.channel \in Int
  BY DEF Parameters
<1>1. p1 \in Parameters /\ p1.channel = p.channel
  BY DEF Parameters
<1>2. p2 \in Parameters /\ p2.channel = p.channel
  <2> HIDE DEF p1
  <2> QED BY <1>1 DEF Parameters
<1>3. p3 \in Parameters /\ p3.channel = p.channel
  <2> HIDE DEF p2
  <2> QED BY <1>2 DEF Parameters
<1>4. p4 \in Parameters /\ p4.channel = p.channel
  <2> HIDE DEF p3
  <2> QED BY <1>0, <1>3 DEF Parameters
<1>5. p5 \in Parameters /\ p5.channel = p.channel
  <2> HIDE DEF p4
  <2> QED BY <1>0, <1>4 DEF Parameters
<1>6. Narrowed(p) = p5
  BY DEF Narrowed
<1>7. QED
  BY <1>5, <1>6

\* Where an access point comes up is on the table too.
LEMMA LandsPlaced ==
  ASSUME NEW p \in Placed, Coherent(p), NEW q \in Landings(p)
  PROVE  q \in Placed
<1>1. CASE q = p
  BY <1>1
<1>2. CASE q = Swapped(p) /\ p.side # 0
  <2>1. p.side = SecOffset(p.channel) /\ p.side \in Int /\ p.channel \in Offered
    BY <1>2 DEF Coherent, Placed, Parameters
  <2>2. p.channel + 4 * p.side \in Offered
    BY <1>2, <2>1, PartnerOffered DEF Partner
  <2>3. Swapped(p) \in Parameters /\ Swapped(p).channel = p.channel + 4 * p.side
    <3>1. p.channel + 4 * p.side \in Int /\ -p.side \in Int
      BY <2>1 DEF Offered, LowBlock, HighBlock
    <3>2. QED
      BY <3>1 DEF Swapped, Placed, Parameters
  <2>4. QED
    BY <1>2, <2>2, <2>3 DEF Placed
<1>3. CASE q = Narrowed(p)
  <2>1. p.channel \in Int /\ p \in Parameters /\ p.channel \in Offered
    BY DEF Placed, Parameters
  <2>2. Narrowed(p) \in Parameters /\ Narrowed(p).channel = p.channel
    BY <2>1, NarrowedType
  <2>3. QED
    BY <1>3, <2>1, <2>2 DEF Placed
<1>4. QED
  BY <1>1, <1>2, <1>3 DEF Landings

LEMMA HomePlaced == Home \in Placed /\ Coherent(Home) /\ Home.channel = ConfigChannel
BY ConfigAssumption, ConfiguredType, ConfiguredCoherent DEF Home

LEMMA ComeUpPlaced ==
  ASSUME par \in Placed, air \in Placed \cup {None}, ComeUp
  PROVE  par' \in Placed /\ air' \in Placed \cup {None}
BY LandsPlaced DEF ComeUp

LEMMA WidthType == ASSUME NEW p PROVE WidthOf(p) \in {20, 40, 80}
BY DEF WidthOf

LEMMA MaxWidthType == ASSUME NEW c PROVE MaxWidth(c) \in {20, 40, 80}
BY DEF MaxWidth

----------------------------------------------------------------------------
(* What an action does to a mover's job, field by field.                   *)

Jobs ==
  [at : Stages, ch : {0} \cup Offered, w : Nat,
   mode : {"announce", "restart", "apply", "poll"}, was : BOOLEAN,
   from : {0} \cup Offered, k : 1..8, why : Whys, refused : BOOLEAN,
   hurt : BOOLEAN, heard : Airs \cup {<<>>}]

JobsOK == job \in [Movers -> Jobs]
Alone(m) == \A n \in Movers : n # m => job'[n] = job[n]

\* The fields an action on m leaves alone.
SameTask(m)   == job'[m].ch = job[m].ch /\ job'[m].w = job[m].w
SameScan(m)   == job'[m].mode = job[m].mode /\ job'[m].hurt = job[m].hurt
SameAir(m)    == job'[m].heard = job[m].heard
SameStatus(m) == job'[m].was = job[m].was /\ job'[m].from = job[m].from
SameSets(m)   == job'[m].k = job[m].k /\ job'[m].refused = job[m].refused

LEMMA IdleType == Idle \in Jobs
BY DEF Idle, Jobs, Stages, Whys

LEMMA JobPut ==
  ASSUME JobsOK, NEW m \in Movers, NEW r \in Jobs, job' = [job EXCEPT ![m] = r]
  PROVE  JobsOK' /\ Alone(m) /\ job'[m] = r
BY DEF JobsOK, Alone

LEMMA GoJob ==
  ASSUME JobsOK, NEW m \in Movers, NEW stage \in Stages, Go(m, stage)
  PROVE  /\ JobsOK' /\ Alone(m) /\ job'[m].at = stage
         /\ SameTask(m) /\ SameScan(m) /\ SameStatus(m) /\ SameSets(m)
         /\ SameAir(m)
<1> DEFINE r == [job[m] EXCEPT !.at = stage]
<1>1. job[m] \in Jobs
  BY DEF JobsOK
<1>2. r \in Jobs
  BY <1>1 DEF Jobs
<1>3. job' = [job EXCEPT ![m] = r]
  BY DEF Go
<1>4. r.at = stage
  BY <1>1 DEF Jobs
<1>5. /\ r.ch = job[m].ch /\ r.w = job[m].w /\ r.mode = job[m].mode /\ r.hurt = job[m].hurt
      /\ r.was = job[m].was /\ r.from = job[m].from /\ r.k = job[m].k
      /\ r.refused = job[m].refused /\ r.heard = job[m].heard
  BY <1>1 DEF Jobs
<1> HIDE DEF r
<1>6. QED
  BY <1>2, <1>3, <1>4, <1>5, JobPut DEF SameTask, SameScan, SameStatus, SameSets,
                                           SameAir

LEMMA ReadStatusJob ==
  ASSUME JobsOK, par \in Placed, NEW m \in Movers, ReadStatus(m)
  PROVE  /\ JobsOK' /\ Alone(m) /\ job[m].at = "status"
         /\ job'[m].at \in {"announce", "down"}
         /\ job'[m].at = "announce" => job'[m].was
         /\ job'[m].was => air # None
         /\ "status" \notin Kinds => job'[m].was = (air # None)
         /\ SameTask(m) /\ SameScan(m) /\ SameSets(m)
<1>1. job[m] \in Jobs
  BY DEF JobsOK
<1>2. PICK answered \in BOOLEAN :
        LET was == answered /\ air # None
            announce == job[m].mode # "restart" /\ was /\ ~condemned
        IN  /\ IF answered THEN Keep ELSE Spend("status")
            /\ job' = [job EXCEPT ![m] =
                         [@ EXCEPT !.was = was, !.from = IF answered THEN par.channel ELSE 0,
                                   !.at = IF announce THEN "announce" ELSE "down"]]
  BY DEF ReadStatus
<1> DEFINE was  == answered /\ air # None
           from == IF answered THEN par.channel ELSE 0
           at   == IF job[m].mode # "restart" /\ was /\ ~condemned THEN "announce" ELSE "down"
           r == [job[m] EXCEPT !.was = was, !.from = from, !.at = at]
<1>3. was \in BOOLEAN /\ from \in {0} \cup Offered /\ at \in {"announce", "down"}
  BY DEF Placed
<1>4. "status" \notin Kinds => answered
  BY <1>2 DEF Spend
<1>5. job' = [job EXCEPT ![m] = r]
  BY <1>2
<1>6. (at = "announce" => was) /\ (was => air # None) /\ (answered => was = (air # None))
  OBVIOUS
<1> HIDE DEF was, from, at
<1>7. r \in Jobs
  BY <1>1, <1>3 DEF Jobs, Stages
<1>8. /\ r.at = at /\ r.was = was
      /\ r.ch = job[m].ch /\ r.w = job[m].w /\ r.mode = job[m].mode /\ r.hurt = job[m].hurt
      /\ r.k = job[m].k /\ r.refused = job[m].refused
  BY <1>1 DEF Jobs
<1>9. job[m].at = "status"
  BY DEF ReadStatus
<1> HIDE DEF r
<1>10. JobsOK' /\ Alone(m) /\ job'[m] = r
  BY <1>5, <1>7, JobPut
<1>11. SameTask(m) /\ SameScan(m) /\ SameSets(m)
  BY <1>8, <1>10 DEF SameTask, SameScan, SameSets
<1>12. QED
  BY <1>3, <1>4, <1>6, <1>8, <1>9, <1>10, <1>11

LEMMA DoneJob ==
  ASSUME JobsOK, NEW m \in Movers, Done(m)
  PROVE  JobsOK' /\ Alone(m) /\ job'[m] = Idle
BY IdleType, JobPut DEF Done

LEMMA FieldsIdle ==
  /\ Idle.at = "idle" /\ Idle.w = 0 /\ Idle.k = 1 /\ Idle.refused = FALSE
  /\ Idle.was = FALSE /\ Idle.mode = "announce" /\ Idle.hurt = FALSE /\ Idle.ch = 0
BY DEF Idle

\* An announcement that fails, before or after hostapd's reply.
LEMMA WhyJob ==
  ASSUME JobsOK, NEW m \in Movers, NEW why \in Whys, NEW stage \in {"count", "down"},
         job' = [job EXCEPT ![m] = [@ EXCEPT !.why = why, !.at = stage]]
  PROVE  /\ JobsOK' /\ Alone(m) /\ job'[m].at = stage
         /\ SameTask(m) /\ SameScan(m) /\ SameStatus(m) /\ SameSets(m)
<1> DEFINE r == [job[m] EXCEPT !.why = why, !.at = stage]
<1>1. job[m] \in Jobs
  BY DEF JobsOK
<1>2. r \in Jobs
  BY <1>1 DEF Jobs, Stages
<1>3. /\ r.at = stage
      /\ r.ch = job[m].ch /\ r.w = job[m].w /\ r.mode = job[m].mode /\ r.hurt = job[m].hurt
      /\ r.was = job[m].was /\ r.from = job[m].from /\ r.k = job[m].k
      /\ r.refused = job[m].refused
  BY <1>1 DEF Jobs
<1>4. job' = [job EXCEPT ![m] = r]
  OBVIOUS
<1> HIDE DEF r
<1>5. JobsOK' /\ Alone(m) /\ job'[m] = r
  BY <1>2, <1>4, JobPut
<1>6. QED
  BY <1>3, <1>5 DEF SameTask, SameScan, SameStatus, SameSets

LEMMA AnnounceJob ==
  ASSUME JobsOK, NEW m \in Movers, Announce(m)
  PROVE  /\ JobsOK' /\ Alone(m)
         /\ job[m].at = "announce" /\ job'[m].at \in {"count", "down"}
         /\ SameTask(m) /\ SameScan(m) /\ SameStatus(m) /\ SameSets(m)
<1> DEFINE why == IF ~Announceable(job[m].ch, job[m].w) THEN "malformed"
                  ELSE IF csa = "refuses" THEN "refused" ELSE "none"
           stage == IF why = "none" THEN "count" ELSE "down"
<1>1. why \in Whys
  BY DEF Whys
<1>2. /\ job[m].at = "announce"
      /\ job' = [job EXCEPT ![m] = [@ EXCEPT !.why = why, !.at = stage]]
  BY DEF Announce
<1> HIDE DEF why
<1>3. stage \in {"count", "down"}
  OBVIOUS
<1> HIDE DEF stage
<1>4. QED
  BY <1>1, <1>2, <1>3, WhyJob

\* A countdown ends in a remembered move or in a restart.
LEMMA ConfirmJob ==
  ASSUME JobsOK, NEW m \in Movers, Confirm(m)
  PROVE  /\ JobsOK' /\ Alone(m) /\ job[m].at \in {"count", "counted"}
         /\ \/ /\ job'[m] = Idle /\ Done(m)
               /\ par.channel = job[m].ch
               /\ Remember(job[m].ch, job[m].w, job[m].ch)
            \/ /\ job'[m].at = "down" /\ UNCHANGED <<store, lock, restore>>
               /\ SameTask(m) /\ SameScan(m) /\ SameStatus(m) /\ SameSets(m)
<1>1. job[m].at \in {"count", "counted"}
  BY DEF Confirm
<1>2. CASE /\ par.channel = job[m].ch
           /\ Remember(job[m].ch, job[m].w, job[m].ch)
           /\ Done(m)
  BY <1>1, <1>2, DoneJob
<1>3. ASSUME NEW y \in {"stayed", "unasked"},
             job' = [job EXCEPT ![m] = [@ EXCEPT !.at = "down", !.why = y]],
             UNCHANGED <<store, lock, restore>>
      PROVE  /\ JobsOK' /\ Alone(m) /\ job'[m].at = "down"
             /\ SameTask(m) /\ SameScan(m) /\ SameStatus(m) /\ SameSets(m)
  <2>1. [job[m] EXCEPT !.at = "down", !.why = y] = [job[m] EXCEPT !.why = y, !.at = "down"]
    BY DEF JobsOK, Jobs
  <2>2. job' = [job EXCEPT ![m] = [@ EXCEPT !.why = y, !.at = "down"]]
    BY <1>3, <2>1
  <2>3. y \in Whys
    BY DEF Whys
  <2>4. QED
    BY <2>2, <2>3, WhyJob
<1>4. QED
  BY <1>1, <1>2, <1>3 DEF Confirm

LEMMA SetStep ==
  ASSUME JobsOK, NEW m \in Movers, Set(m), job[m].ch \in Offered
  PROVE  /\ JobsOK' /\ Alone(m) /\ job[m].at = "set"
         /\ SameTask(m) /\ SameScan(m) /\ SameStatus(m) /\ SameAir(m)
         /\ \/ /\ par' = par /\ job'[m].at = "enable" /\ job'[m].refused
               /\ Order[job[m].k] = refusing
            \/ /\ par' = [par EXCEPT ![Order[job[m].k]] =
                             Configured(job[m].ch, job[m].w)[Order[job[m].k]]]
               /\ job'[m].refused = job[m].refused
               /\ \/ job[m].k = 8 /\ job'[m].at = "enable"
                  \/ job[m].k < 8 /\ job'[m].at = "set" /\ job'[m].k = job[m].k + 1
<1> DEFINE k   == job[m].k
           cmd == SetCommands(job[m].ch, job[m].w)[k]
           v   == Configured(job[m].ch, job[m].w)[Order[k]]
<1>1. job[m] \in Jobs /\ k \in 1..8 /\ job[m].w \in Nat
  BY DEF JobsOK, Jobs
<1>2. cmd = <<Order[k], v>> /\ Len(SetCommands(job[m].ch, job[m].w)) = 8
  BY <1>1, Commands
<1>3. cmd[1] = Order[k] /\ cmd[2] = v
  BY <1>2
<1>4. job[m].at = "set"
  BY DEF Set
<1>5. CASE cmd[1] = refusing
  <2> DEFINE r == [job[m] EXCEPT !.at = "enable", !.refused = TRUE]
  <2>1. job' = [job EXCEPT ![m] = r] /\ par' = par
    BY <1>5 DEF Set
  <2>2. r \in Jobs
    BY <1>1 DEF Jobs, Stages
  <2>3. /\ r.at = "enable" /\ r.refused
        /\ r.ch = job[m].ch /\ r.w = job[m].w /\ r.mode = job[m].mode /\ r.hurt = job[m].hurt
        /\ r.was = job[m].was /\ r.from = job[m].from /\ r.heard = job[m].heard
    BY <1>1 DEF Jobs
  <2> HIDE DEF r
  <2>4. JobsOK' /\ Alone(m) /\ job'[m] = r
    BY <2>1, <2>2, JobPut
  <2>5. QED
    BY <1>3, <1>4, <1>5, <2>1, <2>3, <2>4 DEF SameTask, SameScan, SameStatus, SameAir
<1>6. CASE cmd[1] # refusing
  <2> DEFINE at == IF k = 8 THEN "enable" ELSE "set"
             n  == IF k = 8 THEN 1 ELSE k + 1
             r  == [job[m] EXCEPT !.at = at, !.k = n]
  <2>1. job' = [job EXCEPT ![m] = r] /\ par' = [par EXCEPT ![Order[k]] = v]
    <3> DEFINE len == Len(SetCommands(job[m].ch, job[m].w))
               x   == [job[m] EXCEPT !.at = IF k = len THEN "enable" ELSE "set",
                                     !.k  = IF k = len THEN 1 ELSE k + 1]
    <3>1. par' = [par EXCEPT ![cmd[1]] = cmd[2]]
      BY <1>6 DEF Set
    <3>2. job' = [job EXCEPT ![m] = x]
      BY <1>6 DEF Set
    <3>3. len = 8
      BY <1>2
    <3>4. r = x
      <4> HIDE DEF len
      <4>1. QED
        BY <3>3
    <3> HIDE DEF len, cmd, v, x, r
    <3>5. QED
      BY <1>3, <3>1, <3>2, <3>4
  <2>2. /\ at \in {"enable", "set"} /\ n \in 1..8
        /\ \/ k = 8 /\ at = "enable"
           \/ k < 8 /\ at = "set" /\ n = k + 1
    BY <1>1
  <2> HIDE DEF at, n
  <2>3. r \in Jobs
    BY <1>1, <2>2 DEF Jobs, Stages
  <2>4. /\ r.at = at /\ r.k = n /\ r.refused = job[m].refused
        /\ r.ch = job[m].ch /\ r.w = job[m].w /\ r.mode = job[m].mode /\ r.hurt = job[m].hurt
        /\ r.was = job[m].was /\ r.from = job[m].from /\ r.heard = job[m].heard
    BY <1>1 DEF Jobs
  <2> HIDE DEF r
  <2>5. JobsOK' /\ Alone(m) /\ job'[m] = r
    BY <2>1, <2>3, JobPut
  <2>6. SameTask(m) /\ SameScan(m) /\ SameStatus(m) /\ SameAir(m)
        /\ job'[m].refused = job[m].refused
    BY <2>4, <2>5 DEF SameTask, SameScan, SameStatus, SameAir
  <2>7. QED
    BY <1>4, <2>1, <2>2, <2>4, <2>5, <2>6
<1>7. QED
  BY <1>5, <1>6

----------------------------------------------------------------------------
(* What a scan recommends is on the table (PickBestChannel).               *)

\* Some member of S scores least.
HasLeast(f, S) == \E c \in S : \A d \in S : f[c] <= f[d]

LEMMA LeastOfOne ==
  ASSUME NEW f, NEW c, f[c] \in Int
  PROVE  HasLeast(f, {c})
BY DEF HasLeast

LEMMA LeastOfTwo ==
  ASSUME NEW f, NEW S, NEW T, \A c \in S \cup T : f[c] \in Int,
         HasLeast(f, S), HasLeast(f, T)
  PROVE  HasLeast(f, S \cup T)
<1>1. PICK x \in S : \A d \in S : f[x] <= f[d]
  BY DEF HasLeast
<1>2. PICK z \in T : \A d \in T : f[z] <= f[d]
  BY DEF HasLeast
<1>3. CASE f[x] <= f[z]
  <2>1. \A d \in T : f[x] <= f[d]
    BY <1>2, <1>3
  <2>2. QED
    BY <1>1, <2>1 DEF HasLeast
<1>4. CASE ~(f[x] <= f[z])
  <2>1. \A d \in S : f[z] <= f[d]
    BY <1>1, <1>4
  <2>2. QED
    BY <1>2, <2>1 DEF HasLeast
<1>5. QED
  BY <1>3, <1>4

\* Of the channels of one band one scores least.
LEMMA LeastOfBand ==
  ASSUME NEW f, \A c \in Offered : f[c] \in Int, NEW band24 \in BOOLEAN
  PROVE  HasLeast(f, {d \in Offered : Is24(d) = band24})
<1> DEFINE low  == ({36} \cup {40}) \cup ({44} \cup {48})
           high == ({149} \cup {153}) \cup ({157} \cup {161})
           far  == ({1} \cup {6}) \cup {11}
<1>1. Offered = (far \cup {165}) \cup (low \cup high)
  BY DEF Offered, LowBlock, HighBlock
<1>2. \A c \in far \cup {165} \cup low \cup high : HasLeast(f, {c}) /\ f[c] \in Int
  BY <1>1, LeastOfOne
<1>3. HasLeast(f, far)
  <2>1. HasLeast(f, {1} \cup {6})
    BY <1>2, LeastOfTwo
  <2>2. QED
    BY <1>2, <2>1, LeastOfTwo
<1>4. HasLeast(f, low)
  <2>1. HasLeast(f, {36} \cup {40}) /\ HasLeast(f, {44} \cup {48})
    BY <1>2, LeastOfTwo
  <2>2. QED
    BY <1>2, <2>1, LeastOfTwo
<1>5. HasLeast(f, high)
  <2>1. HasLeast(f, {149} \cup {153}) /\ HasLeast(f, {157} \cup {161})
    BY <1>2, LeastOfTwo
  <2>2. QED
    BY <1>2, <2>1, LeastOfTwo
<1>6. {d \in Offered : Is24(d)} = far /\ {d \in Offered : ~Is24(d)} = (low \cup high) \cup {165}
  BY <1>1 DEF Is24
<1> HIDE DEF far, low, high
<1>7. HasLeast(f, low \cup high)
  BY <1>2, <1>4, <1>5, LeastOfTwo
<1>8. HasLeast(f, (low \cup high) \cup {165})
  BY <1>2, <1>7, LeastOfTwo
<1>9. CASE band24 = TRUE
  <2>1. {d \in Offered : Is24(d) = band24} = far
    BY <1>6, <1>9 DEF Is24
  <2>2. QED
    BY <1>3, <2>1
<1>10. CASE band24 = FALSE
  <2>1. {d \in Offered : Is24(d) = band24} = (low \cup high) \cup {165}
    BY <1>6, <1>10 DEF Is24
  <2>2. QED
    BY <1>8, <2>1
<1>11. QED
  BY <1>9, <1>10

LEMMA LeastNat ==
  ASSUME NEW S \in SUBSET Nat, S # {}
  PROVE  Min(S) \in S /\ \A y \in S : Min(S) <= y
<1>1. PICK x \in S : \A y \in S : ~(<<y, x>> \in OpToRel(<, Nat))
  BY NatLessThanWellFounded, WFMin
<1>2. \A y \in S : ~(y < x)
  BY <1>1 DEF OpToRel
<1>3. \A y \in S : x <= y
  BY <1>2
<1>4. QED
  BY <1>3 DEF Min

\* The recommended channel of a band scores least.
LEMMA LeastOfPicked ==
  ASSUME NEW heard, NEW band24 \in BOOLEAN, \A c \in Offered : Score(heard, c) \in Int
  PROVE  LET best == PickBestChannel(heard, band24)
         IN  /\ best \in Offered /\ Is24(best) = band24
             /\ \A c \in Offered : Is24(c) = band24 => Score(heard, best) <= Score(heard, c)
<1> DEFINE f == [c \in Offered |-> Score(heard, c)]
           candidates == {c \in Offered : Is24(c) = band24}
           scores == {Score(heard, c) : c \in candidates}
           least  == Min(scores)
           best   == {c \in candidates : Score(heard, c) = least}
<1>1. \A c \in Offered : f[c] \in Int /\ f[c] = Score(heard, c)
  OBVIOUS
<1>2. HasLeast(f, candidates)
  <2> HIDE DEF f
  <2>1. QED
    BY <1>1, LeastOfBand
<1>3. \E x \in scores : \A y \in scores : x <= y
  <2> HIDE DEF f
  <2>1. QED
    BY <1>1, <1>2 DEF HasLeast
<1>4. least \in scores /\ \A y \in scores : least <= y
  BY <1>3 DEF Min
<1>5. best # {}
  BY <1>4
<1>6. best \in SUBSET Nat
  <2> HIDE DEF least
  <2>1. best \subseteq Offered
    OBVIOUS
  <2>2. Offered \subseteq Nat
    BY DEF Offered, LowBlock, HighBlock
  <2>3. QED
    BY <2>1, <2>2
<1>7. Min(best) \in best
  BY <1>5, <1>6, LeastNat
<1>8. PickBestChannel(heard, band24) = Min(best)
  BY DEF PickBestChannel
<1>9. \A b \in best : /\ b \in Offered /\ Is24(b) = band24
                      /\ \A c \in Offered : Is24(c) = band24 => Score(heard, b) <= Score(heard, c)
  BY <1>4
<1>10. QED
  BY <1>7, <1>8, <1>9

LEMMA PicksOffered ==
  ASSUME NEW heard \in Airs, NEW band24 \in BOOLEAN
  PROVE  PickBestChannel(heard, band24) \in Offered
BY AirsAssumption, LeastOfPicked

----------------------------------------------------------------------------
(* The jobs that begin.                                                    *)

LEMMA AskJob ==
  ASSUME JobsOK, Ask
  PROVE  /\ JobsOK' /\ Alone("move") /\ job["move"].at = "idle"
         /\ job'["move"].at = "wait" /\ job'["move"].ch \in Offered
         /\ job'["move"].w <= MaxWidth(job'["move"].ch)
         /\ \E a \in Asks : job'["move"].ch = a[1] /\ job'["move"].w = a[2]
         /\ job'["move"].k = 1 /\ job'["move"].refused = FALSE
<1>1. PICK a \in Asks, mode \in {"announce", "restart"} :
        /\ a[2] <= MaxWidth(a[1])
        /\ job' = [job EXCEPT !["move"] = [Idle EXCEPT !.at = "wait", !.ch = a[1],
                                                       !.w = a[2], !.mode = mode]]
  BY DEF Ask
<1> DEFINE c == a[1]
           w == a[2]
           r == [Idle EXCEPT !.at = "wait", !.ch = c, !.w = w, !.mode = mode]
<1>2. c \in Offered /\ w \in Nat /\ w <= MaxWidth(c)
  BY <1>1, AsksAssumption
<1>3. job' = [job EXCEPT !["move"] = r]
  BY <1>1
<1> HIDE DEF c, w
<1>4. r \in Jobs
  BY <1>2, IdleType DEF Jobs, Stages
<1>5. r.at = "wait" /\ r.ch = c /\ r.w = w /\ r.k = 1 /\ r.refused = FALSE
  BY DEF Idle
<1> HIDE DEF r
<1>6. JobsOK' /\ Alone("move") /\ job'["move"] = r
  BY <1>3, <1>4, JobPut DEF Movers
<1>7. \E b \in Asks : job'["move"].ch = b[1] /\ job'["move"].w = b[2]
  BY <1>5, <1>6 DEF c, w
<1>8. QED
  BY <1>2, <1>5, <1>6, <1>7 DEF Ask

LEMMA RecheckJob ==
  ASSUME JobsOK, Recheck, pref # None => pref \in Prefs
  PROVE  /\ JobsOK' /\ Alone("restore") /\ job["restore"].at = "begin"
         /\ \/ /\ job'["restore"] = Idle /\ Done("restore")
               /\ tries' \in {tries, 0} /\ gaveUp' \in {gaveUp, FALSE}
            \/ /\ job'["restore"].at = "status" /\ UNCHANGED <<lock, restore>>
               /\ pref # None /\ air # None /\ ~Settled
               /\ job'["restore"].ch = pref.ch /\ job'["restore"].w = pref.w
               /\ job'["restore"].k = job["restore"].k
               /\ job'["restore"].refused = job["restore"].refused
<1>1. job["restore"] \in Jobs /\ job["restore"].at = "begin"
  BY DEF JobsOK, Movers, Recheck
<1>2. CASE pref # None /\ air # None /\ ~Settled
  <2> DEFINE r == [job["restore"] EXCEPT !.at = "status", !.ch = pref.ch, !.w = pref.w]
  <2>1. pref.ch \in Offered /\ pref.w \in Nat
    BY <1>2 DEF Prefs
  <2>2. job' = [job EXCEPT !["restore"] = r] /\ UNCHANGED <<lock, restore>>
    BY <1>2 DEF Recheck
  <2>3. r \in Jobs
    BY <1>1, <2>1 DEF Jobs, Stages
  <2>4. /\ r.at = "status" /\ r.ch = pref.ch /\ r.w = pref.w
        /\ r.k = job["restore"].k /\ r.refused = job["restore"].refused
    BY <1>1 DEF Jobs
  <2> HIDE DEF r
  <2>5. JobsOK' /\ Alone("restore") /\ job'["restore"] = r
    BY <2>2, <2>3, JobPut DEF Movers
  <2>6. QED
    BY <1>1, <1>2, <2>2, <2>4, <2>5
<1>3. CASE ~(pref # None /\ air # None /\ ~Settled)
  <2>1. Done("restore") /\ (Forgive \/ UNCHANGED <<tries, gaveUp>>)
    BY <1>3 DEF Recheck
  <2>2. JobsOK' /\ Alone("restore") /\ job'["restore"] = Idle
    BY <2>1, DoneJob DEF Movers
  <2>3. QED
    BY <1>1, <2>1, <2>2 DEF Forgive
<1>4. QED
  BY <1>2, <1>3

\* A scan or a poll that sweeps.
LEMMA SweepingJob ==
  ASSUME JobsOK, par \in Placed, NEW outcome, NEW mode \in {"apply", "poll"},
         NEW then \in {"sweep", "pick"}, Sweeping(outcome, mode, then)
  PROVE  /\ JobsOK' /\ Alone("scan") /\ job'["scan"].at = then
         /\ job'["scan"].mode = mode /\ job'["scan"].was
         /\ job'["scan"].hurt = (outcome # "free")
         /\ job'["scan"].k = 1 /\ job'["scan"].refused = FALSE
<1> DEFINE c    == par.channel
           w    == WidthOf(par)
           hurt == outcome # "free"
           r == [Idle EXCEPT !.at = then, !.was = TRUE, !.mode = mode, !.from = c,
                             !.w = w, !.hurt = hurt]
<1>1. c \in Offered /\ w \in Nat /\ hurt \in BOOLEAN
  BY WidthType DEF Placed
<1>2. job' = [job EXCEPT !["scan"] = r]
  BY DEF Sweeping
<1> HIDE DEF c, w, hurt
<1>3. r \in Jobs
  BY <1>1, IdleType DEF Jobs, Stages
<1>4. r.at = then /\ r.mode = mode /\ r.was /\ r.hurt = hurt /\ r.k = 1 /\ r.refused = FALSE
  BY DEF Idle
<1> HIDE DEF r
<1>5. JobsOK' /\ Alone("scan") /\ job'["scan"] = r
  BY <1>2, <1>3, JobPut DEF Movers
<1>6. QED
  BY <1>4, <1>5 DEF hurt

LEMMA RecommendsOffered ==
  ASSUME NEW heard \in Airs, NEW band24 \in BOOLEAN
  PROVE  Recommended[heard][band24] \in Offered
<1>1. Recommended[heard][band24] = PickBestChannel(heard, band24)
  BY DEF Recommended
<1>2. QED
  BY <1>1, PicksOffered

LEMMA PickJob ==
  ASSUME JobsOK, Pick
  PROVE  /\ JobsOK' /\ Alone("scan") /\ job["scan"].at = "pick"
         /\ \/ /\ job'["scan"] = Idle /\ Done("scan") /\ Learned(job["scan"].hurt)
            \/ /\ job'["scan"].at = "down" /\ job["scan"].mode = "apply"
               /\ job'["scan"].ch \in Offered
               /\ job'["scan"].w <= MaxWidth(job'["scan"].ch)
               /\ SameScan("scan") /\ SameStatus("scan") /\ SameSets("scan")
               /\ UNCHANGED <<lock, inFlight, poll>>
               /\ \E heard \in Airs :
                    /\ job'["scan"].heard = heard
                    /\ job'["scan"].ch = Recommended[heard][Is24(job["scan"].from)]
<1>1. job["scan"] \in Jobs /\ job["scan"].at = "pick" /\ job["scan"].w \in Nat
  BY DEF JobsOK, Movers, Pick, Jobs
<1>2. CASE Done("scan") /\ Learned(job["scan"].hurt)
  BY <1>1, <1>2, DoneJob DEF Movers
<1>3. ASSUME NEW heard \in Airs,
             LET c == Recommended[heard][Is24(job["scan"].from)]
                 w == IF job["scan"].w > MaxWidth(c) THEN MaxWidth(c) ELSE job["scan"].w
             IN  /\ job["scan"].mode = "apply" /\ c # job["scan"].from
                 /\ job' = [job EXCEPT !["scan"] = [@ EXCEPT !.at = "down", !.ch = c, !.w = w,
                                                            !.heard = heard]]
                 /\ UNCHANGED <<lock, inFlight, poll>>
      PROVE  /\ JobsOK' /\ Alone("scan")
             /\ job'["scan"].at = "down" /\ job["scan"].mode = "apply"
             /\ job'["scan"].ch \in Offered
             /\ job'["scan"].w <= MaxWidth(job'["scan"].ch)
             /\ SameScan("scan") /\ SameStatus("scan") /\ SameSets("scan")
             /\ UNCHANGED <<lock, inFlight, poll>>
             /\ job'["scan"].heard = heard
             /\ job'["scan"].ch = Recommended[heard][Is24(job["scan"].from)]
  <2> DEFINE band24 == Is24(job["scan"].from)
             c == Recommended[heard][band24]
             w == IF job["scan"].w > MaxWidth(c) THEN MaxWidth(c) ELSE job["scan"].w
             r == [job["scan"] EXCEPT !.at = "down", !.ch = c, !.w = w, !.heard = heard]
  <2>1. c \in Offered
    <3>1. band24 \in BOOLEAN
      BY DEF Is24
    <3> HIDE DEF band24
    <3>2. QED
      BY <3>1, RecommendsOffered
  <2>2. job' = [job EXCEPT !["scan"] = r]
    BY <1>3
  <2>3. job["scan"].mode = "apply" /\ UNCHANGED <<lock, inFlight, poll>>
    BY <1>3
  <2> HIDE DEF c
  <2>4. w \in Nat /\ w <= MaxWidth(c)
    BY <1>1, MaxWidthType
  <2> HIDE DEF w
  <2>5. r \in Jobs
    BY <1>1, <2>1, <2>4 DEF Jobs, Stages
  <2>6. /\ r.at = "down" /\ r.ch = c /\ r.w = w
        /\ r.mode = job["scan"].mode /\ r.hurt = job["scan"].hurt
        /\ r.was = job["scan"].was /\ r.from = job["scan"].from
        /\ r.k = job["scan"].k /\ r.refused = job["scan"].refused /\ r.heard = heard
    BY <1>1 DEF Jobs
  <2>7. c = Recommended[heard][Is24(job["scan"].from)]
    BY DEF c
  <2> HIDE DEF r
  <2>8. JobsOK' /\ Alone("scan") /\ job'["scan"] = r
    BY <2>2, <2>5, JobPut DEF Movers
  <2>9. SameScan("scan") /\ SameStatus("scan") /\ SameSets("scan")
    BY <2>6, <2>8 DEF SameScan, SameStatus, SameSets
  <2>10. QED
    BY <2>1, <2>3, <2>4, <2>6, <2>7, <2>8, <2>9
<1>4. QED
  BY <1>1, <1>2, <1>3 DEF Pick

----------------------------------------------------------------------------
(* Type correctness.                                                       *)

Choosable == {p \in Prefs : p.w <= MaxWidth(p.ch)}
AtWork  == {"status", "announce", "count", "counted", "down", "set", "enable", "verdict"}

\* A mover at work has a channel of the table, at a width the channel has.
Tasked(m) == job[m].at \in AtWork \/ (m = "move" /\ job[m].at = "wait")
TasksOK == \A m \in Movers :
  Tasked(m) => job[m].ch \in Offered /\ job[m].w <= MaxWidth(job[m].ch)

\* The stages each mover goes through.
RoutesOK ==
  /\ job["scan"].at \notin {"wait", "begin", "status", "announce", "count", "counted"}
  /\ job["move"].at \notin {"begin", "sweep", "pick"}
  /\ job["restore"].at \notin {"sweep", "pick"}

RadioOK ==
  /\ par \in Placed /\ air \in Placed \cup {None}
  /\ csa \in Csa /\ refusing \in {None} \cup Params
StoreOK == pref \in Choosable \cup {None} /\ disk \in Choosable \cup {None}
LockOK  == lock \in {None, "move", "restore"}
FlagsOK == gaveUp \in BOOLEAN /\ inFlight \in BOOLEAN /\ condemned \in BOOLEAN
\* A restore that is queued or at work carries restoreState's mark.
MarkOK  == job["restore"].at # "idle" => inFlight
LeftOK  == left \in 0..Budget
TriesOK == tries \in 0..RestoreBudget
PollOK  == cost \in {"unknown", "free", "costly"} /\ dropped \in Nat /\ futile \in Nat

TypeInv == /\ JobsOK /\ TasksOK /\ RoutesOK /\ RadioOK /\ StoreOK /\ LockOK
           /\ FlagsOK /\ MarkOK /\ LeftOK /\ TriesOK /\ PollOK

LEMMA InitTypes == Init => TypeInv
<1> SUFFICES ASSUME Init PROVE TypeInv
  OBVIOUS
<1>1. JobsOK
  BY IdleType DEF Init, JobsOK
<1>2. \A m \in Movers : job[m].at = "idle"
  BY FieldsIdle DEF Init
<1>3. TasksOK /\ RoutesOK
  BY <1>2 DEF TasksOK, Tasked, AtWork, RoutesOK, Movers
<1>4. RadioOK
  BY HomePlaced DEF Init, RadioOK
<1>5. StoreOK /\ LockOK
  BY DEF Init, StoreOK, LockOK
<1>6. FlagsOK
  BY Zenon DEF Init, FlagsOK
<1>7. MarkOK
  BY <1>2 DEF MarkOK, Movers
<1>8. LeftOK /\ TriesOK /\ PollOK
  BY BudgetAssumption DEF Init, LeftOK, TriesOK, PollOK
<1>9. QED
  BY <1>1, <1>3, <1>4, <1>5, <1>6, <1>7, <1>8 DEF TypeInv

\* What a mover keeps, the invariant of its job keeps.
LEMMA TasksKept ==
  ASSUME TypeInv, NEW m \in Movers, Alone(m), JobsOK',
         Tasked(m)' => Tasked(m) /\ SameTask(m)
  PROVE  TasksOK'
BY DEF TypeInv, TasksOK, Tasked, Alone, SameTask

LEMMA TasksGiven ==
  ASSUME TypeInv, NEW m \in Movers, Alone(m), JobsOK',
         Tasked(m)' => job'[m].ch \in Offered /\ job'[m].w <= MaxWidth(job'[m].ch)
  PROVE  TasksOK'
BY DEF TypeInv, TasksOK, Tasked, Alone

LEMMA LeftTypes ==
  ASSUME TypeInv, Keep \/ (\E kind \in AllKinds : Spend(kind))
  PROVE  LeftOK'
<1>1. left \in 0..Budget /\ Budget \in Nat
  BY BudgetAssumption DEF TypeInv, LeftOK
<1>2. CASE Keep
  BY <1>1, <1>2 DEF Keep, LeftOK
<1>3. CASE \E kind \in AllKinds : Spend(kind)
  <2>1. left > 0 /\ left' = left - 1
    BY <1>3 DEF Spend
  <2>2. QED
    BY <1>1, <2>1 DEF LeftOK
<1>4. QED
  BY <1>2, <1>3

LEMMA HistoryTypes ==
  ASSUME TypeInv, History
  PROVE  futile' \in Nat
BY DEF TypeInv, PollOK, History

LEMMA ForgiveTypes ==
  ASSUME Forgive
  PROVE  TriesOK' /\ gaveUp' \in BOOLEAN
<1>1. TriesOK'
  BY BudgetAssumption DEF Forgive, TriesOK
<1>2. QED
  BY <1>1 DEF Forgive

LEMMA RememberTypes ==
  ASSUME TypeInv, NEW c \in Offered, NEW w \in Nat, w <= MaxWidth(c),
         NEW now \in {0} \cup Offered, Remember(c, w, now)
  PROVE  StoreOK' /\ TriesOK' /\ gaveUp' \in BOOLEAN
<1>1. CASE air = None
  <2>1. UNCHANGED <<store, tries, gaveUp>>
    BY <1>1 DEF Remember
  <2>2. QED
    BY <2>1 DEF TypeInv, StoreOK, TriesOK, FlagsOK, store
<1>2. CASE air # None
  <2>1. [ch |-> c, w |-> w, settled |-> now] \in Choosable
    BY DEF Choosable, Prefs
  <2>2. /\ pref' = [ch |-> c, w |-> w, settled |-> now]
        /\ disk' = pref' \/ disk' = disk
        /\ Forgive
    BY <1>2 DEF Remember
  <2>3. StoreOK'
    BY <2>1, <2>2 DEF TypeInv, StoreOK
  <2>4. QED
    BY <2>2, <2>3, ForgiveTypes
<1>3. QED
  BY <1>1, <1>2

LEMMA DoneTypes ==
  ASSUME TypeInv, NEW m \in Movers, Done(m)
  PROVE  /\ JobsOK' /\ TasksOK' /\ RoutesOK' /\ LockOK'
         /\ inFlight' \in BOOLEAN /\ MarkOK'
<1>1. JobsOK' /\ Alone(m) /\ job'[m] = Idle /\ job'[m].at = "idle"
  BY DoneJob, FieldsIdle DEF TypeInv
<1>2. TasksOK'
  BY <1>1, TasksKept DEF Tasked, AtWork
<1>3. RoutesOK'
  BY <1>1 DEF TypeInv, RoutesOK, Alone, Movers
<1>4. LockOK'
  BY DEF TypeInv, LockOK, Done
<1>5. inFlight' \in BOOLEAN
  BY DEF Done
<1>6. MarkOK'
  BY <1>1 DEF TypeInv, MarkOK, Done, Alone, Movers
<1>7. QED
  BY <1>1, <1>2, <1>3, <1>4, <1>5, <1>6

\* The parts the mover at work leaves alone.
LEMMA RestKept ==
  ASSUME TypeInv
  PROVE  /\ UNCHANGED hostapd => RadioOK'
         /\ UNCHANGED store => StoreOK'
         /\ UNCHANGED lock => LockOK'
         /\ UNCHANGED <<restore, condemned>> => FlagsOK' /\ TriesOK'
         /\ UNCHANGED <<tries, gaveUp, condemned>> /\ inFlight' \in BOOLEAN => FlagsOK' /\ TriesOK'
         /\ UNCHANGED poll /\ futile' \in Nat => PollOK'
         /\ UNCHANGED <<job, restore>> => JobsOK' /\ TasksOK' /\ RoutesOK' /\ MarkOK'
BY DEF TypeInv, hostapd, store, restore, poll, RadioOK, StoreOK, LockOK, FlagsOK, TriesOK, PollOK,
       JobsOK, TasksOK, Tasked, RoutesOK, MarkOK

LEMMA MoverTypes ==
  ASSUME TypeInv, NEW m \in Movers, MoverStep(m), NotPoll
  PROVE  TypeInv'
<1>1. JobsOK /\ TasksOK /\ RoutesOK /\ RadioOK /\ job[m] \in Jobs
  BY DEF TypeInv, JobsOK
<1>2. futile' \in Nat /\ UNCHANGED poll
  BY HistoryTypes DEF NotPoll
<1>3. PollOK'
  BY <1>2, RestKept
<1>4. Tasked(m) => /\ job[m].ch \in Offered /\ job[m].w \in Nat /\ job[m].w <= MaxWidth(job[m].ch)
                   /\ Configured(job[m].ch, job[m].w) \in Placed
  BY <1>1, ConfiguredType DEF TasksOK, Jobs
<1>5. m \in {"move", "restore", "scan"}
  BY DEF Movers
<1>6. CASE TakeLock(m)
  <2> DEFINE stage == IF m = "restore" THEN "begin" ELSE "status"
  <2>1. job[m].at = "wait" /\ Go(m, stage) /\ lock' = m /\ Keep
        /\ UNCHANGED <<hostapd, store, restore, condemned, cache>>
    BY <1>6 DEF TakeLock
  <2>2. m # "scan"
    BY <1>1, <2>1 DEF RoutesOK
  <2>3. JobsOK' /\ Alone(m) /\ job'[m].at = stage /\ SameTask(m)
    BY <1>1, <2>1, GoJob DEF Stages
  <2>4. TasksOK'
    BY <1>5, <2>1, <2>2, <2>3, TasksKept DEF Tasked, AtWork
  <2>5. RoutesOK'
    BY <1>1, <1>5, <2>2, <2>3 DEF RoutesOK, Alone, Movers
  <2>6. MarkOK'
    BY <1>5, <2>1, <2>3 DEF TypeInv, MarkOK, Alone, restore, Movers
  <2>7. LockOK'
    BY <1>5, <2>1, <2>2 DEF LockOK
  <2>8. QED
    BY <1>3, <2>1, <2>3, <2>4, <2>5, <2>6, <2>7, LeftTypes, RestKept DEF TypeInv
<1>7. CASE ReadStatus(m)
  <2>1. JobsOK' /\ Alone(m) /\ job[m].at = "status" /\ job'[m].at \in {"announce", "down"}
        /\ SameTask(m)
    BY <1>1, <1>7, ReadStatusJob DEF RadioOK
  <2>2. UNCHANGED <<hostapd, store, lock, restore, condemned, cache>>
    BY <1>7 DEF ReadStatus
  <2>3. Keep \/ Spend("status")
    BY <1>7 DEF ReadStatus
  <2>4. TasksOK'
    BY <2>1, TasksKept DEF Tasked, AtWork
  <2>5. RoutesOK'
    BY <1>1, <2>1 DEF RoutesOK, Alone, Movers
  <2>6. MarkOK'
    BY <2>1, <2>2 DEF TypeInv, MarkOK, Alone, restore, Movers
  <2>7. LeftOK'
    BY <2>3, LeftTypes DEF AllKinds
  <2>8. QED
    BY <1>3, <2>1, <2>2, <2>4, <2>5, <2>6, <2>7, RestKept DEF TypeInv
<1>8. CASE Announce(m)
  <2>1. JobsOK' /\ Alone(m) /\ job[m].at = "announce" /\ job'[m].at \in {"count", "down"}
        /\ SameTask(m)
    BY <1>1, <1>8, AnnounceJob
  <2>2. UNCHANGED <<hostapd, store, lock, restore, condemned, cache>> /\ Keep
    BY <1>8 DEF Announce
  <2>3. TasksOK'
    BY <2>1, TasksKept DEF Tasked, AtWork
  <2>4. RoutesOK'
    BY <1>1, <2>1 DEF RoutesOK, Alone, Movers
  <2>5. MarkOK'
    BY <2>1, <2>2 DEF TypeInv, MarkOK, Alone, restore, Movers
  <2>6. QED
    BY <1>3, <2>1, <2>2, <2>3, <2>4, <2>5, LeftTypes, RestKept DEF TypeInv
<1>9. CASE Switch(m)
  <2>1. /\ job[m].at = "count" /\ Go(m, "counted") /\ Keep
        /\ par' = Configured(job[m].ch, job[m].w) /\ air' = par'
        /\ UNCHANGED <<csa, refusing, store, lock, restore, condemned, cache>>
    BY <1>9 DEF Switch
  <2>2. JobsOK' /\ Alone(m) /\ job'[m].at = "counted" /\ SameTask(m)
    BY <1>1, <2>1, GoJob DEF Stages
  <2>3. par' \in Placed /\ air' \in Placed
    BY <1>4, <2>1 DEF Tasked, AtWork
  <2>4. RadioOK'
    BY <1>1, <2>1, <2>3 DEF RadioOK
  <2>5. TasksOK'
    BY <2>1, <2>2, TasksKept DEF Tasked, AtWork
  <2>6. RoutesOK'
    BY <1>1, <2>1, <2>2 DEF RoutesOK, Alone, Movers
  <2>7. MarkOK'
    BY <2>1, <2>2 DEF TypeInv, MarkOK, Alone, restore, Movers
  <2>8. QED
    BY <1>3, <2>1, <2>2, <2>4, <2>5, <2>6, <2>7, LeftTypes, RestKept DEF TypeInv
<1>10. CASE Confirm(m)
  <2>1. JobsOK' /\ Alone(m) /\ job[m].at \in {"count", "counted"}
    BY <1>1, <1>10, ConfirmJob
  <2>2. UNCHANGED <<hostapd, condemned, look>>
    BY <1>10 DEF Confirm
  <2>3. LeftOK'
    <3>1. Keep \/ Spend("confirm")
      BY <1>10 DEF Confirm
    <3>2. QED
      BY <3>1, LeftTypes DEF AllKinds
  <2>4. CASE /\ Done(m) /\ Remember(job[m].ch, job[m].w, job[m].ch)
    <3>1. StoreOK' /\ TriesOK' /\ gaveUp' \in BOOLEAN
      BY <1>4, <2>1, <2>4, RememberTypes DEF Tasked, AtWork
    <3>2. JobsOK' /\ TasksOK' /\ RoutesOK' /\ LockOK' /\ inFlight' \in BOOLEAN /\ MarkOK'
      BY <2>4, DoneTypes
    <3>3. FlagsOK'
      BY <2>2, <3>1, <3>2 DEF TypeInv, FlagsOK
    <3>4. QED
      BY <1>3, <2>2, <2>3, <3>1, <3>2, <3>3, RestKept DEF TypeInv
  <2>5. CASE /\ job'[m].at = "down" /\ UNCHANGED <<store, lock, restore>>
             /\ SameTask(m)
    <3>1. TasksOK'
      BY <2>1, <2>5, TasksKept DEF Tasked, AtWork
    <3>2. RoutesOK'
      BY <1>1, <2>1, <2>5 DEF RoutesOK, Alone, Movers
    <3>3. MarkOK'
      BY <2>1, <2>5 DEF TypeInv, MarkOK, Alone, restore, Movers
    <3>4. QED
      BY <1>3, <2>1, <2>2, <2>3, <2>5, <3>1, <3>2, <3>3, RestKept DEF TypeInv
  <2>6. QED
    BY <1>1, <1>10, <2>4, <2>5, ConfirmJob
<1>11. CASE Down(m)
  <2>1. /\ job[m].at = "down"
        /\ UNCHANGED <<par, csa, refusing, store, tries, gaveUp, condemned, cache>>
    BY <1>11 DEF Down
  <2>2. CASE /\ Go(m, "set") /\ Keep /\ air' = IF job[m].was THEN None ELSE air
             /\ UNCHANGED <<lock, inFlight>>
    <3>1. JobsOK' /\ Alone(m) /\ job'[m].at = "set" /\ SameTask(m)
      BY <1>1, <2>2, GoJob DEF Stages
    <3>2. RadioOK'
      BY <1>1, <2>1, <2>2 DEF RadioOK
    <3>3. TasksOK'
      BY <2>1, <3>1, TasksKept DEF Tasked, AtWork
    <3>4. RoutesOK'
      BY <1>1, <2>1, <3>1 DEF RoutesOK, Alone, Movers
    <3>5. MarkOK'
      BY <2>1, <2>2, <3>1 DEF TypeInv, MarkOK, Alone, Movers
    <3>6. FlagsOK' /\ TriesOK' /\ StoreOK'
      BY <2>1, <2>2, RestKept DEF restore
    <3>7. QED
      BY <1>3, <2>2, <3>1, <3>2, <3>3, <3>4, <3>5, <3>6, LeftTypes, RestKept DEF TypeInv
  <2>3. CASE /\ Spend("disable") /\ Done(m) /\ UNCHANGED air
    <3>1. JobsOK' /\ TasksOK' /\ RoutesOK' /\ LockOK' /\ inFlight' \in BOOLEAN /\ MarkOK'
      BY <2>3, DoneTypes
    <3>2. FlagsOK' /\ TriesOK' /\ StoreOK' /\ RadioOK'
      BY <2>1, <2>3, <3>1, RestKept DEF hostapd
    <3>3. LeftOK'
      BY <2>3, LeftTypes DEF AllKinds
    <3>4. QED
      BY <1>3, <3>1, <3>2, <3>3 DEF TypeInv
  <2>4. QED
    BY <1>11, <2>2, <2>3 DEF Down
<1>12. CASE Set(m)
  <2>1. job[m].at = "set"
    BY <1>12 DEF Set
  <2>2. job[m].ch \in Offered /\ job[m].w \in Nat
    BY <1>4, <2>1 DEF Tasked, AtWork
  <2>3. /\ JobsOK' /\ Alone(m) /\ job'[m].at \in {"set", "enable"} /\ SameTask(m)
        /\ \/ par' = par
           \/ par' = [par EXCEPT ![Order[job[m].k]] =
                        Configured(job[m].ch, job[m].w)[Order[job[m].k]]]
    BY <1>1, <1>12, <2>2, SetStep
  <2>4. UNCHANGED <<air, csa, refusing, store, lock, restore, condemned, cache>> /\ Keep
    BY <1>12 DEF Set
  <2>5. par' \in Placed
    <3>1. par \in Placed /\ job[m].k \in 1..8
      BY <1>1 DEF RadioOK, Jobs
    <3>2. [par EXCEPT ![Order[job[m].k]] = Configured(job[m].ch, job[m].w)[Order[job[m].k]]]
            \in Placed
      BY <2>2, <3>1, SetPlaced
    <3>3. QED
      BY <2>3, <3>1, <3>2
  <2>6. RadioOK'
    BY <1>1, <2>4, <2>5 DEF RadioOK
  <2>7. TasksOK'
    BY <2>1, <2>3, TasksKept DEF Tasked, AtWork
  <2>8. RoutesOK'
    BY <1>1, <2>1, <2>3 DEF RoutesOK, Alone, Movers
  <2>9. MarkOK'
    BY <2>1, <2>3, <2>4 DEF TypeInv, MarkOK, Alone, restore, Movers
  <2>10. QED
    BY <1>3, <2>3, <2>4, <2>6, <2>7, <2>8, <2>9, LeftTypes, RestKept DEF TypeInv
<1>13. CASE Enable(m)
  <2>1. /\ job[m].at = "enable" /\ Go(m, "verdict") /\ Keep
        /\ ComeUp \/ UNCHANGED <<par, air>>
        /\ UNCHANGED <<csa, refusing, store, lock, restore, condemned, look>>
    BY <1>13 DEF Enable
  <2>2. JobsOK' /\ Alone(m) /\ job'[m].at = "verdict" /\ SameTask(m)
    BY <1>1, <2>1, GoJob DEF Stages
  <2>3. par' \in Placed /\ air' \in Placed \cup {None}
    BY <1>1, <2>1, ComeUpPlaced DEF RadioOK
  <2>4. RadioOK'
    BY <1>1, <2>1, <2>3 DEF RadioOK
  <2>5. TasksOK'
    BY <2>1, <2>2, TasksKept DEF Tasked, AtWork
  <2>6. RoutesOK'
    BY <1>1, <2>1, <2>2 DEF RoutesOK, Alone, Movers
  <2>7. MarkOK'
    BY <2>1, <2>2 DEF TypeInv, MarkOK, Alone, restore, Movers
  <2>8. QED
    BY <1>3, <2>1, <2>2, <2>4, <2>5, <2>6, <2>7, LeftTypes, RestKept DEF TypeInv
<1>14. CASE Conclude(m)
  <2>1. job[m].at = "verdict" /\ Done(m) /\ UNCHANGED <<hostapd, cache>>
    BY <1>14 DEF Conclude
  <2>2. PICK answered \in BOOLEAN :
          LET now == IF answered THEN par.channel ELSE 0
          IN  /\ IF answered THEN Keep ELSE Spend("readback")
              /\ IF (job[m].was /\ air = None) \/ (now # job[m].ch /\ job[m].refused)
                 THEN UNCHANGED <<store, tries, gaveUp, condemned>>
                 ELSE /\ Remember(job[m].ch, job[m].w, now)
                      /\ IF now = job[m].ch THEN Learn(m) ELSE UNCHANGED condemned
    BY <1>14 DEF Conclude
  <2> DEFINE now == IF answered THEN par.channel ELSE 0
  <2>3. now \in {0} \cup Offered
    BY <1>1 DEF RadioOK, Placed
  <2>4. JobsOK' /\ TasksOK' /\ RoutesOK' /\ LockOK' /\ inFlight' \in BOOLEAN /\ MarkOK'
    BY <2>1, DoneTypes
  <2>5. LeftOK'
    BY <2>2, LeftTypes DEF AllKinds
  <2>6. CASE UNCHANGED <<store, tries, gaveUp, condemned>>
    BY <1>3, <2>1, <2>4, <2>5, <2>6, RestKept DEF TypeInv
  <2>7. CASE /\ Remember(job[m].ch, job[m].w, now)
             /\ Learn(m) \/ UNCHANGED condemned
    <3>1. StoreOK' /\ TriesOK' /\ gaveUp' \in BOOLEAN
      BY <1>4, <2>1, <2>3, <2>7, RememberTypes DEF Tasked, AtWork
    <3>2. condemned' \in BOOLEAN
      BY <2>7 DEF TypeInv, FlagsOK, Learn
    <3>3. FlagsOK'
      BY <2>4, <3>1, <3>2 DEF FlagsOK
    <3>4. QED
      BY <1>3, <2>1, <2>4, <2>5, <3>1, <3>3, RestKept DEF TypeInv
  <2>8. QED
    BY <2>2, <2>6, <2>7
<1>15. QED
  BY <1>6, <1>7, <1>8, <1>9, <1>10, <1>11, <1>12, <1>13, <1>14 DEF MoverStep

LEMMA ScanTypes ==
  ASSUME TypeInv, Scan \/ Poll \/ SweepEnds \/ Pick \/ ScanConclude, History
  PROVE  TypeInv'
<1>1. JobsOK /\ TasksOK /\ RoutesOK /\ RadioOK
  BY DEF TypeInv
<1>2. futile' \in Nat
  BY HistoryTypes
<1>3. "scan" \in Movers
  BY DEF Movers
<1>4. \A hurt : RememberCost(hurt) => cost' \in {"free", "costly"}
  BY DEF RememberCost
<1>5. \A hurt : Learned(hurt) => PollOK'
  BY <1>2, <1>4 DEF TypeInv, PollOK, Learned
<1>6. CASE Scan
  <2>1. /\ UNCHANGED <<par, csa, refusing, store, lock, restore, condemned, cache, poll>>
        /\ Spend("scan")
    BY <1>6 DEF Scan
  <2>2. PICK outcome \in Sweeps \ {"invalid"} :
          /\ Sweeping(outcome, "apply", IF outcome = "free" THEN "pick" ELSE "sweep")
          /\ air' = IF outcome = "free" THEN air ELSE None
    BY <1>6 DEF Scan
  <2>3. JobsOK' /\ Alone("scan") /\ job'["scan"].at \in {"pick", "sweep"}
    BY <1>1, <2>2, SweepingJob DEF RadioOK
  <2>4. TasksOK'
    BY <1>3, <2>3, TasksKept DEF Tasked, AtWork
  <2>5. RoutesOK' /\ MarkOK'
    BY <1>1, <2>1, <2>3 DEF TypeInv, RoutesOK, MarkOK, restore, Alone, Movers
  <2>6. RadioOK'
    BY <1>1, <2>1, <2>2 DEF RadioOK
  <2>7. LeftOK' /\ PollOK'
    BY <1>2, <2>1, LeftTypes, RestKept DEF AllKinds
  <2>8. QED
    BY <2>1, <2>3, <2>4, <2>5, <2>6, <2>7, RestKept DEF TypeInv
<1>7. CASE Poll
  <2>1. /\ UNCHANGED <<par, csa, refusing, store, lock, restore, condemned, cache>>
        /\ Spend("poll")
    BY <1>7 DEF Poll
  <2>2. LeftOK'
    BY <2>1, LeftTypes DEF AllKinds
  <2>3. CASE /\ air' = None /\ dropped' = dropped + 1 /\ UNCHANGED cost
             /\ Sweeping("knocks", "poll", "sweep")
    <3>1. JobsOK' /\ Alone("scan") /\ job'["scan"].at = "sweep"
      BY <1>1, <2>3, SweepingJob DEF RadioOK
    <3>2. TasksOK'
      BY <1>3, <3>1, TasksKept DEF Tasked, AtWork
    <3>3. RoutesOK' /\ MarkOK'
      BY <1>1, <2>1, <3>1 DEF TypeInv, RoutesOK, MarkOK, restore, Alone, Movers
    <3>4. RadioOK'
      BY <1>1, <2>1, <2>3 DEF RadioOK
    <3>5. PollOK'
      BY <1>2, <2>3 DEF TypeInv, PollOK
    <3>6. QED
      BY <2>1, <2>2, <3>1, <3>2, <3>3, <3>4, <3>5, RestKept DEF TypeInv
  <2>4. CASE (\E hurt : RememberCost(hurt)) /\ UNCHANGED <<air, job, dropped>>
    <3>1. PollOK'
      BY <1>2, <1>4, <2>4 DEF TypeInv, PollOK
    <3>2. UNCHANGED hostapd /\ UNCHANGED <<job, restore>>
      BY <2>1, <2>4 DEF hostapd
    <3>3. QED
      BY <2>1, <2>2, <3>1, <3>2, RestKept DEF TypeInv
  <2>5. QED
    BY <1>7, <2>3, <2>4 DEF Poll
<1>8. CASE SweepEnds
  <2>1. /\ job["scan"].at = "sweep" /\ ComeUp /\ Keep
        /\ UNCHANGED <<csa, refusing, store, tries, gaveUp, condemned, cache, poll>>
    BY <1>8 DEF SweepEnds
  <2>2. RadioOK'
    BY <1>1, <2>1, ComeUpPlaced DEF RadioOK
  <2>3. LeftOK' /\ PollOK'
    BY <1>2, <2>1, LeftTypes, RestKept
  <2>4. CASE Go("scan", "pick") /\ UNCHANGED <<lock, inFlight>>
    <3>1. JobsOK' /\ Alone("scan") /\ job'["scan"].at = "pick"
      BY <1>1, <1>3, <2>4, GoJob DEF Stages
    <3>2. TasksOK'
      BY <1>3, <3>1, TasksKept DEF Tasked, AtWork
    <3>3. RoutesOK' /\ MarkOK'
      BY <1>1, <2>4, <3>1 DEF TypeInv, RoutesOK, MarkOK, Alone, Movers
    <3>4. FlagsOK' /\ TriesOK' /\ StoreOK' /\ LockOK'
      BY <2>1, <2>4, RestKept DEF restore
    <3>5. QED
      BY <2>2, <2>3, <3>1, <3>2, <3>3, <3>4 DEF TypeInv
  <2>5. CASE Done("scan")
    <3>1. JobsOK' /\ TasksOK' /\ RoutesOK' /\ LockOK' /\ inFlight' \in BOOLEAN /\ MarkOK'
      BY <1>3, <2>5, DoneTypes
    <3>2. QED
      BY <2>1, <2>2, <2>3, <3>1, RestKept DEF TypeInv
  <2>6. QED
    BY <1>8, <2>4, <2>5 DEF SweepEnds
<1>9. CASE Pick
  <2>1. UNCHANGED <<hostapd, store, tries, gaveUp, condemned, cache>> /\ Keep
    BY <1>9 DEF Pick
  <2>2. RadioOK' /\ StoreOK' /\ LeftOK'
    BY <2>1, LeftTypes, RestKept
  <2>3. CASE Done("scan") /\ Learned(job["scan"].hurt)
    <3>1. JobsOK' /\ TasksOK' /\ RoutesOK' /\ LockOK' /\ inFlight' \in BOOLEAN /\ MarkOK'
      BY <1>3, <2>3, DoneTypes
    <3>2. PollOK'
      BY <1>5, <2>3
    <3>3. QED
      BY <2>1, <2>2, <3>1, <3>2, RestKept DEF TypeInv
  <2>4. CASE /\ job'["scan"].at = "down" /\ UNCHANGED <<lock, inFlight, poll>>
             /\ job'["scan"].ch \in Offered
             /\ job'["scan"].w <= MaxWidth(job'["scan"].ch)
    <3>1. JobsOK' /\ Alone("scan")
      BY <1>1, <1>9, PickJob
    <3>2. TasksOK'
      BY <1>3, <2>4, <3>1, TasksGiven
    <3>3. RoutesOK' /\ MarkOK'
      BY <1>1, <2>4, <3>1 DEF TypeInv, RoutesOK, MarkOK, Alone, Movers
    <3>4. FlagsOK' /\ TriesOK' /\ LockOK' /\ PollOK'
      BY <1>2, <2>1, <2>4, RestKept DEF restore
    <3>5. QED
      BY <2>2, <3>1, <3>2, <3>3, <3>4 DEF TypeInv
  <2>5. QED
    BY <1>1, <1>9, <2>3, <2>4, PickJob
<1>10. CASE ScanConclude
  <2>1. /\ job["scan"].at = "verdict" /\ Done("scan") /\ Learned(TRUE) /\ Keep
        /\ UNCHANGED <<hostapd, condemned, look>>
        /\ \/ UNCHANGED <<store, tries, gaveUp>>
           \/ Remember(job["scan"].ch, job["scan"].w, par.channel)
    BY <1>10 DEF ScanConclude
  <2>2. JobsOK' /\ TasksOK' /\ RoutesOK' /\ LockOK' /\ inFlight' \in BOOLEAN /\ MarkOK'
    BY <1>3, <2>1, DoneTypes
  <2>3. /\ job["scan"].ch \in Offered /\ job["scan"].w <= MaxWidth(job["scan"].ch)
        /\ job["scan"].w \in Nat /\ par.channel \in Offered
    BY <1>1, <1>3, <2>1 DEF TasksOK, Tasked, AtWork, JobsOK, Jobs, RadioOK, Placed
  <2>4. StoreOK' /\ TriesOK' /\ gaveUp' \in BOOLEAN
    <3>1. CASE UNCHANGED <<store, tries, gaveUp>>
      BY <3>1 DEF TypeInv, StoreOK, TriesOK, FlagsOK, store
    <3>2. CASE Remember(job["scan"].ch, job["scan"].w, par.channel)
      BY <2>3, <3>2, RememberTypes
    <3>3. QED
      BY <2>1, <3>1, <3>2
  <2>5. FlagsOK'
    BY <2>1, <2>2, <2>4 DEF TypeInv, FlagsOK
  <2>6. QED
    BY <1>5, <2>1, <2>2, <2>4, <2>5, LeftTypes, RestKept DEF TypeInv
<1>11. QED
  BY <1>6, <1>7, <1>8, <1>9, <1>10

LEMMA TickTypes ==
  ASSUME TypeInv, Recheck \/ Look \/ Decide \/ Expire, NotPoll
  PROVE  TypeInv'
<1>1. JobsOK /\ TasksOK /\ RoutesOK /\ RadioOK
  BY DEF TypeInv
<1>2. PollOK'
  BY HistoryTypes, RestKept DEF NotPoll
<1>3. "restore" \in Movers
  BY DEF Movers
<1>4. CASE Recheck
  <2>1. Keep /\ UNCHANGED <<hostapd, store, condemned, look>>
    BY <1>4 DEF Recheck
  <2>2. pref # None => pref \in Prefs /\ pref.w <= MaxWidth(pref.ch)
    BY DEF TypeInv, StoreOK, Choosable
  <2>3. JobsOK' /\ Alone("restore") /\ job["restore"].at = "begin"
    BY <1>1, <1>4, <2>2, RecheckJob
  <2>4. CASE Done("restore") /\ tries' \in {tries, 0} /\ gaveUp' \in {gaveUp, FALSE}
    <3>1. JobsOK' /\ TasksOK' /\ RoutesOK' /\ LockOK' /\ inFlight' \in BOOLEAN /\ MarkOK'
      BY <1>3, <2>4, DoneTypes
    <3>2. TriesOK'
      BY <2>4, BudgetAssumption DEF TypeInv, TriesOK
    <3>3. FlagsOK'
      BY <2>1, <2>4, <3>1 DEF TypeInv, FlagsOK
    <3>4. QED
      BY <1>2, <2>1, <3>1, <3>2, <3>3, LeftTypes, RestKept DEF TypeInv
  <2>5. CASE /\ job'["restore"].at = "status" /\ UNCHANGED <<lock, restore>> /\ pref # None
             /\ job'["restore"].ch = pref.ch /\ job'["restore"].w = pref.w
    <3>1. pref.ch \in Offered
      BY <2>2, <2>5 DEF Prefs
    <3>2. TasksOK'
      BY <1>3, <2>2, <2>3, <2>5, <3>1, TasksGiven
    <3>3. RoutesOK' /\ MarkOK'
      BY <1>1, <2>3, <2>5 DEF TypeInv, RoutesOK, MarkOK, Alone, Movers, restore
    <3>4. QED
      BY <1>2, <2>1, <2>3, <2>5, <3>2, <3>3, LeftTypes, RestKept DEF TypeInv
  <2>6. QED
    BY <1>1, <1>4, <2>2, <2>4, <2>5, RecheckJob
<1>5. CASE Look \/ Expire
  <2>1. /\ UNCHANGED <<hostapd, store, lock, restore, condemned>> /\ Keep
        /\ UNCHANGED <<job, restore>>
    BY <1>5 DEF Look, Expire
  <2>2. QED
    BY <1>2, <2>1, LeftTypes, RestKept DEF TypeInv
<1>6. CASE Decide
  <2> DEFINE r == IF seen = None THEN Reading ELSE seen
             off   == r.serving /\ ~SatisfiedBy(look, r.channel, r.width)
             begin == off /\ ~inFlight /\ ~gaveUp
  <2>1. Keep /\ UNCHANGED <<hostapd, store, lock, condemned>>
    BY <1>6 DEF Decide
  <2>2. \/ Forgive
        \/ /\ gaveUp' = (gaveUp \/ (begin /\ Exhausted))
           /\ tries' = IF begin /\ ~Exhausted THEN tries + 1 ELSE tries
    BY <1>6 DEF Decide
  <2>3. \/ ~inFlight /\ inFlight' = TRUE /\ Go("restore", "wait")
        \/ UNCHANGED <<inFlight, job>>
    BY <1>6 DEF Decide
  <2> HIDE DEF begin
  <2>4. TriesOK'
    <3>1. tries \in 0..RestoreBudget /\ RestoreBudget \in Nat \ {0}
      BY BudgetAssumption DEF TypeInv, TriesOK
    <3>2. CASE Forgive
      BY <3>2, ForgiveTypes
    <3>3. CASE tries' = IF begin /\ ~Exhausted THEN tries + 1 ELSE tries
      BY <3>1, <3>3 DEF Exhausted, TriesOK
    <3>4. QED
      BY <2>2, <3>2, <3>3
  <2>5. gaveUp' \in BOOLEAN
    BY <2>2 DEF TypeInv, FlagsOK, Forgive
  <2>6. inFlight' \in BOOLEAN
    BY <2>3 DEF TypeInv, FlagsOK
  <2>7. FlagsOK'
    BY <2>1, <2>5, <2>6 DEF TypeInv, FlagsOK
  <2>8. JobsOK' /\ TasksOK' /\ RoutesOK' /\ MarkOK'
    <3>1. CASE UNCHANGED <<inFlight, job>>
      BY <3>1 DEF TypeInv, JobsOK, TasksOK, Tasked, RoutesOK, MarkOK
    <3>2. CASE inFlight' = TRUE /\ Go("restore", "wait")
      <4>1. JobsOK' /\ Alone("restore") /\ job'["restore"].at = "wait"
        BY <1>1, <1>3, <3>2, GoJob DEF Stages
      <4>2. TasksOK'
        BY <1>3, <4>1, TasksKept DEF Tasked, AtWork
      <4>3. RoutesOK' /\ MarkOK'
        BY <1>1, <3>2, <4>1 DEF RoutesOK, MarkOK, Alone, Movers
      <4>4. QED
        BY <4>1, <4>2, <4>3
    <3>3. QED
      BY <2>3, <3>1, <3>2
  <2>9. QED
    BY <1>2, <2>1, <2>4, <2>7, <2>8, LeftTypes, RestKept DEF TypeInv
<1>7. QED
  BY <1>4, <1>5, <1>6

LEMMA WorldTypes ==
  ASSUME TypeInv,
         \/ (Ask \/ Restart \/ Refuse) /\ NotPoll
         \/ Crash /\ futile' = 0
  PROVE  TypeInv'
<1>1. JobsOK /\ TasksOK /\ RoutesOK /\ RadioOK
  BY DEF TypeInv
<1>2. CASE Ask /\ NotPoll
  <2>1. Spend("move") /\ UNCHANGED <<hostapd, store, lock, restore, condemned, cache>>
    BY <1>2 DEF Ask
  <2>2. /\ JobsOK' /\ Alone("move") /\ job'["move"].at = "wait"
        /\ job'["move"].ch \in Offered /\ job'["move"].w <= MaxWidth(job'["move"].ch)
    BY <1>1, <1>2, AskJob
  <2>3. TasksOK'
    BY <2>2, TasksGiven DEF Movers
  <2>4. RoutesOK' /\ MarkOK'
    BY <1>1, <2>1, <2>2 DEF TypeInv, RoutesOK, MarkOK, Alone, Movers, restore
  <2>5. LeftOK' /\ PollOK'
    BY <1>2, <2>1, LeftTypes, HistoryTypes, RestKept DEF AllKinds, NotPoll
  <2>6. QED
    BY <2>1, <2>2, <2>3, <2>4, <2>5, RestKept DEF TypeInv
<1>3. CASE Restart /\ NotPoll
  <2>1. /\ Spend("meddle") \/ Spend("restart")
        /\ UNCHANGED <<csa, refusing, store, lock, job, restore, condemned, cache>>
    BY <1>3 DEF Restart
  <2>2. PICK p \in Landings(Home) : par' = p /\ air' = p
    BY <1>3 DEF Restart
  <2>3. p \in Placed
    BY HomePlaced, LandsPlaced
  <2>4. RadioOK'
    BY <1>1, <2>1, <2>2, <2>3 DEF RadioOK
  <2>5. LeftOK' /\ PollOK'
    BY <1>3, <2>1, LeftTypes, HistoryTypes, RestKept DEF AllKinds, NotPoll
  <2>6. UNCHANGED <<job, restore>>
    BY <2>1
  <2>7. QED
    BY <2>1, <2>4, <2>5, <2>6, RestKept DEF TypeInv
<1>4. CASE Refuse /\ NotPoll
  <2>1. /\ Spend("refuse") /\ refusing' \in Refusable \cup {None}
        /\ UNCHANGED <<par, air, csa, store, lock, job, restore, condemned, cache>>
    BY <1>4 DEF Refuse
  <2>2. RadioOK'
    BY <1>1, <2>1, RefusableAssumption DEF RadioOK
  <2>3. LeftOK' /\ PollOK'
    BY <1>4, <2>1, LeftTypes, HistoryTypes, RestKept DEF AllKinds, NotPoll
  <2>4. UNCHANGED <<job, restore>>
    BY <2>1
  <2>5. QED
    BY <2>1, <2>2, <2>3, <2>4, RestKept DEF TypeInv
<1>5. CASE Crash /\ futile' = 0
  <2>1. /\ Spend("crash") /\ pref' = disk /\ lock' = None
        /\ job' = [m \in Movers |-> Idle]
        /\ Forgive /\ inFlight' = FALSE /\ condemned' = FALSE
        /\ cost' = "unknown" /\ dropped' = 0
        /\ UNCHANGED <<hostapd, disk>>
    BY <1>5 DEF Crash
  <2>2. JobsOK'
    BY <2>1, IdleType DEF JobsOK
  <2>3. \A m \in Movers : job'[m].at = "idle"
    BY <2>1, FieldsIdle
  <2>4. TasksOK' /\ RoutesOK' /\ MarkOK'
    BY <2>3 DEF TasksOK, Tasked, AtWork, RoutesOK, MarkOK, Movers
  <2>5. StoreOK' /\ LockOK'
    BY <2>1 DEF TypeInv, StoreOK, LockOK
  <2>6. FlagsOK' /\ TriesOK'
    BY <2>1, ForgiveTypes DEF FlagsOK
  <2>7. PollOK'
    BY <1>5, <2>1 DEF PollOK
  <2>8. QED
    BY <2>1, <2>2, <2>4, <2>5, <2>6, <2>7, LeftTypes, RestKept DEF AllKinds, TypeInv
<1>6. QED
  BY <1>2, <1>3, <1>4, <1>5

LEMMA TypesKept == TypeInv /\ [Next]_vars => TypeInv'
<1> SUFFICES ASSUME TypeInv, [Next]_vars PROVE TypeInv'
  OBVIOUS
<1>1. CASE UNCHANGED vars
  <2>1. UNCHANGED <<hostapd, store, lock, job, restore, condemned, left, futile, poll>>
    BY <1>1 DEF vars
  <2>2. QED
    BY <2>1 DEF TypeInv, hostapd, store, restore, poll, JobsOK, TasksOK, Tasked, RoutesOK,
                RadioOK, StoreOK, LockOK, FlagsOK, MarkOK, LeftOK, TriesOK, PollOK
<1>2. ASSUME NEW m \in Movers, MoverStep(m), NotPoll
      PROVE  TypeInv'
  BY <1>2, MoverTypes
<1>3. CASE (Recheck \/ Look \/ Decide \/ Expire) /\ NotPoll
  BY <1>3, TickTypes
<1>4. CASE (Scan \/ Poll \/ SweepEnds \/ Pick \/ ScanConclude) /\ History
  BY <1>4, ScanTypes
<1>5. CASE (Ask \/ Restart \/ Refuse) /\ NotPoll
  BY <1>5, WorldTypes
<1>6. CASE Crash /\ Serves /\ futile' = 0
  BY <1>6, WorldTypes
<1>7. QED
  BY Zenon, <1>1, <1>2, <1>3, <1>4, <1>5, <1>6 DEF Next

LEMMA TypesHold == Spec => []TypeInv
BY InitTypes, TypesKept, PTL DEF Spec

\* The variables keep their types: whatever hostapd refuses, drops or forgets,
\* and whoever works on it, its parameters name a channel of the table, and what
\* is remembered is a channel at a width that it has (MoveChannel, scanBand,
\* ChannelStore, restoreState).
THEOREM TypeCorrect == Spec => []TypeOK
<1>1. TypeInv => TypeOK
  <2> SUFFICES ASSUME TypeInv PROVE TypeOK
    OBVIOUS
  <2>1. DOMAIN par = Params /\ (air # None => DOMAIN air = Params)
    BY ParametersDomain DEF TypeInv, RadioOK, Placed
  <2>2. csa \in Csa /\ refusing \in {None} \cup Params
    BY DEF TypeInv, RadioOK
  <2>3. pref \in Prefs \cup {None} /\ disk \in Prefs \cup {None}
    BY DEF TypeInv, StoreOK, Choosable
  <2>4. lock \in {None} \cup Movers
    BY DEF TypeInv, LockOK, Movers
  <2>5. \A m \in Movers : job[m].at \in Stages /\ job[m].why \in Whys
    BY DEF TypeInv, JobsOK, Jobs
  <2>6. cost \in {"unknown", "free", "costly"} /\ dropped \in Nat /\ futile \in Nat
    BY DEF TypeInv, PollOK
  <2>7. gaveUp \in BOOLEAN /\ inFlight \in BOOLEAN /\ condemned \in BOOLEAN
    BY DEF TypeInv, FlagsOK
  <2>8. tries \in 0..RestoreBudget /\ left \in 0..Budget
    BY DEF TypeInv, TriesOK, LeftOK
  <2>9. QED
    BY <2>1, <2>2, <2>3, <2>4, <2>5, <2>6, <2>7, <2>8 DEF TypeOK
<1>2. QED
  BY <1>1, TypesHold, PTL

----------------------------------------------------------------------------
(* One mover at a time: the lock, and where scans do not meet the movers   *)
(* at work.                                                                *)

Holds(m) == job[m].at \notin {"idle", "wait"}

LockedInv ==
  /\ \A m \in {"move", "restore"} : Holds(m) => lock = m
  /\ Holds("scan") => lock = None

LEMMA OneAtATime ==
  ASSUME TypeInv, LockedInv, NEW m \in Movers, NEW n \in Movers, Holds(m), Holds(n)
  PROVE  m = n
BY NoneAssumption DEF LockedInv, Movers

\* A mover takes the lock, works, or gives it back.
LEMMA MoverLock ==
  ASSUME TypeInv, NEW m \in Movers, MoverStep(m)
  PROVE  /\ Alone(m)
         /\ \/ /\ TakeLock(m) /\ m # "scan" /\ lock = None /\ lock' = m
               /\ Overlap \/ job["scan"].at = "idle"
            \/ Holds(m) /\ lock' = lock
            \/ Holds(m) /\ job'[m].at = "idle" /\ lock' = IF lock = m THEN None ELSE lock
<1>1. JobsOK /\ RoutesOK /\ par \in Placed
  BY DEF TypeInv, RadioOK
<1>2. CASE TakeLock(m)
  <2> DEFINE stage == IF m = "restore" THEN "begin" ELSE "status"
  <2>1. /\ job[m].at = "wait" /\ lock = None /\ lock' = m /\ Go(m, stage)
        /\ Overlap \/ job["scan"].at = "idle"
    BY <1>2 DEF TakeLock
  <2>2. Alone(m)
    BY <1>1, <2>1, GoJob DEF Stages
  <2>3. QED
    BY <1>1, <1>2, <2>1, <2>2 DEF RoutesOK
<1>3. CASE ReadStatus(m)
  BY <1>1, <1>3, ReadStatusJob DEF Holds, ReadStatus
<1>4. CASE Announce(m)
  BY <1>1, <1>4, AnnounceJob DEF Holds, Announce
<1>5. CASE Switch(m)
  BY <1>1, <1>5, GoJob DEF Holds, Switch, Stages
<1>6. CASE Confirm(m)
  BY <1>1, <1>6, ConfirmJob, FieldsIdle DEF Holds, Done
<1>7. CASE Down(m)
  BY <1>1, <1>7, GoJob, DoneJob, FieldsIdle DEF Holds, Down, Done, Stages
<1>8. CASE Set(m)
  <2>1. job[m].ch \in Offered
    BY <1>8 DEF Set, TypeInv, TasksOK, Tasked, AtWork
  <2>2. QED
    BY <1>1, <1>8, <2>1, SetStep DEF Holds, Set
<1>9. CASE Enable(m)
  BY <1>1, <1>9, GoJob DEF Holds, Enable, Stages
<1>10. CASE Conclude(m)
  BY <1>1, <1>10, DoneJob, FieldsIdle DEF Holds, Conclude, Done
<1>11. QED
  BY <1>2, <1>3, <1>4, <1>5, <1>6, <1>7, <1>8, <1>9, <1>10 DEF MoverStep

\* A scan begins with the lock free, and never takes it.
LEMMA ScanLock ==
  ASSUME TypeInv, ~Overlap, Scan \/ Poll \/ SweepEnds \/ Pick \/ ScanConclude
  PROVE  /\ Alone("scan") /\ (lock' = lock \/ (lock = "scan" /\ lock' = None))
         /\ \/ job["scan"].at = "idle" /\ lock = None /\ (Scan \/ Poll)
            \/ Holds("scan") /\ (SweepEnds \/ Pick \/ ScanConclude)
<1>1. JobsOK /\ par \in Placed /\ "scan" \in Movers
  BY DEF TypeInv, RadioOK, Movers
<1>2. CASE Scan
  <2>1. \E outcome : Sweeping(outcome, "apply", "pick") \/ Sweeping(outcome, "apply", "sweep")
    BY <1>2 DEF Scan
  <2>2. Alone("scan")
    BY <1>1, <2>1, SweepingJob
  <2>3. QED
    BY <1>2, <2>2 DEF Scan
<1>3. CASE Poll
  <2>1. (\E outcome : Sweeping(outcome, "poll", "sweep")) \/ UNCHANGED job
    BY <1>3 DEF Poll
  <2>2. Alone("scan")
    BY <1>1, <2>1, SweepingJob DEF Alone
  <2>3. QED
    BY <1>3, <2>2 DEF Poll
<1>4. CASE SweepEnds
  BY <1>1, <1>4, GoJob, DoneJob DEF SweepEnds, Done, Holds, Stages
<1>5. CASE Pick
  BY <1>1, <1>5, PickJob DEF Done, Holds
<1>6. CASE ScanConclude
  BY <1>1, <1>6, DoneJob DEF ScanConclude, Done, Holds
<1>7. QED
  BY <1>2, <1>3, <1>4, <1>5, <1>6

LEMMA InitLocked == Init => LockedInv
BY FieldsIdle DEF Init, LockedInv, Holds, Movers

LEMMA LockedKept ==
  ASSUME TypeInv, LockedInv, ~Overlap, [Next]_vars
  PROVE  LockedInv'
<1>1. JobsOK /\ RoutesOK /\ LockOK
  BY DEF TypeInv
<1>2. ASSUME NEW m \in Movers, MoverStep(m)
      PROVE  LockedInv'
  <2>1. Alone(m)
    BY <1>2, MoverLock
  <2>2. CASE m # "scan" /\ lock = None /\ lock' = m /\ job["scan"].at = "idle"
    BY <2>1, <2>2, NoneAssumption DEF LockedInv, Holds, Alone, Movers
  <2>3. CASE Holds(m) /\ lock' = lock
    BY <2>1, <2>3, NoneAssumption DEF LockedInv, Holds, Alone, Movers
  <2>4. CASE Holds(m) /\ job'[m].at = "idle" /\ lock' = IF lock = m THEN None ELSE lock
    BY <2>1, <2>4, NoneAssumption DEF LockedInv, Holds, Alone, Movers
  <2>5. QED
    BY <1>2, <2>2, <2>3, <2>4, MoverLock
<1>3. CASE Scan \/ Poll \/ SweepEnds \/ Pick \/ ScanConclude
  <2>1. Alone("scan") /\ lock' = lock /\ lock = None
    BY <1>1, <1>3, ScanLock, NoneAssumption DEF LockedInv, LockOK, Movers
  <2>2. QED
    BY <2>1, NoneAssumption DEF LockedInv, Holds, Alone, Movers
<1>4. CASE Recheck
  <2>1. Alone("restore") /\ job["restore"].at = "begin"
    BY <1>1, <1>4, RecheckJob DEF TypeInv, StoreOK, Choosable
  <2>2. lock' = lock \/ (lock' = None /\ job'["restore"].at = "idle")
    <3>1. CASE lock' = lock
      BY <3>1
    <3>2. CASE Done("restore")
      BY <1>1, <2>1, <3>2, DoneJob, FieldsIdle DEF Done, LockedInv, Holds, Movers
    <3>3. QED
      BY <1>4, <3>1, <3>2 DEF Recheck
  <2>3. QED
    BY <2>1, <2>2, NoneAssumption DEF LockedInv, Holds, Alone, Movers
<1>5. CASE Decide
  <2>1. lock' = lock
    BY <1>5 DEF Decide
  <2>2. UNCHANGED job \/ (Alone("restore") /\ job'["restore"].at = "wait")
    BY <1>1, <1>5, GoJob DEF Decide, Stages, Movers
  <2>3. QED
    BY <2>1, <2>2 DEF LockedInv, Holds, Alone, Movers
<1>6. CASE Ask
  <2>1. lock' = lock /\ Alone("move") /\ job'["move"].at = "wait"
    BY <1>1, <1>6, AskJob DEF Ask
  <2>2. QED
    BY <2>1 DEF LockedInv, Holds, Alone, Movers
<1>7. CASE Crash
  <2>1. \A m \in Movers : job'[m].at = "idle"
    BY <1>7, FieldsIdle DEF Crash
  <2>2. QED
    BY <2>1 DEF LockedInv, Holds, Movers
<1>8. CASE UNCHANGED <<job, lock>>
  BY <1>8 DEF LockedInv, Holds
<1>9. Look \/ Expire \/ Restart \/ Refuse \/ UNCHANGED vars => UNCHANGED <<job, lock>>
  BY DEF Look, Expire, Restart, Refuse, vars
<1>10. QED
  BY Zenon, <1>2, <1>3, <1>4, <1>5, <1>6, <1>7, <1>8, <1>9 DEF Next

----------------------------------------------------------------------------
(* The SETs.                                                               *)

Sent(m, i) == par[Order[i]] = Configured(job[m].ch, job[m].w)[Order[i]]

\* How far m has come with its parameters.
SetsOf(m) ==
  /\ job[m].at \notin {"set", "enable", "verdict"} => job[m].k = 1 /\ ~job[m].refused
  /\ job[m].at = "set" => ~job[m].refused /\ \A i \in 1..8 : i < job[m].k => Sent(m, i)
  /\ job[m].at = "enable" /\ ~job[m].refused => par = Configured(job[m].ch, job[m].w)

SetsInv == \A m \in Movers : SetsOf(m)

\* Parameters that m alone is setting are nobody else's concern.
LEMMA SetsKept ==
  ASSUME SetsInv, NEW m \in Movers, Alone(m), SetsOf(m)',
         \/ par' = par
         \/ \A n \in Movers : n # m => job[n].at \notin {"set", "enable"}
  PROVE  SetsInv'
<1> SUFFICES ASSUME NEW n \in Movers, n # m PROVE SetsOf(n)'
  BY DEF SetsInv
<1>1. job'[n] = job[n] /\ SetsOf(n)
  BY DEF Alone, SetsInv
<1>2. CASE par' = par
  BY <1>1, <1>2 DEF SetsOf, Sent
<1>3. CASE job[n].at \notin {"set", "enable"}
  BY <1>1, <1>3 DEF SetsOf
<1>4. QED
  BY <1>2, <1>3

LEMMA SetsIdle ==
  ASSUME NEW m \in Movers, job'[m] = Idle
  PROVE  SetsOf(m)'
BY FieldsIdle DEF SetsOf

\* A stage before the SETs.
LEMMA SetsBefore ==
  ASSUME SetsInv, NEW m \in Movers, SameSets(m),
         job[m].at \notin {"set", "enable", "verdict"},
         job'[m].at \notin {"set", "enable", "verdict"}
  PROVE  SetsOf(m)'
BY DEF SetsInv, SetsOf, SameSets

LEMMA InitSets == Init => SetsInv
BY FieldsIdle DEF Init, SetsInv, SetsOf

LEMMA MoverSets ==
  ASSUME TypeInv, LockedInv, SetsInv, NEW m \in Movers, MoverStep(m)
  PROVE  SetsInv'
<1>1. JobsOK /\ RoutesOK /\ TasksOK /\ par \in Placed
  BY DEF TypeInv, RadioOK
<1>2. Alone(m)
  BY MoverLock
<1>3. Holds(m) => \A n \in Movers : n # m => job[n].at \notin {"set", "enable"}
  BY OneAtATime DEF Holds
<1>4. CASE TakeLock(m)
  <2>1. job[m].at = "wait" /\ UNCHANGED hostapd
    BY <1>4 DEF TakeLock
  <2>2. job'[m].at \in {"begin", "status"} /\ SameSets(m)
    BY <1>1, <1>4, GoJob DEF TakeLock, Stages
  <2>3. QED
    BY <1>2, <2>1, <2>2, SetsBefore, SetsKept DEF hostapd
<1>5. CASE ReadStatus(m)
  <2>1. job[m].at = "status" /\ job'[m].at \in {"announce", "down"} /\ SameSets(m)
    BY <1>1, <1>5, ReadStatusJob
  <2>2. QED
    BY <1>2, <1>5, <2>1, SetsBefore, SetsKept DEF ReadStatus, hostapd
<1>6. CASE Announce(m)
  <2>1. job[m].at = "announce" /\ job'[m].at \in {"count", "down"} /\ SameSets(m)
    BY <1>1, <1>6, AnnounceJob
  <2>2. QED
    BY <1>2, <1>6, <2>1, SetsBefore, SetsKept DEF Announce, hostapd
<1>7. CASE Switch(m)
  <2>1. job[m].at = "count" /\ job'[m].at = "counted" /\ SameSets(m)
    BY <1>1, <1>7, GoJob DEF Switch, Stages
  <2>2. QED
    BY <1>2, <1>3, <2>1, SetsBefore, SetsKept DEF Holds
<1>8. CASE Confirm(m)
  <2>1. job[m].at \in {"count", "counted"}
        /\ (job'[m] = Idle \/ (job'[m].at = "down" /\ SameSets(m)))
    BY <1>1, <1>8, ConfirmJob
  <2>2. SetsOf(m)'
    BY <2>1, SetsIdle, SetsBefore
  <2>3. QED
    BY <1>2, <1>8, <2>2, SetsKept DEF Confirm, hostapd
<1>9. CASE Down(m)
  <2>1. job[m].at = "down" /\ par' = par
    BY <1>9 DEF Down
  <2>2. job[m].k = 1 /\ ~job[m].refused
    BY <2>1 DEF SetsInv, SetsOf
  <2>3. \/ job'[m].at = "set" /\ SameSets(m)
        \/ job'[m] = Idle
    BY <1>1, <1>9, GoJob, DoneJob DEF Down, Stages
  <2>4. CASE job'[m].at = "set" /\ SameSets(m)
    <3>1. SetsOf(m)'
      BY <2>2, <2>4 DEF SetsOf, SameSets
    <3>2. QED
      BY <1>2, <2>1, <3>1, SetsKept
  <2>5. CASE job'[m] = Idle
    BY <1>2, <2>1, <2>5, SetsIdle, SetsKept
  <2>6. QED
    BY <2>3, <2>4, <2>5
<1>10. CASE Set(m)
  <2> DEFINE c == job[m].ch
             w == job[m].w
             k == job[m].k
             v == Configured(c, w)[Order[k]]
  <2>1. job[m].at = "set"
    BY <1>10 DEF Set
  <2>2. c \in Offered /\ w \in Nat /\ k \in 1..8 /\ par \in Parameters
    BY <1>1, <2>1 DEF TasksOK, Tasked, AtWork, JobsOK, Jobs, Placed
  <2>3. ~job[m].refused /\ \A i \in 1..8 : i < k => Sent(m, i)
    BY <2>1 DEF SetsInv, SetsOf
  <2>4. job'[m].ch = c /\ job'[m].w = w
    BY <1>1, <1>10, <2>2, SetStep DEF SameTask
  <2>5. CASE job'[m].at = "enable" /\ job'[m].refused
    <3>1. SetsOf(m)'
      BY <2>5 DEF SetsOf
    <3>2. QED
      BY <1>2, <1>3, <2>1, <3>1, SetsKept DEF Holds
  <2>6. CASE /\ par' = [par EXCEPT ![Order[k]] = v] /\ job'[m].refused = job[m].refused
             /\ \/ k = 8 /\ job'[m].at = "enable"
                \/ k < 8 /\ job'[m].at = "set" /\ job'[m].k = k + 1
    <3>1. v \in Int
      <4>1. Configured(c, w) \in Parameters
        BY <2>2, ConfiguredType DEF Placed
      <4> HIDE DEF c, w
      <4>2. QED
        BY <2>2, <4>1 DEF Parameters, Order
    <3>2. /\ par' \in Parameters /\ par'[Order[k]] = v
          /\ \A j \in 1..8 : j # k => par'[Order[j]] = par[Order[j]]
      <4> HIDE DEF v, k
      <4> DEFINE q == [par EXCEPT ![Order[k]] = v]
      <4>1. /\ q \in Parameters /\ q[Order[k]] = v
            /\ \A j \in 1..8 : j # k => q[Order[j]] = par[Order[j]]
        BY <2>2, <3>1, SetOne
      <4> HIDE DEF q
      <4>2. par' = q
        BY <2>6 DEF q
      <4>3. QED
        BY <4>1, <4>2
    <3>3. \A i \in 1..8 : i <= k => par'[Order[i]] = Configured(c, w)[Order[i]]
      BY <2>2, <2>3, <3>2 DEF Sent
    <3>4. CASE k = 8 /\ job'[m].at = "enable"
      <4>1. par' = Configured(c, w)
        BY <2>2, <3>2, <3>3, <3>4, SetAll
      <4>2. SetsOf(m)'
        BY <2>4, <3>4, <4>1 DEF SetsOf
      <4>3. QED
        BY <1>2, <1>3, <2>1, <4>2, SetsKept DEF Holds
    <3>5. CASE k < 8 /\ job'[m].at = "set" /\ job'[m].k = k + 1
      <4>1. \A i \in 1..8 : i < job'[m].k => Sent(m, i)'
        BY <2>2, <2>4, <3>3, <3>5 DEF Sent
      <4>2. SetsOf(m)'
        BY <2>3, <2>6, <3>5, <4>1 DEF SetsOf
      <4>3. QED
        BY <1>2, <1>3, <2>1, <4>2, SetsKept DEF Holds
    <3>6. QED
      BY <2>6, <3>4, <3>5
  <2>7. QED
    BY <1>1, <1>10, <2>2, <2>5, <2>6, SetStep
<1>11. CASE Enable(m)
  <2>1. job[m].at = "enable" /\ job'[m].at = "verdict"
    BY <1>1, <1>11, GoJob DEF Enable, Stages
  <2>2. SetsOf(m)'
    BY <2>1 DEF SetsOf
  <2>3. QED
    BY <1>2, <1>3, <2>1, <2>2, SetsKept DEF Holds
<1>12. CASE Conclude(m)
  <2>1. job'[m] = Idle /\ par' = par
    BY <1>1, <1>12, DoneJob DEF Conclude, hostapd
  <2>2. QED
    BY <1>2, <2>1, SetsIdle, SetsKept
<1>13. QED
  BY <1>4, <1>5, <1>6, <1>7, <1>8, <1>9, <1>10, <1>11, <1>12 DEF MoverStep

LEMMA SetsHeld ==
  ASSUME TypeInv, LockedInv, SetsInv, ~Overlap, [Next]_vars
  PROVE  SetsInv'
<1>1. JobsOK /\ RoutesOK /\ par \in Placed
  BY DEF TypeInv, RadioOK
<1>2. ASSUME NEW m \in Movers, MoverStep(m)
      PROVE  SetsInv'
  BY <1>2, MoverSets
<1>3. CASE Scan \/ Poll \/ SweepEnds \/ Pick \/ ScanConclude
  <2>1. Alone("scan") /\ "scan" \in Movers
    BY <1>3, ScanLock DEF Movers
  <2>2. CASE Scan \/ Poll
    <3>1. par' = par
      BY <2>2 DEF Scan, Poll
    <3>2. SetsOf("scan")'
      <4>1. CASE UNCHANGED job
        BY <2>1, <3>1, <4>1 DEF SetsInv, SetsOf, Sent
      <4>2. ASSUME NEW outcome, NEW mode \in {"apply", "poll"}, NEW then \in {"sweep", "pick"},
                   Sweeping(outcome, mode, then)
            PROVE  SetsOf("scan")'
        <5>1. /\ job'["scan"].at \in {"sweep", "pick"}
              /\ job'["scan"].k = 1 /\ job'["scan"].refused = FALSE
          BY <1>1, <4>2, SweepingJob
        <5>2. QED
          BY <5>1 DEF SetsOf
      <4>3. QED
        BY <2>2, <4>1, <4>2 DEF Scan, Poll
    <3>3. QED
      BY <2>1, <3>1, <3>2, SetsKept
  <2>3. CASE SweepEnds
    <3>1. \A n \in Movers : n # "scan" => job[n].at \notin {"set", "enable"}
      BY <2>1, <2>3, OneAtATime DEF SweepEnds, Holds
    <3>2. job'["scan"] = Idle
          \/ (job'["scan"].at = "pick" /\ job["scan"].at = "sweep" /\ SameSets("scan"))
      BY <1>1, <2>1, <2>3, GoJob, DoneJob DEF SweepEnds, Stages
    <3>3. SetsOf("scan")'
      BY <2>1, <3>2, SetsIdle, SetsBefore
    <3>4. QED
      BY <2>1, <3>1, <3>3, SetsKept
  <2>4. CASE Pick
    <3>1. par' = par
      BY <2>4 DEF Pick, hostapd
    <3>2. job'["scan"] = Idle
          \/ (job'["scan"].at = "down" /\ job["scan"].at = "pick" /\ SameSets("scan"))
      BY <1>1, <2>4, PickJob
    <3>3. SetsOf("scan")'
      BY <2>1, <3>2, SetsIdle, SetsBefore
    <3>4. QED
      BY <2>1, <3>1, <3>3, SetsKept
  <2>5. CASE ScanConclude
    <3>1. par' = par /\ job'["scan"] = Idle
      BY <1>1, <2>1, <2>5, DoneJob DEF ScanConclude, hostapd
    <3>2. QED
      BY <2>1, <3>1, SetsIdle, SetsKept
  <2>6. QED
    BY <1>3, <2>2, <2>3, <2>4, <2>5
<1>4. CASE Recheck
  <2>1. par' = par
    BY <1>4 DEF Recheck, hostapd
  <2>2. /\ Alone("restore") /\ job["restore"].at = "begin" /\ "restore" \in Movers
        /\ \/ job'["restore"] = Idle
           \/ job'["restore"].at = "status" /\ SameSets("restore")
    BY <1>1, <1>4, RecheckJob DEF TypeInv, StoreOK, Choosable, SameSets, Movers
  <2>3. SetsOf("restore")'
    BY <2>2, SetsIdle, SetsBefore
  <2>4. QED
    BY <2>1, <2>2, <2>3, SetsKept
<1>5. CASE Decide
  <2>1. par' = par
    BY <1>5 DEF Decide, hostapd
  <2>2. CASE UNCHANGED job
    BY <2>1, <2>2 DEF SetsInv, SetsOf, Sent
  <2>3. CASE ~inFlight /\ Go("restore", "wait")
    <3>1. job["restore"].at = "idle"
      BY <2>3 DEF TypeInv, MarkOK
    <3>2. Alone("restore") /\ job'["restore"].at = "wait" /\ SameSets("restore")
          /\ "restore" \in Movers
      BY <1>1, <2>3, GoJob DEF Stages, Movers
    <3>3. SetsOf("restore")'
      BY <3>1, <3>2, SetsBefore
    <3>4. QED
      BY <2>1, <3>2, <3>3, SetsKept
  <2>4. QED
    BY <1>5, <2>2, <2>3 DEF Decide
<1>6. CASE Ask
  <2>1. par' = par /\ "move" \in Movers
    BY <1>6 DEF Ask, hostapd, Movers
  <2>2. /\ Alone("move") /\ job'["move"].at = "wait"
        /\ job'["move"].k = 1 /\ job'["move"].refused = FALSE
    BY <1>1, <1>6, AskJob
  <2>3. SetsOf("move")'
    BY <2>2 DEF SetsOf
  <2>4. QED
    BY <2>1, <2>2, <2>3, SetsKept
<1>7. CASE Crash
  <2>1. \A m \in Movers : job'[m] = Idle
    BY <1>7 DEF Crash
  <2>2. QED
    BY <2>1, SetsIdle DEF SetsInv
<1>8. CASE Restart
  <2>1. UNCHANGED job
    BY <1>8 DEF Restart
  <2>2. \A m \in Movers : job[m].at \notin {"set", "enable"}
    BY <1>8 DEF Restart, Moving, MidConfig
  <2>3. QED
    BY <2>1, <2>2 DEF SetsInv, SetsOf
<1>9. CASE UNCHANGED <<job, par>>
  BY <1>9 DEF SetsInv, SetsOf, Sent
<1>10. Look \/ Expire \/ Refuse \/ UNCHANGED vars => UNCHANGED <<job, par>>
  BY DEF Look, Expire, Refuse, vars, hostapd
<1>11. QED
  BY Zenon, <1>2, <1>3, <1>4, <1>5, <1>6, <1>7, <1>8, <1>9, <1>10 DEF Next

\* One mover at a time sends its parameters undisturbed.
SerialInv == TypeInv /\ LockedInv /\ SetsInv

LEMMA SerialHolds == ASSUME ~Overlap PROVE Spec => []SerialInv
<1>1. Init => SerialInv
  BY InitTypes, InitLocked, InitSets DEF SerialInv
<1>2. SerialInv /\ [Next]_vars => SerialInv'
  BY TypesKept, LockedKept, SetsHeld DEF SerialInv
<1>3. QED
  BY <1>1, <1>2, PTL DEF Spec

\* Whatever an earlier move left behind, a mover whose SETs were all accepted
\* enables exactly what it was asked for, and hostapd takes it: on every table of
\* asks, with any disturbance, as long as no scan meets a mover at work
\* (setChannelCommands, moveChannelLocked).
THEOREM SetsWhatIsAsked == ASSUME ~Overlap PROVE Spec => []EnablesWhatItSet
<1>1. SerialInv => EnablesWhatItSet
  <2> SUFFICES ASSUME SerialInv, NEW m \in Movers, job[m].at = "enable", ~job[m].refused
               PROVE  Coherent(par) /\ par = Configured(job[m].ch, job[m].w)
    BY DEF EnablesWhatItSet
  <2>1. par = Configured(job[m].ch, job[m].w)
    BY DEF SerialInv, SetsInv, SetsOf
  <2>2. job[m].ch \in Offered /\ job[m].w \in Nat /\ job[m].w <= MaxWidth(job[m].ch)
    BY DEF SerialInv, TypeInv, TasksOK, Tasked, AtWork, JobsOK, Jobs
  <2>3. QED
    BY <2>1, <2>2, ConfiguredCoherent
<1>2. QED
  BY <1>1, SerialHolds, PTL

----------------------------------------------------------------------------
(* What the access point serves with.                                      *)

\* Between a DISABLE and its ENABLE nothing is served; a move that read an
\* access point that is down knows it.
DarkOf(m) ==
  /\ job[m].at \in {"set", "enable"} => air = None
  /\ job[m].at = "down" /\ ~job[m].was => air = None
  /\ job[m].at \in {"announce", "count", "counted", "sweep", "pick"} => job[m].was
ServesPar == air # None => air = par
ServingInv == ServesPar /\ \A m \in Movers : DarkOf(m)

\* The others' part, where the access point does not come up under them.
LEMMA DarkKept ==
  ASSUME ServingInv, NEW m \in Movers, Alone(m), DarkOf(m)',
         \/ air' \in {air, None}
         \/ \A n \in Movers : n # m => ~Holds(n)
  PROVE  \A n \in Movers : DarkOf(n)'
<1> SUFFICES ASSUME NEW n \in Movers, n # m PROVE DarkOf(n)'
  OBVIOUS
<1>1. job'[n] = job[n] /\ DarkOf(n)
  BY DEF Alone, ServingInv
<1>2. CASE air' \in {air, None}
  BY <1>1, <1>2 DEF DarkOf
<1>3. CASE ~Holds(n)
  BY <1>1, <1>3 DEF DarkOf, Holds
<1>4. QED
  BY <1>2, <1>3

LEMMA InitServing == Init => ServingInv
BY FieldsIdle DEF Init, ServingInv, ServesPar, DarkOf

LEMMA ComeUpServes ==
  ASSUME ServesPar, ComeUp
  PROVE  ServesPar' /\ (air = None \/ UNCHANGED <<par, air>>)
BY DEF ServesPar, ComeUp

LEMMA MoverServes ==
  ASSUME TypeInv, LockedInv, ServingInv, "status" \notin Kinds,
         NEW m \in Movers, MoverStep(m)
  PROVE  ServingInv'
<1>1. JobsOK /\ RoutesOK /\ TasksOK /\ par \in Placed
  BY DEF TypeInv, RadioOK
<1>2. Alone(m) /\ DarkOf(m) /\ ServesPar
  BY MoverLock DEF ServingInv
<1>3. Holds(m) => \A n \in Movers : n # m => ~Holds(n)
  BY OneAtATime
<1>4. CASE TakeLock(m)
  <2>1. UNCHANGED hostapd
    BY <1>4 DEF TakeLock
  <2>2. job'[m].at \in {"begin", "status"}
    BY <1>1, <1>4, GoJob DEF TakeLock, Stages
  <2>3. DarkOf(m)'
    BY <2>2 DEF DarkOf
  <2>4. QED
    BY <1>2, <2>1, <2>3, DarkKept DEF ServingInv, ServesPar, hostapd
<1>5. CASE ReadStatus(m)
  <2>1. UNCHANGED hostapd
    BY <1>5 DEF ReadStatus
  <2>2. /\ job'[m].at \in {"announce", "down"} /\ (job'[m].at = "announce" => job'[m].was)
        /\ job'[m].was = (air # None)
    BY <1>1, <1>5, ReadStatusJob
  <2>3. DarkOf(m)'
    BY <2>1, <2>2 DEF DarkOf, hostapd
  <2>4. QED
    BY <1>2, <2>1, <2>3, DarkKept DEF ServingInv, ServesPar, hostapd
<1>6. CASE Announce(m)
  <2>1. UNCHANGED hostapd
    BY <1>6 DEF Announce
  <2>2. job[m].at = "announce" /\ job'[m].at \in {"count", "down"} /\ SameStatus(m)
    BY <1>1, <1>6, AnnounceJob
  <2>3. DarkOf(m)'
    BY <1>2, <2>2 DEF DarkOf, SameStatus
  <2>4. QED
    BY <1>2, <2>1, <2>3, DarkKept DEF ServingInv, ServesPar, hostapd
<1>7. CASE Switch(m)
  <2>1. air' = par' /\ job[m].at = "count"
    BY <1>7 DEF Switch
  <2>2. job'[m].at = "counted" /\ SameStatus(m)
    BY <1>1, <1>7, GoJob DEF Switch, Stages
  <2>3. DarkOf(m)'
    BY <1>2, <2>1, <2>2 DEF DarkOf, SameStatus
  <2>4. QED
    BY <1>2, <1>3, <2>1, <2>3, DarkKept DEF ServingInv, ServesPar, Holds
<1>8. CASE Confirm(m)
  <2>1. UNCHANGED hostapd
    BY <1>8 DEF Confirm
  <2>2. /\ job[m].at \in {"count", "counted"}
        /\ job'[m] = Idle \/ (job'[m].at = "down" /\ SameStatus(m))
    BY <1>1, <1>8, ConfirmJob
  <2>3. DarkOf(m)'
    BY <1>2, <2>2, FieldsIdle DEF DarkOf, SameStatus
  <2>4. QED
    BY <1>2, <2>1, <2>3, DarkKept DEF ServingInv, ServesPar, hostapd
<1>9. CASE Down(m)
  <2>1. job[m].at = "down" /\ par' = par
    BY <1>9 DEF Down
  <2>2. CASE Go(m, "set") /\ air' = IF job[m].was THEN None ELSE air
    <3>1. job'[m].at = "set"
      BY <1>1, <2>2, GoJob DEF Stages
    <3>2. air' = None
      BY <1>2, <2>1, <2>2 DEF DarkOf
    <3>3. DarkOf(m)'
      BY <3>1, <3>2 DEF DarkOf
    <3>4. QED
      BY <1>2, <3>2, <3>3, DarkKept DEF ServingInv, ServesPar
  <2>3. CASE Done(m) /\ UNCHANGED air
    <3>1. job'[m] = Idle
      BY <1>1, <2>3, DoneJob
    <3>2. DarkOf(m)'
      BY <3>1, FieldsIdle DEF DarkOf
    <3>3. QED
      BY <1>2, <2>1, <2>3, <3>2, DarkKept DEF ServingInv, ServesPar
  <2>4. QED
    BY <1>9, <2>2, <2>3 DEF Down
<1>10. CASE Set(m)
  <2>1. job[m].at = "set" /\ air' = air
    BY <1>10 DEF Set
  <2>2. job'[m].at \in {"set", "enable"}
    BY <1>1, <1>10, <2>1, SetStep DEF TasksOK, Tasked, AtWork
  <2>3. air = None
    BY <1>2, <2>1 DEF DarkOf
  <2>4. DarkOf(m)'
    BY <2>1, <2>2, <2>3 DEF DarkOf
  <2>5. QED
    BY <1>2, <2>1, <2>3, <2>4, DarkKept DEF ServingInv, ServesPar
<1>11. CASE Enable(m)
  <2>1. job[m].at = "enable" /\ (ComeUp \/ UNCHANGED <<par, air>>)
    BY <1>11 DEF Enable
  <2>2. job'[m].at = "verdict"
    BY <1>1, <1>11, GoJob DEF Enable, Stages
  <2>3. DarkOf(m)'
    BY <2>2 DEF DarkOf
  <2>4. ServesPar'
    BY <1>2, <2>1, ComeUpServes DEF ServesPar
  <2>5. QED
    BY <1>2, <1>3, <2>1, <2>3, <2>4, DarkKept DEF ServingInv, Holds
<1>12. CASE Conclude(m)
  <2>1. job'[m] = Idle /\ UNCHANGED hostapd
    BY <1>1, <1>12, DoneJob DEF Conclude
  <2>2. DarkOf(m)'
    BY <2>1, FieldsIdle DEF DarkOf
  <2>3. QED
    BY <1>2, <2>1, <2>2, DarkKept DEF ServingInv, ServesPar, hostapd
<1>13. QED
  BY <1>4, <1>5, <1>6, <1>7, <1>8, <1>9, <1>10, <1>11, <1>12 DEF MoverStep

LEMMA ServingHeld ==
  ASSUME TypeInv, LockedInv, ServingInv, ~Overlap, "status" \notin Kinds, [Next]_vars
  PROVE  ServingInv'
<1>1. JobsOK /\ RoutesOK /\ par \in Placed /\ ServesPar
  BY DEF TypeInv, RadioOK, ServingInv
<1>2. ASSUME NEW m \in Movers, MoverStep(m)
      PROVE  ServingInv'
  BY <1>2, MoverServes
<1>3. CASE Scan \/ Poll \/ SweepEnds \/ Pick \/ ScanConclude
  <2>1. Alone("scan") /\ "scan" \in Movers
    BY <1>3, ScanLock DEF Movers
  <2>2. CASE Scan \/ Poll
    <3>1. par' = par /\ air' \in {air, None}
      BY <2>2 DEF Scan, Poll
    <3>2. DarkOf("scan")'
      <4>1. CASE UNCHANGED job
        BY <2>1, <3>1, <4>1 DEF ServingInv, DarkOf
      <4>2. ASSUME NEW outcome, NEW mode \in {"apply", "poll"}, NEW then \in {"sweep", "pick"},
                   Sweeping(outcome, mode, then)
            PROVE  DarkOf("scan")'
        <5>1. job'["scan"].at \in {"sweep", "pick"} /\ job'["scan"].was
          BY <1>1, <4>2, SweepingJob
        <5>2. QED
          BY <5>1 DEF DarkOf
      <4>3. QED
        BY <2>2, <4>1, <4>2 DEF Scan, Poll
    <3>3. QED
      BY <1>1, <2>1, <3>1, <3>2, DarkKept DEF ServingInv, ServesPar
  <2>3. CASE SweepEnds
    <3>1. \A n \in Movers : n # "scan" => ~Holds(n)
      BY <2>1, <2>3, OneAtATime DEF SweepEnds, Holds
    <3>2. /\ job["scan"].at = "sweep"
          /\ job'["scan"] = Idle \/ (job'["scan"].at = "pick" /\ SameStatus("scan"))
      BY <1>1, <2>1, <2>3, GoJob, DoneJob DEF SweepEnds, Stages
    <3>3. DarkOf("scan")'
      BY <2>1, <3>2, FieldsIdle DEF ServingInv, DarkOf, SameStatus
    <3>4. ServesPar'
      BY <1>1, <2>3, ComeUpServes DEF SweepEnds
    <3>5. QED
      BY <2>1, <3>1, <3>3, <3>4, DarkKept DEF ServingInv
  <2>4. CASE Pick
    <3>1. UNCHANGED hostapd
      BY <2>4 DEF Pick
    <3>2. /\ job["scan"].at = "pick"
          /\ job'["scan"] = Idle \/ (job'["scan"].at = "down" /\ SameStatus("scan"))
      BY <1>1, <2>4, PickJob
    <3>3. DarkOf("scan")'
      BY <2>1, <3>2, FieldsIdle DEF ServingInv, DarkOf, SameStatus
    <3>4. QED
      BY <1>1, <2>1, <3>1, <3>3, DarkKept DEF ServingInv, ServesPar, hostapd
  <2>5. CASE ScanConclude
    <3>1. UNCHANGED hostapd /\ job'["scan"] = Idle
      BY <1>1, <2>1, <2>5, DoneJob DEF ScanConclude
    <3>2. DarkOf("scan")'
      BY <3>1, FieldsIdle DEF DarkOf
    <3>3. QED
      BY <1>1, <2>1, <3>1, <3>2, DarkKept DEF ServingInv, ServesPar, hostapd
  <2>6. QED
    BY <1>3, <2>2, <2>3, <2>4, <2>5
<1>4. CASE Recheck \/ Decide \/ Ask
  <2>1. UNCHANGED hostapd
    BY <1>4 DEF Recheck, Decide, Ask
  <2>2. PICK m \in Movers : /\ Alone(m)
                            /\ \/ job'[m] = Idle
                               \/ job'[m].at \in {"wait", "status"}
                               \/ job'[m] = job[m]
    <3>1. CASE Recheck
      BY <1>1, <3>1, RecheckJob DEF TypeInv, StoreOK, Choosable, Movers
    <3>2. CASE Decide
      <4>1. CASE UNCHANGED job
        BY <4>1 DEF Alone, Movers
      <4>2. CASE Go("restore", "wait")
        BY <1>1, <4>2, GoJob DEF Stages, Movers
      <4>3. QED
        BY <3>2, <4>1, <4>2 DEF Decide
    <3>3. CASE Ask
      BY <1>1, <3>3, AskJob DEF Movers
    <3>4. QED
      BY <1>4, <3>1, <3>2, <3>3
  <2>3. DarkOf(m)'
    BY <2>1, <2>2, FieldsIdle DEF ServingInv, DarkOf, hostapd
  <2>4. QED
    BY <1>1, <2>1, <2>2, <2>3, DarkKept DEF ServingInv, ServesPar, hostapd
<1>5. CASE Crash
  <2>1. UNCHANGED hostapd /\ \A m \in Movers : job'[m] = Idle
    BY <1>5 DEF Crash
  <2>2. \A m \in Movers : DarkOf(m)'
    BY <2>1, FieldsIdle DEF DarkOf
  <2>3. QED
    BY <1>1, <2>1, <2>2 DEF ServingInv, ServesPar, hostapd
<1>6. CASE Restart
  <2>1. UNCHANGED job /\ air' = par'
    BY <1>6 DEF Restart
  <2>2. \A m \in Movers : job[m].at \notin {"down", "set", "enable"}
    BY <1>6 DEF Restart, Moving, MidConfig
  <2>3. \A m \in Movers : DarkOf(m)'
    BY <2>1, <2>2 DEF ServingInv, DarkOf
  <2>4. QED
    BY <2>1, <2>3 DEF ServingInv, ServesPar
<1>7. CASE UNCHANGED <<job, par, air>>
  BY <1>7 DEF ServingInv, ServesPar, DarkOf
<1>8. Look \/ Expire \/ Refuse \/ UNCHANGED vars => UNCHANGED <<job, par, air>>
  BY DEF Look, Expire, Refuse, vars, hostapd
<1>9. QED
  BY Zenon, <1>2, <1>3, <1>4, <1>5, <1>6, <1>7, <1>8 DEF Next

----------------------------------------------------------------------------
(* What is remembered was served.                                          *)

ServedInv ==
  /\ air # None => air.channel \in served
  /\ pref # None => pref.settled \in served
  /\ disk # None => disk.settled \in served

MemoryInv == TypeInv /\ LockedInv /\ ServingInv /\ ServedInv

LEMMA HistoryServed ==
  ASSUME Serves
  PROVE  served \subseteq served' /\ (air' # None => air'.channel \in served')
BY DEF Serves

LEMMA RememberServed ==
  ASSUME ServedInv, Serves, NEW c, NEW w, Remember(c, w, par.channel), ServesPar
  PROVE  ServedInv'
<1>1. served \subseteq served' /\ (air' # None => air'.channel \in served')
  BY HistoryServed
<1>2. CASE air = None
  BY <1>1, <1>2 DEF Remember, ServedInv, store
<1>3. CASE air # None
  <2>1. par.channel \in served
    BY <1>3 DEF ServedInv, ServesPar
  <2>2. /\ pref' = [ch |-> c, w |-> w, settled |-> par.channel]
        /\ disk' = pref' \/ disk' = disk
    BY <1>3 DEF Remember, store
  <2>3. pref'.settled \in served'
    BY <1>1, <2>1, <2>2
  <2>4. QED
    BY <1>1, <2>2, <2>3 DEF ServedInv
<1>4. QED
  BY <1>2, <1>3

LEMMA StoreServed ==
  ASSUME ServedInv, Serves, pref' \in {pref, disk}, disk' = disk
  PROVE  ServedInv'
BY HistoryServed DEF ServedInv

LEMMA ServedHeld ==
  ASSUME MemoryInv, ~Overlap, "readback" \notin Kinds, [Next]_vars
  PROVE  ServedInv'
<1>1. ServedInv /\ ServesPar /\ JobsOK
  BY DEF MemoryInv, ServingInv, TypeInv
<1>2. CASE UNCHANGED vars
  BY <1>1, <1>2 DEF vars, hostapd, store, ServedInv
<1>3. ASSUME Next
      PROVE  /\ Serves
             /\ \/ pref' \in {pref, disk} /\ disk' = disk
                \/ \E c, w : Remember(c, w, par.channel)
  <2>1. Serves
    BY <1>3 DEF Next, NotPoll, History
  <2>2. ASSUME NEW m \in Movers, MoverStep(m)
        PROVE  UNCHANGED store \/ \E c, w : Remember(c, w, par.channel)
    <3>1. CASE Confirm(m)
      BY <1>1, <3>1, ConfirmJob DEF store
    <3>2. CASE Conclude(m)
      BY <3>2 DEF Conclude, Spend
    <3>3. QED
      BY <2>2, <3>1, <3>2 DEF MoverStep, TakeLock, ReadStatus, Announce, Switch, Down, Set, Enable
  <2>3. Ask \/ Recheck \/ Look \/ Decide \/ Expire \/ Restart \/ Refuse => UNCHANGED store
    BY DEF Ask, Recheck, Look, Decide, Expire, Restart, Refuse
  <2>4. Scan \/ Poll \/ SweepEnds \/ Pick => UNCHANGED store
    BY DEF Scan, Poll, SweepEnds, Pick
  <2>5. ScanConclude => UNCHANGED store \/ \E c, w : Remember(c, w, par.channel)
    BY DEF ScanConclude
  <2>6. Crash => pref' = disk /\ disk' = disk
    BY DEF Crash
  <2>7. UNCHANGED store \/ (pref' = disk /\ disk' = disk)
        \/ \E c, w : Remember(c, w, par.channel)
    BY Zenon, <1>3, <2>2, <2>3, <2>4, <2>5, <2>6 DEF Next
  <2>8. QED
    BY <2>1, <2>7 DEF store
<1>4. QED
  BY <1>1, <1>2, <1>3, RememberServed, StoreServed

\* A preference is a place the radio has served, through crashes, failed saves,
\* refused SETs and announcements: on every table of asks, as long as no scan
\* meets a mover at work and hostapd answers the STATUS around a move
\* (rememberChannel, restartVerdict, ChannelStore.Put).
THEOREM RemembersWhatServed ==
  ASSUME ~Overlap, {"status", "readback"} \cap Kinds = {}
  PROVE  Spec => []RememberedWasServed
<1>1. Init => MemoryInv
  <2>1. Init => ServedInv
    BY HomePlaced DEF Init, ServedInv
  <2>2. QED
    BY <2>1, InitTypes, InitLocked, InitServing DEF MemoryInv
<1>2. MemoryInv /\ [Next]_vars => MemoryInv'
  BY TypesKept, LockedKept, ServingHeld, ServedHeld DEF MemoryInv
<1>3. MemoryInv => RememberedWasServed
  BY DEF MemoryInv, ServedInv, RememberedWasServed
<1>4. QED
  BY <1>1, <1>2, <1>3, PTL DEF Spec

----------------------------------------------------------------------------
(* What a restore sets out for.                                            *)

DriftInv == TypeInv /\ LockedInv /\ RestoresOnlyDrift

SetOut == job["restore"].at \in {"status", "announce"}

\* While a restore that has set out waits for hostapd's answer, nobody moves the
\* radio or chooses another place for it.
LEMMA NobodyElse ==
  ASSUME TypeInv, LockedInv, ~Overlap, "meddle" \notin Kinds, Next, SetOut,
         \A m \in Movers : MoverStep(m) => m # "restore",
         ~Crash
  PROVE  UNCHANGED <<par, air, pref>> /\ job'["restore"] = job["restore"]
<1>1. Holds("restore") /\ lock = "restore" /\ lock # None /\ lock # "move"
  BY NoneAssumption DEF SetOut, Holds, LockedInv, Movers
<1>2. ~Holds("move") /\ ~Holds("scan") /\ JobsOK
  BY <1>1 DEF LockedInv, TypeInv
<1>3. ASSUME NEW m \in Movers, MoverStep(m)
      PROVE  FALSE
  <2>1. m # "restore" /\ ~Holds(m) /\ lock # None
    BY <1>1, <1>2, <1>3 DEF Movers
  <2>2. QED
    BY <1>3, <2>1, MoverLock
<1>4. ~(Scan \/ Poll \/ SweepEnds \/ Pick \/ ScanConclude)
  BY <1>1, <1>2, ScanLock
<1>5. ~Restart
  <2>1. Moving
    BY <1>1 DEF Moving, SetOut, Movers
  <2>2. QED
    BY <2>1 DEF Restart, Spend
<1>6. ~Recheck
  BY DEF Recheck, SetOut
<1>7. Ask => job'["restore"] = job["restore"] /\ UNCHANGED <<par, air, pref>>
  BY <1>2, AskJob DEF Ask, Alone, hostapd, store, Movers
<1>8. Decide => job'["restore"] = job["restore"] /\ UNCHANGED <<par, air, pref>>
  <2>1. inFlight
    BY DEF TypeInv, MarkOK, SetOut
  <2>2. QED
    BY <2>1 DEF Decide, hostapd, store
<1>9. Look \/ Expire \/ Refuse => job'["restore"] = job["restore"] /\ UNCHANGED <<par, air, pref>>
  BY DEF Look, Expire, Refuse, hostapd, store
<1>10. QED
  BY Zenon, <1>3, <1>4, <1>5, <1>6, <1>7, <1>8, <1>9 DEF Next

LEMMA DriftKept ==
  ASSUME DriftInv, ~Overlap, "meddle" \notin Kinds, [Next]_vars
  PROVE  RestoresOnlyDrift'
<1>1. TypeInv /\ LockedInv /\ JobsOK /\ RestoresOnlyDrift
  BY DEF DriftInv, TypeInv
<1>2. CASE UNCHANGED vars
  BY <1>1, <1>2 DEF RestoresOnlyDrift, Settled, SatisfiedBy, vars, hostapd, store
<1>3. CASE Next /\ Crash
  <2>1. job'["restore"].at = "idle"
    BY <1>3, FieldsIdle DEF Crash, Movers
  <2>2. QED
    BY <2>1 DEF RestoresOnlyDrift
<1>4. CASE MoverStep("restore")
  <2>1. "restore" \in Movers
    BY DEF Movers
  <2>2. CASE ReadStatus("restore")
    <3>1. job["restore"].at = "status" /\ SameTask("restore")
      BY <1>1, <2>1, <2>2, ReadStatusJob DEF TypeInv, RadioOK
    <3>2. UNCHANGED <<par, air, pref>>
      BY <2>2 DEF ReadStatus, hostapd, store
    <3>3. QED
      BY <1>1, <3>1, <3>2 DEF RestoresOnlyDrift, Settled, SatisfiedBy, SameTask
  <2>3. CASE ~ReadStatus("restore")
    <3>1. job'["restore"].at \notin {"status", "announce"}
      <4>1. CASE TakeLock("restore")
        BY <1>1, <2>1, <4>1, GoJob DEF TakeLock, Stages
      <4>2. CASE Announce("restore")
        BY <1>1, <2>1, <4>2, AnnounceJob
      <4>3. CASE Switch("restore")
        BY <1>1, <2>1, <4>3, GoJob DEF Switch, Stages
      <4>4. CASE Confirm("restore")
        BY <1>1, <2>1, <4>4, ConfirmJob, FieldsIdle
      <4>5. CASE Down("restore")
        BY <1>1, <2>1, <4>5, GoJob, DoneJob, FieldsIdle DEF Down, Stages
      <4>6. CASE Set("restore")
        BY <1>1, <2>1, <4>6, SetStep DEF Set, TypeInv, TasksOK, Tasked, AtWork
      <4>7. CASE Enable("restore")
        BY <1>1, <2>1, <4>7, GoJob DEF Enable, Stages
      <4>8. CASE Conclude("restore")
        BY <1>1, <2>1, <4>8, DoneJob, FieldsIdle DEF Conclude
      <4>9. QED
        BY <1>4, <2>3, <4>1, <4>2, <4>3, <4>4, <4>5, <4>6, <4>7, <4>8 DEF MoverStep
    <3>2. QED
      BY <3>1 DEF RestoresOnlyDrift
  <2>4. QED
    BY <2>2, <2>3
<1>5. CASE SetOut /\ Next /\ ~Crash /\ ~MoverStep("restore")
  <2>1. UNCHANGED <<par, air, pref>> /\ job'["restore"] = job["restore"]
    BY <1>1, <1>5, NobodyElse
  <2>2. QED
    BY <1>1, <2>1 DEF RestoresOnlyDrift, Settled, SatisfiedBy
<1>6. CASE ~SetOut /\ Next /\ ~Crash /\ ~MoverStep("restore")
  <2>1. CASE Recheck
    <3>1. pref # None => pref \in Prefs
      BY <1>1 DEF TypeInv, StoreOK, Choosable
    <3>2. UNCHANGED <<par, air, pref>>
      BY <2>1 DEF Recheck, hostapd, store
    <3>3. \/ job'["restore"] = Idle
          \/ /\ pref # None /\ ~Settled
             /\ job'["restore"].ch = pref.ch /\ job'["restore"].w = pref.w
      BY <1>1, <2>1, <3>1, RecheckJob
    <3>4. QED
      BY <3>2, <3>3, FieldsIdle DEF RestoresOnlyDrift, Settled, SatisfiedBy
  <2>2. CASE ~Recheck
    <3>1. \/ job'["restore"] = job["restore"]
          \/ job'["restore"].at = "wait"
      <4>1. ASSUME NEW m \in Movers, MoverStep(m)
            PROVE  job'["restore"] = job["restore"]
        <5>1. m # "restore" /\ Alone(m)
          BY <1>1, <1>6, <4>1, MoverLock
        <5>2. QED
          BY <5>1 DEF Alone, Movers
      <4>2. CASE Scan \/ Poll \/ SweepEnds \/ Pick \/ ScanConclude
        BY <1>1, <4>2, ScanLock DEF Alone, Movers
      <4>3. CASE Ask
        BY <1>1, <4>3, AskJob DEF Alone, Movers
      <4>4. CASE Decide
        BY <1>1, <4>4, GoJob DEF Decide, Stages, Movers
      <4>5. Look \/ Expire \/ Restart \/ Refuse => UNCHANGED job
        BY DEF Look, Expire, Restart, Refuse
      <4>6. QED
        BY Zenon, <1>6, <2>2, <4>1, <4>2, <4>3, <4>4, <4>5 DEF Next
    <3>2. job'["restore"].at \notin {"status", "announce"}
      BY <1>6, <3>1 DEF SetOut
    <3>3. QED
      BY <3>2 DEF RestoresOnlyDrift
  <2>3. QED
    BY <2>1, <2>2
<1>7. QED
  BY <1>2, <1>3, <1>4, <1>5, <1>6

\* A restore that asks hostapd anything moves the radio to the latest preference,
\* off a place nobody chose, through refusals, crashes and expired readings: on
\* every instance where no scan meets a mover at work and hostapd does not start
\* again under one (restoreOne, #441).
THEOREM MovesOnlyDrift ==
  ASSUME ~Overlap, "meddle" \notin Kinds
  PROVE  Spec => []RestoresOnlyDrift
<1>1. Init => DriftInv
  <2>1. Init => RestoresOnlyDrift
    BY FieldsIdle DEF Init, RestoresOnlyDrift, Movers
  <2>2. QED
    BY <2>1, InitTypes, InitLocked DEF DriftInv
<1>2. DriftInv /\ [Next]_vars => DriftInv'
  BY TypesKept, LockedKept, DriftKept DEF DriftInv
<1>3. DriftInv => RestoresOnlyDrift
  BY DEF DriftInv
<1>4. QED
  BY <1>1, <1>2, <1>3, PTL DEF Spec

----------------------------------------------------------------------------
(* What the poll costs.                                                    *)

\* An outage by a poll is one, and either that poll is not over or its radio is
\* one that nobody polls.
PollInv ==
  /\ dropped \in {0, 1}
  /\ job["scan"].at \in {"sweep", "pick"} /\ job["scan"].mode = "poll" => job["scan"].hurt
  /\ dropped = 1 => \/ cost = "costly"
                    \/ job["scan"].at \in {"sweep", "pick"} /\ job["scan"].mode = "poll"

LEMMA PollStill ==
  ASSUME PollInv, UNCHANGED poll,
         job'["scan"] = job["scan"]
  PROVE  PollInv'
BY DEF PollInv, poll

LEMMA PollKept ==
  ASSUME TypeInv, PollInv, [Next]_vars
  PROVE  PollInv'
<1>1. JobsOK /\ RoutesOK /\ par \in Placed /\ "scan" \in Movers
  BY DEF TypeInv, RadioOK, Movers
<1>2. CASE UNCHANGED vars
  BY <1>2, PollStill DEF vars
<1>3. ASSUME NEW m \in Movers, MoverStep(m), NotPoll
      PROVE  PollInv'
  <2>1. Alone(m) /\ UNCHANGED poll
    BY <1>3, MoverLock DEF NotPoll
  <2>2. CASE m # "scan"
    BY <1>1, <2>1, <2>2, PollStill DEF Alone
  <2>3. CASE m = "scan"
    <3>1. job["scan"].at \in {"down", "set", "enable"} /\ (Down(m) \/ Set(m) \/ Enable(m))
      BY <1>1, <1>3, <2>3 DEF RoutesOK, MoverStep, TakeLock, ReadStatus, Announce, Switch,
                              Confirm, Down, Set, Enable, Conclude
    <3>2. job'["scan"].at \notin {"sweep", "pick"}
      <4>1. CASE Down(m)
        BY <1>1, <2>3, <4>1, GoJob, DoneJob, FieldsIdle DEF Down, Stages
      <4>2. CASE Set(m)
        BY <1>1, <2>3, <4>2, SetStep DEF Set, TypeInv, TasksOK, Tasked, AtWork
      <4>3. CASE Enable(m)
        BY <1>1, <2>3, <4>3, GoJob DEF Enable, Stages
      <4>4. QED
        BY <3>1, <4>1, <4>2, <4>3
    <3>3. QED
      BY <2>1, <3>1, <3>2 DEF PollInv, poll
  <2>4. QED
    BY <2>2, <2>3
<1>4. CASE (Ask \/ Recheck \/ Look \/ Decide \/ Expire \/ Restart \/ Refuse) /\ NotPoll
  <2>1. job'["scan"] = job["scan"]
    <3>1. CASE Ask
      BY <1>1, <3>1, AskJob DEF Alone
    <3>2. CASE Recheck
      BY <1>1, <3>2, RecheckJob DEF Alone, TypeInv, StoreOK, Choosable
    <3>3. CASE Decide
      BY <1>1, <3>3, GoJob DEF Decide, Alone, Stages, Movers
    <3>4. CASE Look \/ Expire \/ Restart \/ Refuse
      BY <3>4 DEF Look, Expire, Restart, Refuse
    <3>5. QED
      BY <1>4, <3>1, <3>2, <3>3, <3>4
  <2>2. QED
    BY <1>4, <2>1, PollStill DEF NotPoll
<1>5. CASE Scan
  <2>1. job["scan"].at = "idle" /\ UNCHANGED poll
    BY <1>5 DEF Scan
  <2>2. job'["scan"].mode = "apply"
    BY <1>1, <1>5, SweepingJob DEF Scan
  <2>3. QED
    BY <2>1, <2>2 DEF PollInv, poll
<1>6. CASE Poll
  <2>1. job["scan"].at = "idle" /\ MayPoll
    BY <1>6 DEF Poll
  <2>2. dropped = 0
    BY <2>1 DEF PollInv, MayPoll
  <2>3. CASE dropped' = dropped + 1 /\ Sweeping("knocks", "poll", "sweep")
    <3>1. /\ job'["scan"].at = "sweep" /\ job'["scan"].mode = "poll"
          /\ job'["scan"].hurt = ("knocks" # "free")
      <4>1. "poll" \in {"apply", "poll"} /\ "sweep" \in {"sweep", "pick"}
        OBVIOUS
      <4>2. QED
        BY Zenon, <1>1, <2>3, <4>1, SweepingJob
    <3>2. job'["scan"].hurt
      BY <3>1
    <3>3. dropped' = 1
      BY <2>2, <2>3
    <3>4. QED
      BY <3>1, <3>2, <3>3 DEF PollInv
  <2>4. CASE UNCHANGED <<job, dropped>>
    BY <2>1, <2>2, <2>4 DEF PollInv
  <2>5. QED
    BY <1>6, <2>3, <2>4 DEF Poll
<1>7. CASE SweepEnds
  <2>1. job["scan"].at = "sweep" /\ UNCHANGED poll
    BY <1>7 DEF SweepEnds
  <2>2. CASE Go("scan", "pick")
    <3>1. job'["scan"].at = "pick" /\ SameScan("scan")
      BY <1>1, <2>2, GoJob DEF Stages
    <3>2. QED
      BY <2>1, <3>1 DEF PollInv, SameScan, poll
  <2>3. CASE job["scan"].mode = "apply" /\ Done("scan")
    <3>1. job'["scan"].at = "idle"
      BY <1>1, <2>3, DoneJob, FieldsIdle
    <3>2. QED
      BY <2>1, <2>3, <3>1 DEF PollInv, poll
  <2>4. QED
    BY <1>7, <2>2, <2>3 DEF SweepEnds
<1>8. CASE Pick
  <2>1. job["scan"].at = "pick"
    BY <1>8 DEF Pick
  <2>2. CASE job'["scan"] = Idle /\ Learned(job["scan"].hurt)
    BY <2>1, <2>2, FieldsIdle DEF PollInv, Learned, RememberCost
  <2>3. CASE job'["scan"].at = "down" /\ job["scan"].mode = "apply" /\ UNCHANGED poll
    BY <2>1, <2>3 DEF PollInv, poll
  <2>4. QED
    BY <1>1, <1>8, <2>2, <2>3, PickJob
<1>9. CASE ScanConclude
  <2>1. job'["scan"].at = "idle" /\ cost' = "costly" /\ dropped' \in {0, dropped}
    BY <1>1, <1>9, DoneJob, FieldsIdle DEF ScanConclude, Learned, RememberCost
  <2>2. QED
    BY <2>1 DEF PollInv
<1>10. CASE Crash
  <2>1. job'["scan"].at = "idle" /\ dropped' = 0
    BY <1>1, <1>10, FieldsIdle DEF Crash
  <2>2. QED
    BY <2>1 DEF PollInv
<1>11. QED
  BY Zenon, <1>2, <1>3, <1>4, <1>5, <1>6, <1>7, <1>8, <1>9, <1>10 DEF Next

\* An access point that a poll took down is not polled again until a scan that
\* somebody asked for has found it free, or the daemon has forgotten: on every
\* instance, whatever a sweep comes to and whoever else is at work (airScanOnce,
\* rememberScanCost).
THEOREM PollsDropOnce == Spec => []PollDropsOnce
<1>1. Init => PollInv
  BY FieldsIdle DEF Init, PollInv, Movers
<1>2. TypeInv /\ PollInv /\ [Next]_vars => PollInv'
  BY PollKept
<1>3. PollInv => PollDropsOnce
  BY DEF PollInv, PollDropsOnce
<1>4. QED
  BY <1>1, <1>2, <1>3, TypesHold, PTL DEF Spec

----------------------------------------------------------------------------
(* Restores are bounded, where every channel is only wanted at one width.  *)

\* The width each channel is wanted at, in both members of a 40 MHz pair the
\* same, since hostapd may exchange them.
WidthEach(width) ==
  /\ width \in [Offered -> {20, 40, 80}]
  /\ \A c \in Offered : SecOffset(c) # 0 => width[Partner(c)] = width[c]
  /\ \A a \in Asks : a[2] = width[a[1]]
  /\ ConfigWidth = width[ConfigChannel]

\* hostapd refuses a move before it has a width, or not at all; it answers, keeps
\* the width it is given, and does not start again under a mover; nobody moves a
\* radio by a scan.
KeepsWidths ==
  /\ ~Overlap /\ Refusable \subseteq {"mode", "vht", "channel"}
  /\ {"meddle", "readback", "status", "narrow", "scan"} \cap Kinds = {}

LEMMA ConfiguredWidth ==
  ASSUME NEW c \in Offered, NEW w \in {20, 40, 80}, w <= MaxWidth(c)
  PROVE  WidthOf(Configured(c, w)) = w
<1> DEFINE q == Configured(c, w)
<1> SUFFICES WidthOf(q) = w
  OBVIOUS
<1>1. w >= 40 => ~Is24(c) /\ SecOffset(c) # 0
  BY DEF MaxWidth
<1>2. w >= 80 => SecOffset(c) # 0 /\ ~Is24(c) /\ w = 80
  BY <1>1
<1>3. /\ q.side = IF Is24(c) \/ w < 40 THEN 0 ELSE SecOffset(c)
      /\ q.vhtWidth = IF ~(Is24(c) \/ w < 40) /\ w >= 80 THEN 1 ELSE 0
      /\ q.heWidth = q.vhtWidth
  BY DEF Configured
<1> HIDE DEF q
<1>4. CASE w = 20
  BY <1>3, <1>4 DEF WidthOf
<1>5. CASE w = 40
  BY <1>1, <1>3, <1>5 DEF WidthOf
<1>6. CASE w = 80
  BY <1>2, <1>3, <1>6 DEF WidthOf
<1>7. QED
  BY <1>4, <1>5, <1>6

\* A landing that is not narrower has the width, and the pair, it was given.
LEMMA LandsWide ==
  ASSUME NEW width, WidthEach(width), "narrow" \notin Kinds,
         NEW p \in Placed, Coherent(p), NEW q \in Landings(p)
  PROVE  WidthOf(q) = WidthOf(p) /\ width[q.channel] = width[p.channel]
<1>1. CASE q = p
  BY <1>1
<1>2. CASE q = Swapped(p) /\ p.side # 0
  <2>1. p.side = SecOffset(p.channel) /\ p.side \in Int /\ p.channel \in Offered /\ p \in Parameters
    BY <1>2 DEF Coherent, Placed, Parameters
  <2>2. p.channel + 4 * p.side \in Int /\ -p.side \in Int /\ -p.side # 0
    BY <1>2, <2>1 DEF Offered, LowBlock, HighBlock
  <2>3. /\ q.channel = p.channel + 4 * p.side /\ q.side = -p.side
        /\ q.vhtWidth = p.vhtWidth /\ q.heWidth = p.heWidth
    BY <1>2, <2>1, <2>2 DEF Swapped, Parameters
  <2>4. WidthOf(q) = WidthOf(p)
    BY <1>2, <2>2, <2>3 DEF WidthOf
  <2>5. width[q.channel] = width[p.channel]
    BY <1>2, <2>1, <2>3 DEF WidthEach, Partner
  <2>6. QED
    BY <2>4, <2>5
<1>3. QED
  BY <1>1, <1>2 DEF Landings

\* The SETs before the channel's change neither channel nor width.
LEMMA SetEarly ==
  ASSUME NEW p \in Parameters, NEW k \in {1, 2}, NEW v \in Int
  PROVE  LET q == [p EXCEPT ![Order[k]] = v]
         IN  q.channel = p.channel /\ WidthOf(q) = WidthOf(p)
<1> DEFINE q == [p EXCEPT ![Order[k]] = v]
<1>1. /\ q.channel = p.channel /\ q.side = p.side
      /\ q.vhtWidth = p.vhtWidth /\ q.heWidth = p.heWidth
  BY DEF Order, Parameters
<1>2. QED
  BY <1>1 DEF WidthOf

LEMMA HomeWidth ==
  ASSUME NEW width, WidthEach(width)
  PROVE  WidthOf(Home) = width[Home.channel]
BY HomePlaced, ConfigAssumption, ConfiguredWidth DEF Home, WidthEach

----------------------------------------------------------------------------
(* Who holds which width.                                                  *)

\* What m has been asked for is of the channel's width.  The access point it read
\* as up has, or would come up with, the width of its channel until that channel
\* is set; and where nothing was refused, it came up as asked.
WidthsOf(m, width) ==
  /\ Tasked(m) => job[m].w = width[job[m].ch]
  /\ \/ job[m].at \in {"announce", "count", "counted", "down", "sweep"}
     \/ job[m].at = "set" /\ job[m].k <= 3
     \/ job[m].at = "enable" /\ job[m].refused
     => (job[m].was => WidthOf(par) = width[par.channel])
  /\ job[m].at = "verdict" /\ ~job[m].refused /\ air # None =>
       width[par.channel] = job[m].w

Wide(p, width) == p # None => p.w = width[p.ch]
ServesWide(width) == air # None => WidthOf(par) = width[par.channel]

\* Only polls scan.
PollsOnly ==
  /\ job["scan"].at \in {"idle", "sweep", "pick"}
  /\ job["scan"].at # "idle" => job["scan"].mode = "poll"

WidthInv(width) ==
  /\ ServesWide(width) /\ Wide(pref, width) /\ Wide(disk, width)
  /\ refusing \in {None} \cup Refusable /\ PollsOnly
  /\ \A m \in Movers : WidthsOf(m, width)

LEMMA InitWidth ==
  ASSUME NEW width, WidthEach(width), Init
  PROVE  WidthInv(width)
<1>1. \A m \in Movers : job[m].at = "idle"
  BY FieldsIdle DEF Init
<1>2. \A m \in Movers : WidthsOf(m, width)
  BY <1>1 DEF WidthsOf, Tasked, AtWork
<1>3. ServesWide(width)
  BY HomeWidth DEF Init, ServesWide
<1>4. Wide(pref, width) /\ Wide(disk, width) /\ refusing \in {None} \cup Refusable
  BY DEF Init, Wide
<1>5. PollsOnly
  BY <1>1 DEF PollsOnly, Movers
<1>6. QED
  BY <1>2, <1>3, <1>4, <1>5 DEF WidthInv

\* The others' part, where the radio does not change under them.
LEMMA WidthsStay ==
  ASSUME NEW width, WidthInv(width), NEW m \in Movers, Alone(m), WidthsOf(m, width)',
         \/ UNCHANGED <<par, air>>
         \/ \A n \in Movers : n # m => ~Holds(n)
  PROVE  \A n \in Movers : WidthsOf(n, width)'
<1> SUFFICES ASSUME NEW n \in Movers, n # m PROVE WidthsOf(n, width)'
  OBVIOUS
<1>1. job'[n] = job[n] /\ WidthsOf(n, width)
  BY DEF Alone, WidthInv
<1>2. CASE UNCHANGED <<par, air>>
  BY <1>1, <1>2 DEF WidthsOf, Tasked
<1>3. CASE ~Holds(n)
  BY <1>1, <1>3 DEF WidthsOf, Holds, Tasked
<1>4. QED
  BY <1>2, <1>3

\* A mover that takes a preference or an ask for the channel's width.
LEMMA WidthsWaiting ==
  ASSUME NEW width, NEW m \in Movers,
         job'[m].at \in {"idle", "wait", "begin", "status", "pick"},
         Tasked(m)' => job'[m].w = width[job'[m].ch]
  PROVE  WidthsOf(m, width)'
BY DEF WidthsOf

\* Where the access point comes up with the width of its channel it keeps it.
LEMMA ComeUpWide ==
  ASSUME NEW width, WidthEach(width), "narrow" \notin Kinds, par \in Placed, ServesWide(width),
         ComeUp, air = None => WidthOf(par) = width[par.channel]
  PROVE  ServesWide(width)' /\ width[par'.channel] = width[par.channel]
<1>1. CASE air = None /\ Coherent(par)
  <2>1. PICK p \in Landings(par) : par' = p
    BY <1>1 DEF ComeUp
  <2>2. WidthOf(p) = WidthOf(par) /\ width[p.channel] = width[par.channel]
    BY <1>1, LandsWide
  <2>3. QED
    BY <1>1, <2>1, <2>2 DEF ServesWide
<1>2. CASE ~(air = None /\ Coherent(par))
  BY <1>2 DEF ComeUp, ServesWide
<1>3. QED
  BY <1>1, <1>2

\* A move that is remembered with the access point up has settled.
LEMMA RememberSettles ==
  ASSUME NEW width, ServesWide(width), Wide(disk, width),
         NEW c \in Offered, NEW w \in Nat, par.channel \in Offered,
         w = width[c], w = width[par.channel],
         Remember(c, w, par.channel), UNCHANGED <<par, air>>
  PROVE  \/ air = None /\ UNCHANGED <<store, tries, gaveUp>>
         \/ Settled' /\ Forgive /\ Wide(pref', width) /\ Wide(disk', width)
<1>1. CASE air = None
  BY <1>1 DEF Remember
<1>2. CASE air # None
  <2> DEFINE p == [ch |-> c, w |-> w, settled |-> par.channel]
  <2>1. pref' = p /\ (disk' = pref' \/ disk' = disk) /\ Forgive
    BY <1>2 DEF Remember, store
  <2>2. p \in Prefs /\ p.ch = c /\ p.w = w /\ p.settled = par.channel
    BY DEF Prefs
  <2> HIDE DEF p
  <2>3. pref' # None
    BY <2>1, <2>2, NoneAssumption
  <2>4. WidthOf(par') = w /\ par'.channel = par.channel /\ air' # None
    BY <1>2 DEF ServesWide
  <2>5. par.channel # 0
    BY DEF Offered, LowBlock, HighBlock
  <2>6. Settled'
    BY <2>1, <2>2, <2>3, <2>4, <2>5 DEF Settled, SatisfiedBy
  <2>7. Wide(pref', width) /\ Wide(disk', width)
    BY <2>1, <2>2 DEF Wide
  <2>8. QED
    BY <2>1, <2>6, <2>7
<1>3. QED
  BY <1>1, <1>2

LEMMA WidthStep ==
  ASSUME NEW width, WidthInv(width), NEW m \in Movers, Alone(m), WidthsOf(m, width)',
         ServesWide(width)', Wide(pref', width), Wide(disk', width),
         refusing' \in {None} \cup Refusable, m = "scan" => PollsOnly',
         \/ UNCHANGED <<par, air>>
         \/ \A n \in Movers : n # m => ~Holds(n)
  PROVE  WidthInv(width)'
<1>1. \A n \in Movers : WidthsOf(n, width)'
  BY WidthsStay
<1>2. PollsOnly'
  BY DEF WidthInv, PollsOnly, Alone, Movers
<1>3. Wide(pref, width)' /\ Wide(disk, width)'
  BY DEF Wide
<1>4. QED
  BY <1>1, <1>2, <1>3 DEF WidthInv

\* What a step makes of the memory.
Settles == UNCHANGED <<store, tries>> \/ (Settled' /\ tries' = 0)

LEMMA MoverWidths ==
  ASSUME NEW width, WidthEach(width), KeepsWidths, WidthInv(width),
         TypeInv, LockedInv, SetsInv, ServingInv,
         NEW m \in Movers, MoverStep(m)
  PROVE  WidthInv(width)' /\ Settles
<1>1. JobsOK /\ RoutesOK /\ TasksOK /\ par \in Placed /\ par \in Parameters
      /\ par.channel \in Offered
  BY DEF TypeInv, RadioOK, Placed
<1>2. /\ Alone(m) /\ DarkOf(m) /\ SetsOf(m) /\ WidthsOf(m, width)
      /\ ServesWide(width) /\ refusing \in {None} \cup Refusable
      /\ Wide(pref, width) /\ Wide(disk, width)
  BY MoverLock DEF ServingInv, SetsInv, WidthInv
<1>3. m # "scan"
  BY DEF MoverStep, TakeLock, ReadStatus, Announce, Switch, Confirm, Down, Set, Enable, Conclude,
         WidthInv, PollsOnly
<1>4. Holds(m) => \A n \in Movers : n # m => ~Holds(n)
  BY OneAtATime
<1>5. Tasked(m) => /\ job[m].ch \in Offered /\ job[m].w = width[job[m].ch]
                   /\ job[m].w \in {20, 40, 80} /\ job[m].w <= MaxWidth(job[m].ch)
  BY <1>1, <1>2 DEF WidthsOf, TasksOK, WidthEach
<1>6. ASSUME UNCHANGED <<hostapd, store, tries>>, WidthsOf(m, width)'
      PROVE  WidthInv(width)' /\ Settles
  <2>1. UNCHANGED <<par, air, refusing, pref, disk>>
    BY <1>6 DEF hostapd, store
  <2>2. ServesWide(width)' /\ Wide(pref', width) /\ Wide(disk', width)
    BY <1>2, <2>1 DEF ServesWide
  <2>3. QED
    BY <1>2, <1>3, <1>6, <2>1, <2>2, WidthStep DEF Settles
<1>7. CASE TakeLock(m)
  <2>1. job[m].at = "wait" /\ UNCHANGED <<hostapd, store, tries>>
    BY <1>7 DEF TakeLock, restore
  <2>2. /\ job'[m].at = IF m = "restore" THEN "begin" ELSE "status"
        /\ SameTask(m)
    BY <1>1, <1>7, GoJob DEF TakeLock, Stages
  <2>3. Tasked(m)' => Tasked(m)
    BY <1>3, <2>1, <2>2 DEF Tasked, AtWork, Movers
  <2>4. WidthsOf(m, width)'
    BY <1>5, <2>2, <2>3, WidthsWaiting DEF SameTask
  <2>5. QED
    BY <1>6, <2>1, <2>4
<1>8. CASE ReadStatus(m)
  <2>1. UNCHANGED <<hostapd, store, tries>>
    BY <1>8 DEF ReadStatus, restore
  <2>2. /\ job[m].at = "status" /\ job'[m].at \in {"announce", "down"}
        /\ job'[m].was => air # None
        /\ SameTask(m)
    BY <1>1, <1>8, ReadStatusJob
  <2>3. WidthsOf(m, width)'
    BY <1>2, <1>5, <2>1, <2>2 DEF WidthsOf, ServesWide, SameTask, Tasked, AtWork, hostapd
  <2>4. QED
    BY <1>6, <2>1, <2>3
<1>9. CASE Announce(m)
  <2>1. UNCHANGED <<hostapd, store, tries>>
    BY <1>9 DEF Announce, restore
  <2>2. job[m].at = "announce" /\ job'[m].at \in {"count", "down"} /\ SameTask(m) /\ SameStatus(m)
    BY <1>1, <1>9, AnnounceJob
  <2>3. WidthsOf(m, width)'
    BY <1>2, <1>5, <2>1, <2>2 DEF WidthsOf, SameTask, SameStatus, Tasked, AtWork, hostapd
  <2>4. QED
    BY <1>6, <2>1, <2>3
<1>10. CASE Switch(m)
  <2>1. /\ job[m].at = "count" /\ par' = Configured(job[m].ch, job[m].w) /\ air' = par'
        /\ UNCHANGED <<refusing, store, tries>>
    BY <1>10 DEF Switch, restore
  <2>2. job'[m].at = "counted" /\ SameTask(m) /\ SameStatus(m)
    BY <1>1, <1>10, GoJob DEF Switch, Stages
  <2>3. Tasked(m) /\ Holds(m)
    BY <2>1 DEF Tasked, AtWork, Holds
  <2>4. WidthOf(par') = width[par'.channel]
    BY <1>5, <2>1, <2>3, ConfiguredWidth, ConfiguredType
  <2>5. WidthsOf(m, width)' /\ ServesWide(width)'
    BY <1>5, <2>2, <2>3, <2>4 DEF WidthsOf, ServesWide, SameTask
  <2>6. QED
    BY <1>2, <1>3, <1>4, <2>1, <2>3, <2>5, WidthStep DEF Settles, store
<1>11. CASE Confirm(m)
  <2>1. UNCHANGED hostapd /\ job[m].at \in {"count", "counted"}
    BY <1>1, <1>11, ConfirmJob DEF Confirm
  <2>2. CASE job'[m].at = "down" /\ UNCHANGED <<store, lock, restore>> /\ SameTask(m) /\ SameStatus(m)
    <3>1. WidthsOf(m, width)'
      BY <1>2, <1>5, <2>1, <2>2 DEF WidthsOf, SameTask, SameStatus, Tasked, AtWork, hostapd
    <3>2. QED
      BY <1>6, <2>1, <2>2, <3>1 DEF restore
  <2>3. CASE /\ job'[m] = Idle /\ par.channel = job[m].ch
             /\ Remember(job[m].ch, job[m].w, job[m].ch)
    <3>1. WidthsOf(m, width)'
      BY <2>3, FieldsIdle, WidthsWaiting DEF Tasked, AtWork
    <3>2. Tasked(m) /\ UNCHANGED <<par, air, refusing>>
      BY <2>1 DEF Tasked, AtWork, hostapd
    <3>3. \/ UNCHANGED <<store, tries, gaveUp>>
          \/ Settled' /\ Forgive /\ Wide(pref', width) /\ Wide(disk', width)
      BY <1>1, <1>2, <1>5, <2>3, <3>2, RememberSettles
    <3>4. Wide(pref', width) /\ Wide(disk', width) /\ Settles
      BY <1>2, <3>3 DEF Settles, Forgive, store
    <3>5. QED
      BY <1>2, <1>3, <3>1, <3>2, <3>4, WidthStep DEF ServesWide
  <2>4. QED
    BY <1>1, <1>11, <2>2, <2>3, ConfirmJob
<1>12. CASE Down(m)
  <2>1. job[m].at = "down" /\ UNCHANGED <<par, refusing, store, tries>>
    BY <1>12 DEF Down
  <2>2. CASE Go(m, "set") /\ air' = IF job[m].was THEN None ELSE air
    <3>1. job'[m].at = "set" /\ SameTask(m) /\ SameStatus(m)
      BY <1>1, <2>2, GoJob DEF Stages
    <3>2. air' = None /\ Holds(m)
      BY <1>2, <2>1, <2>2 DEF DarkOf, Holds
    <3>3. WidthsOf(m, width)'
      BY <1>2, <1>5, <2>1, <3>1 DEF WidthsOf, SameTask, SameStatus, Tasked, AtWork
    <3>4. QED
      BY <1>2, <1>3, <1>4, <2>1, <3>2, <3>3, WidthStep DEF Settles, ServesWide, store
  <2>3. CASE Done(m) /\ UNCHANGED air
    <3>1. job'[m] = Idle
      BY <1>1, <2>3, DoneJob
    <3>2. WidthsOf(m, width)'
      BY <3>1, FieldsIdle, WidthsWaiting DEF Tasked, AtWork
    <3>3. QED
      BY <1>2, <1>3, <2>1, <2>3, <3>2, WidthStep DEF Settles, ServesWide, store
  <2>4. QED
    BY <1>12, <2>2, <2>3 DEF Down
<1>13. CASE Set(m)
  <2>1. /\ job[m].at = "set" /\ Tasked(m) /\ Holds(m)
        /\ UNCHANGED <<air, refusing, store, tries>>
    BY <1>13 DEF Set, Tasked, AtWork, Holds, restore
  <2>2. air = None /\ ~job[m].refused
    BY <1>2, <2>1 DEF DarkOf, SetsOf
  <2>3. job[m].k \in 1..8 /\ SameTask(m) /\ SameStatus(m) /\ job'[m].at \in {"set", "enable"}
    BY <1>1, <1>5, <1>13, <2>1, SetStep DEF JobsOK, Jobs
  <2>4. \/ job'[m].at = "set" /\ job'[m].k <= 3
        \/ job'[m].at = "enable" /\ job'[m].refused
        => par'.channel = par.channel /\ WidthOf(par') = WidthOf(par) /\ job[m].k <= 3
    <3>1. CASE par' = par /\ Order[job[m].k] = refusing
      <4>1. refusing \in Params
        BY <2>3, <3>1 DEF Params
      <4>2. refusing \in {"mode", "vht", "channel"}
        BY <1>2, <4>1, NoneAssumption DEF KeepsWidths
      <4>3. job[m].k <= 3
        BY <2>3, <3>1, <4>2 DEF Order
      <4>4. QED
        BY <3>1, <4>3
    <3>2. CASE /\ par' = [par EXCEPT ![Order[job[m].k]] =
                            Configured(job[m].ch, job[m].w)[Order[job[m].k]]]
               /\ job'[m].refused = job[m].refused
               /\ \/ job[m].k = 8 /\ job'[m].at = "enable"
                  \/ job[m].k < 8 /\ job'[m].at = "set" /\ job'[m].k = job[m].k + 1
      <4> DEFINE v == Configured(job[m].ch, job[m].w)[Order[job[m].k]]
      <4>1. CASE job[m].k \in {1, 2}
        <5>1. v \in Int
          <6>1. Configured(job[m].ch, job[m].w) \in Parameters
            BY <1>5, <2>1, ConfiguredType DEF Placed
          <6>2. QED
            BY <4>1, <6>1 DEF Parameters, Order
        <5>2. par' = [par EXCEPT ![Order[job[m].k]] = v]
          BY <3>2
        <5> HIDE DEF v
        <5>3. par'.channel = par.channel /\ WidthOf(par') = WidthOf(par)
          BY <1>1, <4>1, <5>1, <5>2, SetEarly
        <5>4. QED
          BY <4>1, <5>3
      <4>2. CASE job[m].k \notin {1, 2}
        BY <2>2, <2>3, <3>2, <4>2
      <4>3. QED
        BY <4>1, <4>2
    <3>3. QED
      BY <1>1, <1>5, <1>13, <2>1, <3>1, <3>2, SetStep
  <2>5. WidthsOf(m, width)'
    BY <1>2, <1>5, <2>1, <2>3, <2>4 DEF WidthsOf, SameTask, SameStatus
  <2>6. QED
    BY <1>2, <1>3, <1>4, <2>1, <2>2, <2>5, WidthStep DEF Settles, ServesWide, store
<1>14. CASE Enable(m)
  <2>1. /\ job[m].at = "enable" /\ Tasked(m) /\ Holds(m)
        /\ IF job[m].was THEN ComeUp ELSE UNCHANGED <<par, air>>
        /\ UNCHANGED <<refusing, store, tries>>
    BY <1>14 DEF Enable, Tasked, AtWork, Holds, restore
  <2>2. job'[m].at = "verdict" /\ SameTask(m) /\ SameSets(m)
    BY <1>1, <1>14, GoJob DEF Enable, Stages
  <2>3. air = None
    BY <1>2, <2>1 DEF DarkOf
  <2>4. ~job[m].refused => par.channel = job[m].ch /\ WidthOf(par) = width[par.channel]
    BY <1>2, <1>5, <2>1, ConfiguredWidth, ConfiguredType DEF SetsOf
  <2>5. ServesWide(width)' /\ (air' = None \/ width[par'.channel] = width[par.channel])
    <3>1. CASE job[m].was
      <4>1. WidthOf(par) = width[par.channel]
        BY <1>2, <2>1, <2>4, <3>1 DEF WidthsOf
      <4>2. QED
        BY <1>1, <1>2, <2>1, <3>1, <4>1, ComeUpWide DEF KeepsWidths
    <3>2. CASE ~job[m].was
      BY <2>1, <2>3, <3>2 DEF ServesWide
    <3>3. QED
      BY <3>1, <3>2
  <2>6. WidthsOf(m, width)'
    BY <1>5, <2>1, <2>2, <2>4, <2>5 DEF WidthsOf, SameTask, SameSets
  <2>7. QED
    BY <1>2, <1>3, <1>4, <2>1, <2>5, <2>6, WidthStep DEF Settles, store
<1>15. CASE Conclude(m)
  <2>1. /\ job[m].at = "verdict" /\ Tasked(m) /\ UNCHANGED <<par, air, refusing>>
        /\ job'[m] = Idle
    BY <1>1, <1>15, DoneJob DEF Conclude, Tasked, AtWork, hostapd
  <2>2. IF (job[m].was /\ air = None) \/ (par.channel # job[m].ch /\ job[m].refused)
        THEN UNCHANGED <<store, tries, gaveUp, condemned>>
        ELSE Remember(job[m].ch, job[m].w, par.channel)
    BY <1>15 DEF Conclude, KeepsWidths, Spend
  <2>3. WidthsOf(m, width)'
    BY <2>1, FieldsIdle, WidthsWaiting DEF Tasked, AtWork
  <2>4. \/ UNCHANGED <<store, tries>>
        \/ Settled' /\ Forgive /\ Wide(pref', width) /\ Wide(disk', width)
    <3>1. CASE UNCHANGED <<store, tries, gaveUp, condemned>>
      BY <3>1
    <3>2. CASE air = None /\ Remember(job[m].ch, job[m].w, par.channel)
      BY <3>2 DEF Remember
    <3>3. CASE /\ air # None /\ Remember(job[m].ch, job[m].w, par.channel)
               /\ par.channel = job[m].ch \/ ~job[m].refused
      <4>1. job[m].w = width[par.channel]
        BY <1>2, <1>5, <2>1, <3>3 DEF WidthsOf
      <4>2. QED
        BY <1>1, <1>2, <1>5, <2>1, <3>3, <4>1, RememberSettles
    <3>4. QED
      BY <2>2, <3>1, <3>2, <3>3
  <2>5. Wide(pref', width) /\ Wide(disk', width) /\ Settles
    BY <1>2, <2>4 DEF Settles, Forgive, store
  <2>6. QED
    BY <1>2, <1>3, <2>1, <2>3, <2>5, WidthStep DEF ServesWide
<1>16. QED
  BY <1>7, <1>8, <1>9, <1>10, <1>11, <1>12, <1>13, <1>14, <1>15 DEF MoverStep

\* A poll, which is all that scans.
LEMMA ScanWidths ==
  ASSUME NEW width, WidthEach(width), KeepsWidths, WidthInv(width),
         TypeInv, LockedInv, ServingInv,
         Scan \/ Poll \/ SweepEnds \/ Pick \/ ScanConclude
  PROVE  WidthInv(width)' /\ UNCHANGED <<store, tries>>
<1>1. JobsOK /\ par \in Placed /\ "scan" \in Movers
  BY DEF TypeInv, RadioOK, Movers
<1>2. /\ Alone("scan") /\ WidthsOf("scan", width) /\ DarkOf("scan")
      /\ ServesWide(width) /\ refusing \in {None} \cup Refusable
      /\ Wide(pref, width) /\ Wide(disk, width) /\ PollsOnly
  BY <1>1, ScanLock DEF ServingInv, WidthInv, KeepsWidths
<1>3. ~Scan /\ ~ScanConclude
  BY <1>2 DEF Scan, ScanConclude, Spend, KeepsWidths, PollsOnly
<1>4. Holds("scan") => \A n \in Movers : n # "scan" => ~Holds(n)
  BY <1>1, OneAtATime
<1>5. CASE Poll
  <2>1. /\ job["scan"].at = "idle" /\ air # None /\ lock = None
        /\ UNCHANGED <<par, refusing, store, tries>>
    BY <1>5 DEF Poll, KeepsWidths, restore
  <2>2. \A n \in Movers : n # "scan" => ~Holds(n)
    BY <2>1, NoneAssumption DEF LockedInv, Movers
  <2>3. CASE air' = None /\ Sweeping("knocks", "poll", "sweep")
    <3>1. "poll" \in {"apply", "poll"} /\ "sweep" \in {"sweep", "pick"}
      OBVIOUS
    <3>2. job'["scan"].at = "sweep" /\ job'["scan"].mode = "poll"
      BY Zenon, <1>1, <2>3, <3>1, SweepingJob
    <3>3. WidthsOf("scan", width)'
      BY <1>2, <2>1, <3>2 DEF WidthsOf, Tasked, AtWork, ServesWide
    <3>4. PollsOnly'
      BY <3>2 DEF PollsOnly
    <3>5. QED
      BY <1>1, <1>2, <2>1, <2>2, <2>3, <3>3, <3>4, WidthStep DEF ServesWide, store
  <2>4. CASE UNCHANGED <<air, job>>
    <3>1. WidthsOf("scan", width)' /\ PollsOnly'
      BY <1>2, <2>1, <2>4 DEF WidthsOf, Tasked, PollsOnly
    <3>2. QED
      BY <1>1, <1>2, <2>1, <2>2, <2>4, <3>1, WidthStep DEF ServesWide, store
  <2>5. QED
    BY <1>5, <2>3, <2>4 DEF Poll
<1>6. CASE SweepEnds
  <2>1. /\ job["scan"].at = "sweep" /\ job["scan"].mode = "poll" /\ Holds("scan")
        /\ ComeUp /\ UNCHANGED <<refusing, store, tries>>
    BY <1>2, <1>6 DEF SweepEnds, PollsOnly, Holds
  <2>2. job'["scan"].at = "pick" /\ SameScan("scan")
    BY <1>1, <1>6, <2>1, GoJob DEF SweepEnds, Stages
  <2>3. job["scan"].was
    BY <1>2, <2>1 DEF DarkOf
  <2>4. ServesWide(width)'
    BY <1>1, <1>2, <2>1, <2>3, ComeUpWide DEF WidthsOf, KeepsWidths
  <2>5. WidthsOf("scan", width)'
    BY <1>1, <2>2, WidthsWaiting DEF Tasked, AtWork
  <2>6. PollsOnly'
    BY <2>1, <2>2 DEF PollsOnly, SameScan
  <2>7. QED
    BY <1>1, <1>2, <1>4, <2>1, <2>4, <2>5, <2>6, WidthStep DEF store
<1>7. CASE Pick
  <2>1. UNCHANGED <<par, air, refusing, store, tries>> /\ job["scan"].mode = "poll"
    BY <1>2, <1>7 DEF Pick, hostapd, PollsOnly
  <2>2. job'["scan"] = Idle
    BY <1>1, <1>7, <2>1, PickJob
  <2>3. WidthsOf("scan", width)' /\ PollsOnly'
    BY <1>1, <2>2, FieldsIdle, WidthsWaiting DEF Tasked, AtWork, PollsOnly
  <2>4. QED
    BY <1>1, <1>2, <2>1, <2>3, WidthStep DEF ServesWide, store
<1>8. QED
  BY <1>3, <1>5, <1>6, <1>7

\* The tick, what is asked, and what happens to the radio.
LEMMA WorldWidths ==
  ASSUME NEW width, WidthEach(width), KeepsWidths, WidthInv(width), TypeInv,
         Ask \/ Recheck \/ Look \/ Decide \/ Expire \/ Restart \/ Refuse
  PROVE  WidthInv(width)' /\ UNCHANGED store
<1>1. JobsOK /\ par \in Placed /\ "move" \in Movers /\ "restore" \in Movers
  BY DEF TypeInv, RadioOK, Movers
<1>2. /\ ServesWide(width) /\ refusing \in {None} \cup Refusable
      /\ Wide(pref, width) /\ Wide(disk, width) /\ PollsOnly
      /\ \A m \in Movers : WidthsOf(m, width)
  BY DEF WidthInv
<1>3. CASE Ask
  <2>1. UNCHANGED hostapd /\ UNCHANGED store
    BY <1>3 DEF Ask
  <2>2. Alone("move") /\ job'["move"].at = "wait" /\ job'["move"].w = width[job'["move"].ch]
    BY <1>1, <1>3, AskJob DEF WidthEach
  <2>3. WidthsOf("move", width)'
    BY <1>1, <2>2, WidthsWaiting
  <2>4. QED
    BY <1>1, <1>2, <2>1, <2>2, <2>3, WidthStep DEF ServesWide, hostapd, store
<1>4. CASE Recheck
  <2>1. UNCHANGED hostapd /\ UNCHANGED store
    BY <1>4 DEF Recheck
  <2>2. /\ Alone("restore")
        /\ \/ job'["restore"] = Idle
           \/ /\ job'["restore"].at = "status" /\ pref # None
              /\ job'["restore"].ch = pref.ch /\ job'["restore"].w = pref.w
    BY <1>1, <1>4, RecheckJob DEF TypeInv, StoreOK, Choosable
  <2>3. WidthsOf("restore", width)'
    BY <1>1, <1>2, <2>2, FieldsIdle, WidthsWaiting DEF Tasked, AtWork, Wide
  <2>4. QED
    BY <1>1, <1>2, <2>1, <2>2, <2>3, WidthStep DEF ServesWide, hostapd, store
<1>5. CASE Decide
  <2>1. UNCHANGED hostapd /\ UNCHANGED store
    BY <1>5 DEF Decide
  <2>2. CASE UNCHANGED job
    BY <1>1, <1>2, <2>1, <2>2, WidthStep DEF Alone, WidthsOf, Tasked, ServesWide, hostapd, store
  <2>3. CASE Go("restore", "wait")
    <3>1. Alone("restore") /\ job'["restore"].at = "wait"
      BY <1>1, <2>3, GoJob DEF Stages
    <3>2. WidthsOf("restore", width)'
      BY <1>1, <3>1, WidthsWaiting DEF Tasked, AtWork
    <3>3. QED
      BY <1>1, <1>2, <2>1, <3>1, <3>2, WidthStep DEF ServesWide, hostapd, store
  <2>4. QED
    BY <1>5, <2>2, <2>3 DEF Decide
<1>6. CASE Restart
  <2>1. ~Moving /\ UNCHANGED <<refusing, store, job>>
    BY <1>6 DEF Restart, Spend, KeepsWidths
  <2>2. PICK p \in Landings(Home) : par' = p /\ air' = p
    BY <1>6 DEF Restart
  <2>3. ServesWide(width)'
    BY <2>2, HomePlaced, HomeWidth, LandsWide DEF ServesWide, KeepsWidths
  <2>4. \A m \in Movers : WidthsOf(m, width)'
    BY <1>2, <2>1 DEF WidthsOf, Moving, Tasked
  <2>5. QED
    BY <1>2, <2>1, <2>3, <2>4 DEF WidthInv, Wide, PollsOnly, store
<1>7. CASE Refuse
  <2>1. /\ UNCHANGED <<par, air, store, job>> /\ refusing' \in {None} \cup Refusable
    BY <1>7 DEF Refuse
  <2>2. QED
    BY <1>2, <2>1 DEF WidthInv, WidthsOf, Tasked, ServesWide, Wide, PollsOnly, store
<1>8. CASE Look \/ Expire
  <2>1. UNCHANGED <<hostapd, store, job>>
    BY <1>8 DEF Look, Expire
  <2>2. QED
    BY <1>2, <2>1 DEF WidthInv, WidthsOf, Tasked, ServesWide, Wide, PollsOnly, store, hostapd
<1>9. QED
  BY <1>3, <1>4, <1>5, <1>6, <1>7, <1>8

LEMMA CrashWidths ==
  ASSUME NEW width, WidthInv(width), Crash
  PROVE  WidthInv(width)'
<1>1. /\ UNCHANGED <<par, air, refusing, disk>> /\ pref' = disk
      /\ \A m \in Movers : job'[m] = Idle
  BY DEF Crash, hostapd
<1>2. \A m \in Movers : WidthsOf(m, width)'
  BY <1>1, FieldsIdle, WidthsWaiting DEF Tasked, AtWork
<1>3. PollsOnly'
  BY <1>1, FieldsIdle DEF PollsOnly, Movers
<1>4. QED
  BY <1>1, <1>2, <1>3 DEF WidthInv, ServesWide, Wide

----------------------------------------------------------------------------
(* The account of the restores.                                            *)

Pending == IF job["restore"].at \in {"wait", "begin"} THEN 1 ELSE 0

\* A restore that sets out, and one about to, has been counted among the tries,
\* but for one that had begun before they were forgotten.
CountsInv == futile + Pending <= tries + 1
\* The tick forgets the tries over a preference that is no longer held, or a
\* reading of the radio that is no longer true, only where no restore has come to
\* nothing since.
LookInv == look \notin {None, pref} => futile + Pending <= 1
SeenThere == /\ seen # None /\ seen.serving /\ pref # None
             /\ SatisfiedBy(pref, seen.channel, seen.width)

AccountInv ==
  /\ CountsInv /\ LookInv
  /\ Settled => futile = 0
  /\ SeenThere => futile = 0

NewlyPending == job'["restore"].at \in {"wait", "begin"} /\ Pending = 0

LEMMA HistoryCounts ==
  ASSUME TypeInv, History
  PROVE  /\ futile' \in Nat /\ (Settled' => futile' = 0)
         /\ ~SetsOut => futile' \in {futile, 0}
         /\ ~NewlyPending => futile' + Pending' <= futile + Pending
<1>1. futile \in Nat /\ futile' \in Nat
  BY HistoryTypes DEF TypeInv, PollOK
<1>2. futile' \in {futile, 0, futile + 1} /\ (Settled' => futile' = 0)
      /\ (~SetsOut => futile' \in {futile, 0})
  BY DEF History
<1>3. SetsOut => Pending = 1 /\ Pending' = 0
  BY DEF SetsOut, Pending
<1>4. ~NewlyPending => Pending' <= Pending /\ Pending \in {0, 1} /\ Pending' \in {0, 1}
  BY DEF NewlyPending, Pending
<1>5. ~NewlyPending => futile' + Pending' <= futile + Pending
  BY <1>1, <1>2, <1>3, <1>4
<1>6. QED
  BY <1>1, <1>2, <1>5

LEMMA StillCounted ==
  ASSUME NEW f \in Nat, NEW g \in Nat, NEW p \in {0, 1}, NEW q \in {0, 1}, NEW t \in Nat,
         g + q <= f + p
  PROVE  (f + p <= t + 1 => g + q <= t + 1) /\ (f + p <= 1 => g + q <= 1)
OBVIOUS

LEMMA NoneAndOne ==
  ASSUME NEW g \in Nat, NEW q \in {0, 1}, g = 0
  PROVE  g + q <= 0 + 1 /\ g + q <= 1
OBVIOUS

LEMMA OneMore ==
  ASSUME NEW f \in Nat, NEW g \in Nat, NEW q \in {0, 1}, NEW t \in Nat, NEW p, p = 0,
         g <= f, f + p <= t + 1
  PROVE  g + q <= (t + 1) + 1
OBVIOUS

\* A step that leaves the memory alone, or that settles it, keeps the account.
LEMMA AccountStays ==
  ASSUME TypeInv, AccountInv, History, ~NewlyPending, Settles,
         look' \in {look, None, pref'},
         seen' = Reading' \/ (~SetsOut /\ seen' \in {seen, None})
  PROVE  AccountInv'
<1>1. /\ futile' \in Nat /\ futile' + Pending' <= futile + Pending
      /\ (Settled' => futile' = 0) /\ (~SetsOut => futile' \in {futile, 0})
  BY HistoryCounts
<1>2. futile \in Nat /\ tries \in Nat /\ Pending \in {0, 1}
  BY BudgetAssumption DEF TypeInv, PollOK, TriesOK, Pending
<1>3. Pending' \in {0, 1}
  BY DEF Pending
<1>4. /\ futile + Pending <= tries + 1 => futile' + Pending' <= tries + 1
      /\ futile + Pending <= 1 => futile' + Pending' <= 1
  BY <1>1, <1>2, <1>3, StillCounted
<1>5. seen' = Reading' => (SeenThere' => Settled')
  <2> SUFFICES ASSUME seen' = Reading', SeenThere' PROVE Settled'
    OBVIOUS
  <2>1. /\ seen'.channel = par'.channel /\ seen'.width = WidthOf(par')
        /\ seen'.serving <=> air' # None
    BY DEF Reading
  <2>2. QED
    BY <2>1 DEF SeenThere, Settled
<1>6. CASE pref' = pref /\ tries' = tries
  <2>1. CountsInv' /\ LookInv'
    BY <1>4, <1>6 DEF AccountInv, CountsInv, LookInv
  <2>2. SeenThere' => futile' = 0
    <3>1. CASE seen' = Reading'
      BY <1>1, <1>5, <3>1
    <3>2. CASE ~SetsOut /\ seen' \in {seen, None}
      BY <1>1, <1>6, <3>2 DEF AccountInv, SeenThere, SatisfiedBy
    <3>3. QED
      BY <3>1, <3>2
  <2>3. QED
    BY <1>1, <2>1, <2>2 DEF AccountInv
<1>7. CASE Settled' /\ tries' = 0
  <2>1. futile' = 0
    BY <1>1, <1>7
  <2>2. futile' + Pending' <= 0 + 1 /\ futile' + Pending' <= 1
    BY <1>1, <1>3, <2>1, NoneAndOne
  <2>3. CountsInv' /\ LookInv'
    BY <1>7, <2>2 DEF CountsInv, LookInv
  <2>4. QED
    BY <1>1, <2>1, <2>3 DEF AccountInv
<1>8. QED
  BY <1>6, <1>7 DEF Settles, store

\* A mover's step puts no restore in line.
LEMMA MoverPends ==
  ASSUME TypeInv, NEW m \in Movers, MoverStep(m)
  PROVE  ~SetsOut /\ ~NewlyPending
<1>1. JobsOK /\ RoutesOK /\ par \in Placed /\ Alone(m)
  BY MoverLock DEF TypeInv, RadioOK
<1>2. CASE m # "restore"
  BY <1>1, <1>2 DEF Alone, SetsOut, NewlyPending, Pending, Movers
<1>3. CASE m = "restore"
  <2>1. CASE TakeLock(m)
    BY <1>3, <2>1 DEF TakeLock, SetsOut, NewlyPending, Pending
  <2>2. CASE ~TakeLock(m)
    <3>1. job[m].at # "begin"
      BY <1>3, <2>2 DEF MoverStep, ReadStatus, Announce, Switch, Confirm, Down, Set, Enable, Conclude
    <3>2. job'[m].at \notin {"wait", "begin"}
      <4>1. CASE ReadStatus(m)
        BY <1>1, <4>1, ReadStatusJob
      <4>2. CASE Announce(m)
        BY <1>1, <4>2, AnnounceJob
      <4>3. CASE Switch(m)
        BY <1>1, <4>3, GoJob DEF Switch, Stages
      <4>4. CASE Confirm(m)
        BY <1>1, <4>4, ConfirmJob, FieldsIdle
      <4>5. CASE Down(m)
        BY <1>1, <4>5, GoJob, DoneJob, FieldsIdle DEF Down, Stages
      <4>6. CASE Set(m)
        BY <1>1, <4>6, SetStep DEF Set, TypeInv, TasksOK, Tasked, AtWork
      <4>7. CASE Enable(m)
        BY <1>1, <4>7, GoJob DEF Enable, Stages
      <4>8. CASE Conclude(m)
        BY <1>1, <4>8, DoneJob, FieldsIdle DEF Conclude
      <4>9. QED
        BY <2>2, <4>1, <4>2, <4>3, <4>4, <4>5, <4>6, <4>7, <4>8 DEF MoverStep
    <3>3. QED
      BY <1>3, <3>1, <3>2 DEF SetsOut, NewlyPending
  <2>3. QED
    BY <2>1, <2>2
<1>4. QED
  BY <1>2, <1>3

\* The restore is looked at again under the lock, and sets out or is forgiven.
LEMMA RecheckAccount ==
  ASSUME TypeInv, AccountInv, History, Recheck
  PROVE  AccountInv'
<1>1. JobsOK /\ (pref # None => pref \in Prefs)
  BY DEF TypeInv, StoreOK, Choosable
<1>2. seen' = Reading' /\ UNCHANGED <<store, look, par, air>>
  BY DEF Recheck, Reading, hostapd
<1>3. ~NewlyPending
  BY <1>1, RecheckJob, FieldsIdle DEF NewlyPending
<1>4. Settles
  <2>1. CASE UNCHANGED tries
    BY <1>2, <2>1 DEF Settles
  <2>2. CASE Settled /\ Forgive
    BY <1>2, <2>2 DEF Settles, Settled, Forgive, store
  <2>3. QED
    BY <2>1, <2>2 DEF Recheck, restore
<1>5. QED
  BY <1>2, <1>3, <1>4, AccountStays

\* A restore that the tick sends is counted before it waits.
LEMMA DecideAccount ==
  ASSUME TypeInv, AccountInv, History, Decide
  PROVE  AccountInv'
<1> DEFINE r     == IF seen = None THEN Reading ELSE seen
           off   == r.serving /\ ~SatisfiedBy(look, r.channel, r.width)
           begin == off /\ ~inFlight /\ ~gaveUp
<1>1. JobsOK /\ "restore" \in Movers /\ tries \in Nat /\ futile \in Nat /\ Pending \in {0, 1}
  BY BudgetAssumption DEF TypeInv, TriesOK, PollOK, Movers, Pending
<1>2. /\ look # None /\ look' = None /\ seen' = r /\ UNCHANGED <<hostapd, store>>
      /\ r.serving /\ ~off => Forgive
      /\ ~(r.serving /\ ~off) => tries' = IF begin /\ ~Exhausted THEN tries + 1 ELSE tries
      /\ IF begin /\ ~Exhausted
         THEN inFlight' = TRUE /\ Go("restore", "wait")
         ELSE UNCHANGED <<inFlight, job>>
  BY DEF Decide
<1>3. begin => off /\ ~inFlight
  OBVIOUS
<1>4. r \in {seen, Reading} /\ (r = seen => seen # None \/ r = Reading)
  OBVIOUS
<1>5. r.serving /\ ~off => SatisfiedBy(look, r.channel, r.width)
  OBVIOUS
<1> HIDE DEF r, off, begin
<1>6. Reading' = Reading /\ (Settled <=> Settled')
  BY <1>2 DEF Reading, Settled, hostapd, store
<1>7. ~SetsOut
  <2>1. CASE Go("restore", "wait")
    BY <1>1, <2>1, GoJob DEF Stages, SetsOut
  <2>2. CASE UNCHANGED job
    BY <2>2 DEF SetsOut
  <2>3. QED
    BY <1>2, <2>1, <2>2
<1>8. /\ futile' \in Nat /\ (Settled' => futile' = 0) /\ futile' \in {futile, 0}
      /\ ~NewlyPending => futile' + Pending' <= futile + Pending
  BY <1>7, HistoryCounts
<1>9. Pending' \in {0, 1}
  BY DEF Pending
<1>10. SeenThere' => futile' = 0
  <2>1. CASE seen' = seen
    BY <1>2, <1>8, <2>1 DEF AccountInv, SeenThere, SatisfiedBy, store
  <2>2. CASE seen' = Reading
    BY <1>6, <1>8, <2>2 DEF SeenThere, Reading, Settled
  <2>3. QED
    BY <1>2, <1>4, <2>1, <2>2
<1>11. LookInv'
  BY <1>2 DEF LookInv
<1>12. CountsInv'
  <2>1. CASE r.serving /\ ~off
    <3>1. tries' = 0 /\ UNCHANGED job
      BY <1>2, <1>3, <2>1 DEF Forgive
    <3>2. Pending' = Pending /\ ~NewlyPending
      BY <3>1 DEF Pending, NewlyPending
    <3>3. CASE look # pref
      <4>1. futile + Pending <= 1
        BY <1>2, <3>3 DEF AccountInv, LookInv
      <4>2. futile' + Pending' <= 1
        BY <1>1, <1>8, <1>9, <3>2, <4>1, StillCounted
      <4>3. QED
        BY <3>1, <4>2 DEF CountsInv
    <3>4. CASE look = pref
      <4>1. futile = 0
        <5>1. CASE r = Reading
          BY <1>2, <1>5, <2>1, <3>4, <5>1 DEF AccountInv, Settled, Reading
        <5>2. CASE r = seen /\ seen # None
          BY <1>2, <1>5, <2>1, <3>4, <5>2 DEF AccountInv, SeenThere
        <5>3. QED
          BY <1>4, <5>1, <5>2
      <4>2. futile' = 0
        BY <1>8, <4>1
      <4>3. futile' + Pending' <= 0 + 1
        BY <1>8, <1>9, <4>2, NoneAndOne
      <4>4. QED
        BY <3>1, <4>3 DEF CountsInv
    <3>5. QED
      BY <3>3, <3>4
  <2>2. CASE ~(r.serving /\ ~off) /\ begin /\ ~Exhausted
    <3>1. tries' = tries + 1
      BY <1>2, <2>2
    <3>2. Pending = 0
      BY <1>3, <2>2 DEF TypeInv, MarkOK, Pending
    <3>3. futile + Pending <= tries + 1
      BY DEF AccountInv, CountsInv
    <3>4. futile' <= futile
      BY <1>1, <1>8
    <3>5. futile' + Pending' <= (tries + 1) + 1
      BY <1>1, <1>8, <1>9, <3>2, <3>3, <3>4, OneMore
    <3>6. QED
      BY <3>1, <3>5 DEF CountsInv
  <2>3. CASE ~(r.serving /\ ~off) /\ ~(begin /\ ~Exhausted)
    <3>1. tries' = tries /\ UNCHANGED job
      BY <1>2, <2>3
    <3>2. ~NewlyPending
      BY <3>1 DEF Pending, NewlyPending
    <3>3. futile' + Pending' <= tries + 1
      BY <1>1, <1>8, <1>9, <3>2, StillCounted DEF AccountInv, CountsInv
    <3>4. QED
      BY <3>1, <3>3 DEF CountsInv
  <2>4. QED
    BY <2>1, <2>2, <2>3
<1>13. QED
  BY <1>8, <1>10, <1>11, <1>12 DEF AccountInv

LEMMA CrashAccount ==
  ASSUME Crash, futile' = 0
  PROVE  AccountInv'
<1>1. tries' = 0 /\ look' = None /\ seen' = None /\ job'["restore"].at = "idle"
  BY FieldsIdle DEF Crash, Forgive, Movers
<1>2. Pending' = 0
  BY <1>1 DEF Pending
<1>3. futile' + Pending' <= tries' + 1
  BY <1>1, <1>2
<1>4. CountsInv' /\ LookInv' /\ ~SeenThere'
  BY <1>1, <1>3 DEF CountsInv, LookInv, SeenThere
<1>5. QED
  BY <1>4 DEF AccountInv

AccountedInv(width) ==
  TypeInv /\ LockedInv /\ SetsInv /\ ServingInv /\ WidthInv(width) /\ AccountInv

LEMMA AccountKept ==
  ASSUME NEW width, WidthEach(width), KeepsWidths, AccountedInv(width), [Next]_vars
  PROVE  WidthInv(width)' /\ AccountInv'
<1>1. TypeInv /\ LockedInv /\ SetsInv /\ ServingInv /\ WidthInv(width) /\ AccountInv
  BY DEF AccountedInv
<1>2. JobsOK /\ "restore" \in Movers /\ "move" \in Movers
  BY <1>1 DEF TypeInv, Movers
<1>3. ASSUME NEW m \in Movers, MoverStep(m), NotPoll
      PROVE  WidthInv(width)' /\ AccountInv'
  <2>1. WidthInv(width)' /\ Settles
    BY <1>1, <1>3, MoverWidths
  <2>2. ~SetsOut /\ ~NewlyPending
    BY <1>1, <1>3, MoverPends
  <2>3. look' = look /\ seen' \in {seen, None}
    BY <1>3 DEF MoverStep, TakeLock, ReadStatus, Announce, Switch, Confirm, Down, Set, Enable,
                Conclude, cache
  <2>4. QED
    BY <1>1, <1>3, <2>1, <2>2, <2>3, AccountStays DEF NotPoll
<1>4. CASE (Scan \/ Poll \/ SweepEnds \/ Pick \/ ScanConclude) /\ History
  <2>1. WidthInv(width)' /\ UNCHANGED <<store, tries>>
    BY <1>1, <1>4, ScanWidths
  <2>2. job'["restore"] = job["restore"]
    BY <1>1, <1>2, <1>4, ScanLock DEF KeepsWidths, Alone
  <2>3. look' = look /\ seen' \in {seen, None}
    BY <1>4 DEF Scan, Poll, SweepEnds, Pick, ScanConclude, cache
  <2>4. ~SetsOut /\ ~NewlyPending
    BY <2>2 DEF SetsOut, NewlyPending, Pending
  <2>5. QED
    BY <1>1, <1>4, <2>1, <2>3, <2>4, AccountStays DEF Settles
<1>5. CASE (Ask \/ Recheck \/ Look \/ Decide \/ Expire \/ Restart \/ Refuse) /\ NotPoll
  <2>1. WidthInv(width)' /\ UNCHANGED store /\ History
    BY <1>1, <1>5, WorldWidths DEF NotPoll
  <2>2. CASE Recheck
    BY <1>1, <2>1, <2>2, RecheckAccount
  <2>3. CASE Decide
    BY <1>1, <2>1, <2>3, DecideAccount
  <2>4. CASE Ask \/ Look \/ Expire \/ Restart \/ Refuse
    <3>1. UNCHANGED tries /\ look' \in {look, pref'} /\ seen' \in {seen, None}
      BY <2>1, <2>4 DEF Ask, Look, Expire, Restart, Refuse, Spend, restore, cache, store
    <3>2. job'["restore"] = job["restore"]
      <4>1. CASE Ask
        BY <1>2, <4>1, AskJob DEF Alone
      <4>2. CASE Look \/ Expire \/ Restart \/ Refuse
        BY <4>2 DEF Look, Expire, Restart, Refuse
      <4>3. QED
        BY <2>4, <4>1, <4>2
    <3>3. ~SetsOut /\ ~NewlyPending
      BY <3>2 DEF SetsOut, NewlyPending, Pending
    <3>4. QED
      BY <1>1, <2>1, <3>1, <3>3, AccountStays DEF Settles
  <2>5. QED
    BY <1>5, <2>2, <2>3, <2>4
<1>6. CASE Crash /\ futile' = 0
  BY <1>1, <1>6, CrashWidths, CrashAccount
<1>7. CASE UNCHANGED vars
  <2>1. UNCHANGED <<par, air, refusing, pref, disk, job, tries, futile, seen, look>>
    BY <1>7 DEF vars, hostapd, store, restore, cache
  <2>2. WidthInv(width)'
    BY <1>1, <2>1 DEF WidthInv, ServesWide, Wide, PollsOnly, WidthsOf, Tasked
  <2>3. CountsInv' /\ LookInv' /\ (Settled' <=> Settled) /\ (SeenThere' <=> SeenThere)
    BY <1>1, <2>1 DEF AccountInv, CountsInv, LookInv, Pending, Settled, SeenThere
  <2>4. QED
    BY <1>1, <2>1, <2>2, <2>3 DEF AccountInv
<1>8. QED
  BY Zenon, <1>3, <1>4, <1>5, <1>6, <1>7 DEF Next

\* In one life of the daemon at most restoreBudget restores that do not stick set
\* out, and one that had begun before the account was cleared: with any number of
\* moves, restarts, refusals, polls, failed saves and crashes, where each channel is
\* asked for at one width and hostapd keeps it (restoreState).
THEOREM RestoresEnd ==
  ASSUME NEW width, WidthEach(width), KeepsWidths
  PROVE  Spec => []RestoresAreBounded
<1>1. Init => AccountedInv(width)
  <2> SUFFICES ASSUME Init PROVE AccountedInv(width)
    OBVIOUS
  <2>1. look = None /\ seen = None /\ pref = None /\ tries = 0 /\ futile = 0
        /\ job["restore"].at = "idle"
    BY FieldsIdle DEF Init, Movers
  <2>2. Pending = 0
    BY <2>1 DEF Pending
  <2>3. futile + Pending <= tries + 1
    BY <2>1, <2>2
  <2>4. CountsInv /\ LookInv
    BY <2>1, <2>3 DEF CountsInv, LookInv
  <2>5. AccountInv
    BY <2>1, <2>4 DEF AccountInv
  <2>6. QED
    BY <2>5, InitTypes, InitLocked, InitSets, InitServing, InitWidth DEF AccountedInv
<1>2. AccountedInv(width) /\ [Next]_vars => AccountedInv(width)'
  <2> SUFFICES ASSUME AccountedInv(width), [Next]_vars PROVE AccountedInv(width)'
    OBVIOUS
  <2>1. TypeInv /\ LockedInv /\ SetsInv /\ ServingInv /\ ~Overlap /\ "status" \notin Kinds
    BY DEF AccountedInv, KeepsWidths
  <2>2. TypeInv' /\ LockedInv' /\ SetsInv' /\ ServingInv'
    BY <2>1, TypesKept, LockedKept, SetsHeld, ServingHeld
  <2>3. QED
    BY <2>2, AccountKept DEF AccountedInv
<1>3. AccountedInv(width) => RestoresAreBounded
  <2> SUFFICES ASSUME AccountedInv(width) PROVE futile <= RestoreBudget + 1
    BY DEF RestoresAreBounded
  <2>1. futile \in Nat /\ tries \in Nat /\ tries <= RestoreBudget /\ RestoreBudget \in Nat
    BY BudgetAssumption DEF AccountedInv, TypeInv, TriesOK, PollOK
  <2>2. futile + Pending <= tries + 1 /\ Pending \in {0, 1}
    BY DEF AccountedInv, AccountInv, CountsInv, Pending
  <2>3. QED
    BY <2>1, <2>2
<1>4. QED
  BY <1>1, <1>2, <1>3, PTL DEF Spec

----------------------------------------------------------------------------
(* What a sweep hears, and what is recommended by it.                      *)

\* The channels of 20 MHz at 5 GHz.
Channels5 ==
  {36, 40, 44, 48, 52, 56, 60, 64, 100, 104, 108, 112, 116, 120, 124, 128, 132, 136,
   140, 144, 149, 153, 157, 161, 165, 169, 173, 177}

Stanzas ==
  [ours : BOOLEAN, ch : Nat, ht : {"none", "above", "below"}, vht : {-1, 0, 1, 2, 3},
   centre : Nat, signal : -99..0, load : -1..255]

\* An access point stands within the channels of its band, on one of those its
\* signal sits in.
Stands(a) ==
  IF Is24(a.ch) THEN a.ch \in 1..14 ELSE a.ch \in Covered(a) /\ Covered(a) \subseteq Channels5

\* A sweep's stanzas, in which whoever says its channel stands on it.
Sounds(heard) ==
  heard \in Seq(Stanzas) /\ \A i \in Others(heard) : Stands(heard[i])

LEMMA GreatestInt ==
  ASSUME NEW S, \A x \in S : x \in Int /\ x <= 255, S # {}
  PROVE  Max(S) \in S
<1> DEFINE T == {255 - x : x \in S}
<1>1. T \in SUBSET Nat /\ T # {}
  OBVIOUS
<1>2. PICK t \in T : \A u \in T : t <= u
  <2> HIDE DEF T
  <2>1. QED
    BY <1>1, LeastNat
<1>3. PICK x \in S : t = 255 - x
  OBVIOUS
<1>4. \A y \in S : 255 - y \in T /\ t <= 255 - y
  BY <1>2
<1>5. \A y \in S : x >= y
  BY <1>3, <1>4
<1>6. QED
  BY <1>5 DEF Max

LEMMA WideBlock ==
  ASSUME NEW m \in Nat, NEW c \in Channels5,
         {m + o : o \in {-6, -2, 2, 6}} \subseteq Channels5
  PROVE  c \in {m + o : o \in {-6, -2, 2, 6}} <=> (5 * m - 40 < 5 * c /\ 5 * c < 5 * m + 40)
<1>1. m - 6 \in Channels5 /\ m - 2 \in Channels5 /\ m + 2 \in Channels5 /\ m + 6 \in Channels5
  OBVIOUS
<1>2. c \in {m + o : o \in {-6, -2, 2, 6}} <=> c \in {m - 6, m - 2, m + 2, m + 6}
  OBVIOUS
<1>3. c \in {m - 6, m - 2, m + 2, m + 6} <=> (5 * m - 40 < 5 * c /\ 5 * c < 5 * m + 40)
  BY <1>1 DEF Channels5
<1>4. QED
  BY <1>2, <1>3

LEMMA WidestBlock ==
  ASSUME NEW m \in Nat, NEW c \in Channels5,
         {m + o : o \in {-6, -2, 2, 6} \cup {-14, -10, 10, 14}} \subseteq Channels5
  PROVE  c \in {m + o : o \in {-6, -2, 2, 6} \cup {-14, -10, 10, 14}}
           <=> (5 * m - 80 < 5 * c /\ 5 * c < 5 * m + 80)
<1>1. m - 14 \in Channels5 /\ m - 2 \in Channels5 /\ m + 2 \in Channels5 /\ m + 14 \in Channels5
  <2>1. \A o \in {-6, -2, 2, 6} \cup {-14, -10, 10, 14} : m + o \in Channels5
    OBVIOUS
  <2>2. m + -14 \in Channels5 /\ m + -2 \in Channels5 /\ m + 2 \in Channels5 /\ m + 14 \in Channels5
    BY <2>1
  <2>3. QED
    BY <2>2
<1>2. c \in {m + o : o \in {-6, -2, 2, 6} \cup {-14, -10, 10, 14}}
        <=> c \in {m - 14, m - 10, m - 6, m - 2, m + 2, m + 6, m + 10, m + 14}
  OBVIOUS
<1>3. m = 50 \/ m \in {114, 118, 122, 126, 130} \/ m = 163
  BY <1>1 DEF Channels5
<1>4. c \in {m - 14, m - 10, m - 6, m - 2, m + 2, m + 6, m + 10, m + 14}
        <=> (5 * m - 80 < 5 * c /\ 5 * c < 5 * m + 80)
  <2>1. CASE m = 50
    BY <2>1 DEF Channels5
  <2>2. CASE m \in {114, 118, 122, 126, 130}
    BY <2>2 DEF Channels5
  <2>3. CASE m = 163
    BY <2>3 DEF Channels5
  <2>4. QED
    BY <1>3, <2>1, <2>2, <2>3
<1>5. QED
  BY <1>2, <1>4

\* A channel on offer is one that a neighbour's signal sits in exactly if its
\* centre is between the edges of the neighbour's spectrum.
LEMMA WithinEdges ==
  ASSUME NEW a \in Stanzas, ~Is24(a.ch), Stands(a), NEW c \in Offered, ~Is24(c)
  PROVE  c \in Covered(a) <=> (Edges(a)[1] < Mhz(c) /\ Mhz(c) < Edges(a)[2])
<1> DEFINE w == WidthMHz(a)
           mid == IF w >= 80 /\ a.centre > 0 THEN Mhz(a.centre)
                  ELSE IF w = 40 THEN Mhz(a.ch) + (IF a.ht = "above" THEN 10 ELSE -10)
                  ELSE Mhz(a.ch)
           half == IF w >= 80 /\ a.centre = 0 THEN 10 ELSE w \div 2
<1>1. w \in {20, 40, 80, 160}
  BY DEF WidthMHz
<1>2. Edges(a)[1] = mid - half /\ Edges(a)[2] = mid + half
  BY DEF Edges
<1>3. /\ c \in Channels5 /\ a.ch \in Channels5
      /\ c \in Nat /\ a.ch \in Nat /\ a.centre \in Nat
      /\ a.ch \in Covered(a) /\ Covered(a) \subseteq Channels5
  BY DEF Offered, LowBlock, HighBlock, Is24, Channels5, Stanzas, Stands
<1>4. Covered(a) = IF w >= 80 /\ a.centre > 0 THEN {a.centre + o : o \in Offsets(w)}
                   ELSE IF w = 40 THEN {a.ch, IF a.ht = "above" THEN a.ch + 4 ELSE a.ch - 4}
                   ELSE {a.ch}
  BY DEF Covered
<1>5. CASE w = 80 /\ a.centre > 0
  <2>1. mid = 5 * a.centre /\ half = 40
    BY <1>3, <1>5 DEF Mhz
  <2>2. Covered(a) = {a.centre + o : o \in {-6, -2, 2, 6}}
    BY <1>4, <1>5 DEF Offsets
  <2> HIDE DEF w, mid, half
  <2>3. QED
    BY <1>2, <1>3, <2>1, <2>2, WideBlock DEF Mhz
<1>6. CASE w = 160 /\ a.centre > 0
  <2>1. mid = 5 * a.centre /\ half = 80
    BY <1>3, <1>6 DEF Mhz
  <2>2. Covered(a) = {a.centre + o : o \in {-6, -2, 2, 6} \cup {-14, -10, 10, 14}}
    BY <1>4, <1>6 DEF Offsets
  <2> HIDE DEF w, mid, half
  <2>3. QED
    BY <1>2, <1>3, <2>1, <2>2, WidestBlock DEF Mhz
<1>7. CASE w = 40 /\ a.ht = "above"
  <2>1. mid = 5 * a.ch + 10 /\ half = 20
    BY <1>7 DEF Mhz
  <2>2. Covered(a) = {a.ch, a.ch + 4} /\ a.ch + 4 \in Channels5
    BY <1>3, <1>4, <1>7
  <2> HIDE DEF w, mid, half
  <2>3. c \in {a.ch, a.ch + 4} <=> (5 * a.ch + 10 - 20 < 5 * c /\ 5 * c < 5 * a.ch + 10 + 20)
    BY <1>3, <2>2 DEF Channels5
  <2>4. QED
    BY <1>2, <1>3, <2>1, <2>2, <2>3 DEF Mhz
<1>8. CASE w = 40 /\ a.ht # "above"
  <2>1. mid = 5 * a.ch + -10 /\ half = 20
    BY <1>8 DEF Mhz
  <2>2. Covered(a) = {a.ch, a.ch - 4} /\ a.ch - 4 \in Channels5
    BY <1>3, <1>4, <1>8
  <2> HIDE DEF w, mid, half
  <2>3. c \in {a.ch, a.ch - 4} <=> (5 * a.ch + -10 - 20 < 5 * c /\ 5 * c < 5 * a.ch + -10 + 20)
    BY <1>3, <2>2 DEF Channels5
  <2>4. QED
    BY <1>2, <1>3, <2>1, <2>2, <2>3 DEF Mhz
<1>9. CASE w = 20 \/ (w >= 80 /\ a.centre = 0)
  <2>1. mid = 5 * a.ch /\ half = 10
    BY <1>9 DEF Mhz
  <2>2. Covered(a) = {a.ch}
    BY <1>4, <1>9
  <2> HIDE DEF w, mid, half
  <2>3. c = a.ch <=> (5 * a.ch - 10 < 5 * c /\ 5 * c < 5 * a.ch + 10)
    BY <1>3 DEF Channels5
  <2>4. QED
    BY <1>2, <1>3, <2>1, <2>2, <2>3 DEF Mhz
<1>10. QED
  BY <1>1, <1>3, <1>5, <1>6, <1>7, <1>8, <1>9

LEMMA OtherStanzas ==
  ASSUME NEW heard, Sounds(heard), NEW i \in Others(heard)
  PROVE  /\ heard[i] \in Stanzas /\ Stands(heard[i])
         /\ heard[i].signal \in -99..0 /\ heard[i].load \in -1..255
<1>1. heard[i] \in Stanzas /\ Stands(heard[i])
  BY DEF Sounds, Others
<1>2. QED
  BY <1>1 DEF Stanzas

\* The neighbours counted against a channel are those whose spectrum is on it.
LEMMA CompetingOccupy ==
  ASSUME NEW heard, Sounds(heard), NEW c \in Offered
  PROVE  /\ UNION {Summarise(heard, d).covering : d \in Window(c)} = Occupants(heard, c)
         /\ Summarise(heard, c).loads =
              {heard[i].load : i \in {j \in Occupants(heard, c) : Is24(c) => heard[j].ch = c}} \ {-1}
<1> DEFINE within(d) == {i \in Others(heard) : d \in Covered(heard[i])}
           reach(d)  == {i \in Others(heard) : heard[i].ch = d} \cup within(d)
<1>1. /\ \A d : Summarise(heard, d).covering = reach(d)
      /\ Summarise(heard, c).loads = {heard[i].load : i \in within(c)} \ {-1}
  BY DEF Summarise
<1>2. \A i \in Others(heard) : heard[i] \in Stanzas /\ Stands(heard[i])
  BY OtherStanzas
<1>3. \A i \in Others(heard) : Is24(heard[i].ch) =>
        Covered(heard[i]) = {heard[i].ch} /\ heard[i].ch \in 1..14
  BY <1>2 DEF Covered, Stands
<1>4. \A i \in Others(heard) : ~Is24(heard[i].ch) =>
        heard[i].ch \in Covered(heard[i]) /\ \A d \in Covered(heard[i]) : ~Is24(d)
  BY <1>2 DEF Stands, Channels5, Is24
<1>5. c \in Nat
  BY DEF Offered, LowBlock, HighBlock
<1>6. CASE Is24(c)
  <2>1. Window(c) = (c - 4)..(c + 4) /\ \A d \in Window(c) : d \in Int /\ d <= 15
    BY <1>5, <1>6 DEF Window, Is24, Offered, LowBlock, HighBlock
  <2>2. \A d \in Window(c) : \A i \in reach(d) : Is24(heard[i].ch) /\ heard[i].ch = d
    <3> SUFFICES ASSUME NEW d \in Window(c), NEW i \in reach(d)
                 PROVE  Is24(heard[i].ch) /\ heard[i].ch = d
      OBVIOUS
    <3>1. i \in Others(heard) /\ (heard[i].ch = d \/ d \in Covered(heard[i]))
      OBVIOUS
    <3>2. CASE Is24(heard[i].ch)
      BY <1>3, <3>1, <3>2
    <3>3. CASE ~Is24(heard[i].ch)
      <4>1. d \in Covered(heard[i])
        BY <1>4, <3>1, <3>3
      <4>2. Covered(heard[i]) \subseteq Channels5
        BY <1>2, <3>1, <3>3 DEF Stands
      <4>3. d >= 36
        BY <4>1, <4>2 DEF Channels5
      <4>4. QED
        BY <2>1, <4>3
    <3>4. QED
      BY <3>2, <3>3
  <2>3. Occupants(heard, c) = {i \in Others(heard) : Is24(heard[i].ch) /\ heard[i].ch \in Window(c)}
    BY <1>6, <2>1 DEF Occupants
  <2>4. UNION {reach(d) : d \in Window(c)} = Occupants(heard, c)
    BY <2>2, <2>3
  <2>5. c \in Window(c)
    BY <1>5, <2>1
  <2>6. within(c) = {j \in Occupants(heard, c) : Is24(c) => heard[j].ch = c}
    BY <1>3, <1>6, <2>2, <2>3, <2>5
  <2>7. QED
    BY <1>1, <2>4, <2>6
<1>7. CASE ~Is24(c)
  <2>1. Window(c) = {c}
    BY <1>7 DEF Window
  <2>2. \A i \in Others(heard) : c \in Covered(heard[i]) =>
          ~Is24(heard[i].ch) /\ Edges(heard[i])[1] < Mhz(c) /\ Mhz(c) < Edges(heard[i])[2]
    BY <1>2, <1>3, <1>7, WithinEdges
  <2>3. \A i \in Others(heard) :
          ~Is24(heard[i].ch) /\ Edges(heard[i])[1] < Mhz(c) /\ Mhz(c) < Edges(heard[i])[2]
            => c \in Covered(heard[i])
    BY <1>2, <1>7, WithinEdges
  <2>4. \A i \in Others(heard) : heard[i].ch = c => c \in Covered(heard[i])
    BY <1>4, <1>7
  <2>5. Occupants(heard, c) =
          {i \in Others(heard) :
             ~Is24(heard[i].ch) /\ Edges(heard[i])[1] < Mhz(c) /\ Mhz(c) < Edges(heard[i])[2]}
    BY <1>7 DEF Occupants, Is24
  <2>6. within(c) = Occupants(heard, c) /\ reach(c) = Occupants(heard, c)
    BY <2>2, <2>3, <2>4, <2>5
  <2>7. {j \in Occupants(heard, c) : Is24(c) => heard[j].ch = c} = Occupants(heard, c)
    BY <1>7
  <2>8. QED
    BY <1>1, <2>1, <2>6, <2>7
<1>8. QED
  BY <1>6, <1>7

LEMMA OccupantsFinite ==
  ASSUME NEW heard, Sounds(heard), NEW c
  PROVE  IsFiniteSet(Occupants(heard, c)) /\ Cardinality(Occupants(heard, c)) \in Nat
<1>1. PICK n \in Nat : DOMAIN heard = 1..n
  BY DEF Sounds
<1>2. IsFiniteSet(1..n)
  BY <1>1, FS_Interval
<1>3. Occupants(heard, c) \in SUBSET (1..n)
  BY <1>1 DEF Occupants, Others
<1>4. QED
  BY <1>2, <1>3, FS_Subset, FS_CardinalityType

\* How busy a channel is taken to be is the airtime of those that occupy it.
LEMMA BusyIsAirtime ==
  ASSUME NEW heard, Sounds(heard), NEW c \in Offered
  PROVE  Airtime(heard, c) \in Int /\ Busy(heard, c) = 100 * Airtime(heard, c)
<1> DEFINE who  == Occupants(heard, c)
           n    == Cardinality(who)
           said == {heard[i].load : i \in {j \in who : Is24(c) => heard[j].ch = c}} \ {-1}
           most == Max(said)
           some == Min({90, 20 * n})
<1>1. Competing(heard, c) = n /\ Summarise(heard, c).loads = said
  BY CompetingOccupy DEF Competing
<1>2. n \in Nat /\ (n = 0 <=> who = {})
  BY OccupantsFinite, FS_EmptySet
<1>3. /\ Airtime(heard, c) = IF said # {} THEN 100 * most ELSE 255 * some
      /\ Busy(heard, c) = IF n = 0 THEN 0 ELSE IF said # {} THEN most * 10000 ELSE some * 25500
  BY <1>1 DEF Airtime, Busy
<1>4. said # {} => most \in Int /\ n # 0
  <2> SUFFICES ASSUME said # {} PROVE most \in Int /\ n # 0
    OBVIOUS
  <2>1. \A x \in said : x \in Int /\ x <= 255
    <3>1. \A i \in Others(heard) : heard[i].load \in -1..255
      BY OtherStanzas
    <3>2. who \subseteq Others(heard)
      BY DEF Occupants
    <3>3. QED
      BY <3>1, <3>2
  <2>2. most \in said
    BY <2>1, GreatestInt
  <2>3. who # {}
    OBVIOUS
  <2>4. QED
    BY <1>2, <2>1, <2>2, <2>3
<1> HIDE DEF who, n, said, most
<1>5. some \in Nat /\ (n = 0 => some = 0)
  <2>1. {90, 20 * n} \in SUBSET Nat /\ {90, 20 * n} # {}
    BY <1>2
  <2>2. some \in {90, 20 * n} /\ \A y \in {90, 20 * n} : some <= y
    BY <2>1, LeastNat
  <2>3. QED
    BY <1>2, <2>2
<1> HIDE DEF some
<1>6. CASE said # {}
  BY <1>3, <1>4, <1>6
<1>7. CASE said = {}
  BY <1>2, <1>3, <1>5, <1>7
<1>8. QED
  BY <1>6, <1>7

\* The loudness counts for less than a point.
LEMMA LoudnessRange ==
  ASSUME NEW heard, Sounds(heard), NEW c
  PROVE  Loudest(heard, c) \in Int /\ -99 <= Loudest(heard, c) /\ Loudest(heard, c) <= 0
<1> DEFINE said == UNION {Summarise(heard, d).signals : d \in Window(c)}
<1>1. \A i \in Others(heard) : heard[i].signal \in -99..0
  BY OtherStanzas
<1>2. \A d : \A x \in Summarise(heard, d).signals : x \in -99..0
  BY <1>1 DEF Summarise
<1>3. \A x \in said : x \in Int /\ -99 <= x /\ x <= 0
  BY <1>2
<1>4. Loudest(heard, c) = IF said = {} THEN 0 ELSE Max(said)
  BY DEF Loudest
<1> HIDE DEF said
<1>5. CASE said = {}
  BY <1>4, <1>5
<1>6. CASE said # {}
  <2>1. Max(said) \in said
    BY <1>3, <1>6, GreatestInt
  <2>2. QED
    BY <1>3, <1>4, <1>6, <2>1
<1>7. QED
  BY <1>5, <1>6

\* Of whatever a sweep comes back with, as long as those it heard stand on channels,
\* the channel recommended is within a point of the quietest: by the spectrum of its
\* neighbours, and not by where they beacon (summariseScan, pickBestChannel).
THEOREM RecommendsTheQuiet ==
  ASSUME NEW heard, Sounds(heard), NEW band24 \in BOOLEAN
  PROVE  RecommendsQuiet(heard, band24, PickBestChannel(heard, band24))
<1> DEFINE best == PickBestChannel(heard, band24)
<1>1. \A c \in Offered : /\ Airtime(heard, c) \in Int /\ Loudest(heard, c) \in Int
                         /\ -99 <= Loudest(heard, c) /\ Loudest(heard, c) <= 0
                         /\ Score(heard, c) =
                              100 * Airtime(heard, c) + (Loudest(heard, c) + 100) * 255
  BY BusyIsAirtime, LoudnessRange DEF Score
<1>2. \A c \in Offered : Score(heard, c) \in Int
  BY <1>1
<1>3. /\ best \in Offered /\ Is24(best) = band24
      /\ \A c \in Offered : Is24(c) = band24 => Score(heard, best) <= Score(heard, c)
  BY <1>2, LeastOfPicked
<1> HIDE DEF best
<1>4. ASSUME NEW c \in Offered, Is24(c) = band24
      PROVE  Airtime(heard, best) < Airtime(heard, c) + 255
  <2>1. Score(heard, best) <= Score(heard, c)
    BY <1>3, <1>4
  <2>2. QED
    BY <1>1, <1>3, <2>1
<1>5. QED
  BY <1>3, <1>4 DEF RecommendsQuiet, best

----------------------------------------------------------------------------
(* Where a scan goes.                                                      *)

Applying == job["scan"].at \in {"down", "set", "enable", "verdict"}

\* A scan that applies what it found is on its way to what was recommended.
PickedInv == Applying =>
  /\ job["scan"].heard \in Airs
  /\ job["scan"].ch = Recommended[job["scan"].heard][Is24(job["scan"].from)]

LEMMA PickedKept ==
  ASSUME TypeInv, PickedInv, [Next]_vars
  PROVE  PickedInv'
<1>1. JobsOK /\ RoutesOK /\ TasksOK /\ par \in Placed /\ "scan" \in Movers /\ "move" \in Movers
      /\ "restore" \in Movers
  BY DEF TypeInv, RadioOK, Movers
<1>2. job'["scan"] = job["scan"] => PickedInv'
  BY DEF PickedInv, Applying
<1>3. Applying /\ SameTask("scan") /\ SameStatus("scan") /\ SameAir("scan") => PickedInv'
  BY DEF PickedInv, SameTask, SameStatus, SameAir
<1>4. job'["scan"] = Idle => PickedInv'
  BY FieldsIdle DEF PickedInv, Applying
<1>5. ASSUME NEW m \in Movers, MoverStep(m)
      PROVE  PickedInv'
  <2>1. CASE m # "scan"
    BY <1>1, <1>2, <1>5, <2>1, MoverLock DEF Alone
  <2>2. CASE m = "scan"
    <3>1. Down(m) \/ Set(m) \/ Enable(m)
      BY <1>1, <1>5, <2>2 DEF MoverStep, TakeLock, ReadStatus, Announce, Switch, Confirm, Conclude,
                              RoutesOK
    <3>2. CASE Down(m)
      <4>1. Applying
        BY <2>2, <3>2 DEF Down, Applying
      <4>2. CASE Go(m, "set")
        BY <1>1, <1>3, <2>2, <4>1, <4>2, GoJob DEF Stages
      <4>3. CASE Done(m)
        BY <1>1, <1>4, <2>2, <4>3, DoneJob
      <4>4. QED
        BY <3>2, <4>2, <4>3 DEF Down
    <3>3. CASE Set(m)
      <4>1. Applying /\ job[m].ch \in Offered
        BY <1>1, <2>2, <3>3 DEF Set, Applying, TasksOK, Tasked, AtWork
      <4>2. QED
        BY <1>1, <1>3, <2>2, <3>3, <4>1, SetStep
    <3>4. CASE Enable(m)
      <4>1. Applying /\ Go(m, "verdict")
        BY <2>2, <3>4 DEF Enable, Applying
      <4>2. QED
        BY <1>1, <1>3, <2>2, <4>1, GoJob DEF Stages
    <3>5. QED
      BY <3>1, <3>2, <3>3, <3>4
  <2>3. QED
    BY <2>1, <2>2
<1>6. CASE Ask
  BY <1>1, <1>2, <1>6, AskJob DEF Alone
<1>7. CASE Recheck
  <2>1. pref # None => pref \in Prefs
    BY DEF TypeInv, StoreOK, Choosable
  <2>2. QED
    BY <1>1, <1>2, <1>7, <2>1, RecheckJob DEF Alone
<1>8. CASE Decide
  <2>1. CASE Go("restore", "wait")
    BY <1>1, <1>2, <2>1, GoJob DEF Alone, Stages
  <2>2. CASE UNCHANGED job
    BY <1>2, <2>2
  <2>3. QED
    BY <1>8, <2>1, <2>2 DEF Decide
<1>9. CASE Look \/ Expire \/ Restart \/ Refuse \/ UNCHANGED vars
  <2>1. UNCHANGED job
    BY <1>9 DEF Look, Expire, Restart, Refuse, vars
  <2>2. QED
    BY <1>2, <2>1
<1>10. CASE Scan \/ Poll
  <2>1. ASSUME NEW outcome, NEW mode \in {"apply", "poll"}, NEW then \in {"sweep", "pick"},
               Sweeping(outcome, mode, then)
        PROVE  PickedInv'
    <3>1. job'["scan"].at = then
      BY <1>1, <2>1, SweepingJob
    <3>2. QED
      BY <2>1, <3>1 DEF PickedInv, Applying
  <2>2. CASE Scan
    <3>1. PICK outcome :
            Sweeping(outcome, "apply", "pick") \/ Sweeping(outcome, "apply", "sweep")
      BY <2>2 DEF Scan
    <3>2. QED
      BY <2>1, <3>1
  <2>3. CASE Poll
    <3>1. \/ \E outcome : Sweeping(outcome, "poll", "sweep")
          \/ UNCHANGED job
      BY <2>3 DEF Poll
    <3>2. QED
      BY <1>2, <2>1, <3>1
  <2>4. QED
    BY <1>10, <2>2, <2>3
<1>11. CASE SweepEnds
  <2>1. CASE Go("scan", "pick")
    <3>1. job'["scan"].at = "pick"
      BY <1>1, <2>1, GoJob DEF Stages
    <3>2. QED
      BY <3>1 DEF PickedInv, Applying
  <2>2. CASE Done("scan")
    BY <1>1, <1>4, <2>2, DoneJob
  <2>3. QED
    BY <1>11, <2>1, <2>2 DEF SweepEnds
<1>12. CASE Pick
  <2>1. CASE job'["scan"] = Idle
    BY <1>4, <2>1
  <2>2. CASE /\ SameStatus("scan")
             /\ \E heard \in Airs :
                  /\ job'["scan"].heard = heard
                  /\ job'["scan"].ch = Recommended[heard][Is24(job["scan"].from)]
    BY <2>2 DEF PickedInv, SameStatus
  <2>3. QED
    BY <1>1, <1>12, <2>1, <2>2, PickJob
<1>13. CASE ScanConclude
  BY <1>1, <1>4, <1>13, DoneJob DEF ScanConclude
<1>14. CASE Crash
  BY <1>1, <1>4, <1>14 DEF Crash
<1>15. QED
  BY Zenon, <1>5, <1>6, <1>7, <1>8, <1>9, <1>10, <1>11, <1>12, <1>13, <1>14 DEF Next

\* A scan that is applied goes where the air it heard is quiet, in the band the radio
\* was in: whoever else is at work, and whatever is heard, as long as those heard stand
\* on channels of their band (scanBand, summariseScan, pickBestChannel).
THEOREM AppliesWhatIsQuiet ==
  ASSUME \A heard \in Airs : Sounds(heard)
  PROVE  Spec => []AppliesTheQuiet
<1>1. Init => PickedInv
  BY FieldsIdle DEF Init, PickedInv, Applying, Movers
<1>2. TypeInv /\ PickedInv /\ [Next]_vars => PickedInv'
  BY PickedKept
<1>3. PickedInv => AppliesTheQuiet
  <2> SUFFICES ASSUME PickedInv, Applying
               PROVE  job["scan"].ch \in QuietIn[job["scan"].heard][Is24(job["scan"].from)]
    BY DEF AppliesTheQuiet, Applying
  <2> DEFINE heard  == job["scan"].heard
             band24 == Is24(job["scan"].from)
  <2>1. heard \in Airs /\ band24 \in BOOLEAN /\ job["scan"].ch = Recommended[heard][band24]
    BY DEF PickedInv, Is24
  <2> HIDE DEF heard, band24
  <2>2. job["scan"].ch = PickBestChannel(heard, band24)
    BY <2>1 DEF Recommended
  <2>3. RecommendsQuiet(heard, band24, job["scan"].ch) /\ job["scan"].ch \in Offered
    BY <2>1, <2>2, RecommendsTheQuiet DEF RecommendsQuiet
  <2>4. job["scan"].ch \in QuietIn[heard][band24]
    BY <2>1, <2>3 DEF QuietIn
  <2>5. QED
    BY <2>4 DEF heard, band24
<1>4. QED
  BY <1>1, <1>2, <1>3, TypesHold, PTL DEF Spec

=============================================================================
