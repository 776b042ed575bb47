------------------------------ MODULE Steering ------------------------------
(***************************************************************************)
(* Who is on which radio, and what a client answers when it is asked to    *)
(* move: the monitor connection to each radio's hostapd, transition        *)
(* requests and their outcomes, and the tick that joins the station        *)
(* tables, the bridge's forwarding table and the learner into the list of  *)
(* clients.  hostapd, the kernel's tables and the clients are the          *)
(* environment.  Time passes in the action Second; ages stop counting      *)
(* where nothing asks about them any more.                                 *)
(***************************************************************************)
EXTENDS Naturals, Sequences, FiniteSets

CONSTANTS
  Clients,
  Ports,        \* WlanPorts: the radios, in the order they are asked
  MaxRequests,  \* transition requests made
  Doings,       \* what a behaviour exercises of the environment, and how often clients move in it
  BtmWait,      \* seconds before a silence is an outcome
  AskGrace,     \* seconds a pin waits for the clients it asked
  PresenceGrace,\* seconds a client may be missing from the station tables
  MaxSockets,   \* hostapd serves each radio over at most this many control sockets, in turn
  MaxInbox,     \* events waiting on one monitor connection
  Torn,         \* hostapd may come back between ATTACH and the stat that follows it
  None, Lan

Requests == 1..MaxRequests  \* in the order they are made
Radios == {Ports[i] : i \in DOMAIN Ports}

ASSUME SteeringAssumption ==
  /\ BtmWait \in Nat /\ AskGrace \in Nat /\ PresenceGrace \in Nat
  /\ MaxSockets \in Nat \ {0} /\ MaxInbox \in Nat \ {0} /\ Torn \in BOOLEAN
  /\ MaxRequests \in Nat /\ None \notin Radios \union {Lan} /\ Lan \notin Radios

VARIABLES
  (* The environment. *)
  doing,        \* the part of the environment that is active in this behaviour
  moves,        \* moves made, which the instance bounds
  at,           \* where each client is: a radio, the wired side or nowhere
  sta,          \* each radio's station table
  fdb, arp,     \* the port the bridge and the learner last saw a client on
  sock,         \* identity of each radio's control socket, 0 for none
  served,       \* the latest identity it has had
  attached,     \* the radios whose present hostapd sends its events to boad
  reply,        \* what has become of each request at its client
  (* The engine. *)
  mon,          \* watchOneRadio's loop, one per radio
  inbox,        \* events hostapd has sent and the loop has not read
  pending,      \* pendingSteers
  accepted,     \* steerAccepted
  told,         \* assocGone where it is later than lastAssoc: "before" or "since" the tick began
  missing,      \* seconds since lastAssoc
  job,          \* who sends and waits for each request
  tick,         \* the tick under way
  stationRadio, \* the radio each client was on when the last tick asked
  roster        \* the clients as the snapshot lists them

air == <<moves, at, sta, fdb, arp, reply>>
box == <<sock, served, attached>>
heard == <<pending, accepted, told>>
ticked == <<tick, stationRadio, roster>>
vars == <<doing, air, box, heard, mon, inbox, missing, job, ticked>>

\* btmStatus: what a client may say, every status but 0 a refusal.
Answers == {"accept", "refuse"}

\* pendingSteer: a request whose answer has not arrived, and how old it is.
PendingSteers == [req : Requests, from : Radios, age : 0..BtmWait]

Over == [pc |-> "over"]
Nobody == [c \in Clients |-> None]
Idle == [pc |-> "idle", next |-> 0, on |-> Nobody]

Init ==
  /\ doing \in Doings
  /\ moves = 0
  /\ IF "boot" \in doing.what
     THEN /\ at = Nobody /\ sta = [r \in Radios |-> {}] /\ attached = {}
          /\ mon = [r \in Radios |-> [pc |-> "away", id |-> 0, event |-> None]]
     ELSE /\ at = [c \in Clients |-> Ports[1]] /\ attached = Radios
          /\ sta = [r \in Radios |-> IF r = Ports[1] THEN Clients ELSE {}]
          /\ mon = [r \in Radios |-> [pc |-> "reading", id |-> 1, event |-> None]]
  /\ fdb = Nobody /\ arp = Nobody
  /\ sock = [r \in Radios |-> 1] /\ served = sock
  /\ reply = [q \in Requests |-> "unasked"]
  /\ inbox = [r \in Radios |-> <<>>]
  /\ pending = Nobody /\ accepted = {}
  /\ told = [c \in Clients |-> "no"]
  /\ missing = [c \in Clients |-> IF "frames" \in doing.what THEN PresenceGrace + 1 ELSE 0]
  /\ job = [q \in Requests |-> [pc |-> "new"]]
  /\ tick = Idle /\ stationRadio = Nobody
  /\ roster = [c \in Clients |-> [port |-> None, present |-> FALSE]]

-----------------------------------------------------------------------------
(* hostapd, the kernel and the clients. *)

\* hostapd sends an event to its monitors, and to nobody when there is none.
Sent(r, event) ==
  IF r \in attached /\ event.kind \in doing.what THEN [inbox EXCEPT ![r] = Append(@, event)] ELSE inbox
Room(r) == r \in attached => Len(inbox[r]) < MaxInbox
Moved == moves < doing.moves /\ moves' = moves + 1

\* A client associates.  The radio it came from is not told, and may list it until it expires.
Associate(c, r) ==
  /\ at[c] # r /\ sock[r] # 0 /\ Room(r) /\ Moved
  /\ at' = [at EXCEPT ![c] = r]
  /\ sta' = [sta EXCEPT ![r] = @ \union {c}]
  /\ inbox' = Sent(r, [kind |-> "association", client |-> c, up |-> TRUE])
  /\ UNCHANGED <<doing, fdb, arp, reply, box, heard, mon, missing, job, ticked>>

\* A radio lets a client go: it left, was disconnected, or its entry expired.
Drop(c, r) ==
  /\ c \in sta[r] /\ Room(r)
  /\ at' = IF at[c] = r THEN [at EXCEPT ![c] = None] ELSE at
  /\ UNCHANGED moves
  /\ sta' = [sta EXCEPT ![r] = @ \ {c}]
  /\ inbox' = Sent(r, [kind |-> "association", client |-> c, up |-> FALSE])
  /\ UNCHANGED <<doing, fdb, arp, reply, box, heard, mon, missing, job, ticked>>

\* A client is carried off, or plugged into the wired side, and no radio notices.
Vanish(c) ==
  /\ Moved
  /\ at' \in {[at EXCEPT ![c] = p] : p \in {None, Lan} \ {at[c]}}
  /\ UNCHANGED <<doing, sta, fdb, arp, reply, box, heard, mon, inbox, missing, job, ticked>>

\* The bridge and the learner see a frame of a client.
Frame(c) ==
  /\ "frames" \in doing.what /\ at[c] # None /\ <<fdb[c], arp[c]>> # <<at[c], at[c]>>
  /\ fdb' = [fdb EXCEPT ![c] = at[c]] /\ arp' = [arp EXCEPT ![c] = at[c]]
  /\ UNCHANGED <<doing, moves, at, sta, reply, box, heard, mon, inbox, missing, job, ticked>>

\* Their entries age, the bridge's after 300 seconds and the learner's after 20 minutes.
Age(c) ==
  /\ \/ fdb[c] # None /\ fdb' = [fdb EXCEPT ![c] = None] /\ arp' = arp
     \/ fdb[c] = None /\ arp[c] # None /\ arp' = [arp EXCEPT ![c] = None] /\ fdb' = fdb
  /\ UNCHANGED <<doing, moves, at, sta, reply, box, heard, mon, inbox, missing, job, ticked>>

\* hostapd is restarted on a radio.  First it goes, with its clients and its monitors ...
Stop(r) ==
  /\ "restart" \in doing.what /\ sock[r] # 0
  /\ sock' = [sock EXCEPT ![r] = 0] /\ attached' = attached \ {r}
  /\ at' = [c \in Clients |-> IF at[c] = r THEN None ELSE at[c]]
  /\ sta' = [sta EXCEPT ![r] = {}]
  /\ UNCHANGED <<doing, moves, served, fdb, arp, reply, heard, mon, inbox, missing, job, ticked>>

\* ... and then it is back, with a new socket at the same path.
Start(r) ==
  /\ sock[r] = 0 /\ served[r] < MaxSockets
  /\ ~Torn => mon[r].pc # "attached"
  /\ served' = [served EXCEPT ![r] = @ + 1] /\ sock' = [sock EXCEPT ![r] = served'[r]]
  /\ UNCHANGED <<doing, air, attached, heard, mon, inbox, missing, job, ticked>>

\* The client of a request answers it, through the radio that asked.
Answer(q, says) ==
  /\ reply[q] = "asked"
  /\ LET c == job[q].client  r == job[q].from IN
     /\ at[c] = r /\ c \in sta[r] /\ Room(r)
     /\ inbox' = Sent(r, [kind |-> "response", client |-> c, says |-> says])
  /\ reply' = [reply EXCEPT ![q] = says]
  /\ UNCHANGED <<doing, moves, at, sta, fdb, arp, box, heard, mon, missing, job, ticked>>

-----------------------------------------------------------------------------
(* watchOneRadio. *)

\* hostapdAttach: refused while there is no socket, and tried again after a while.
Attach(r) ==
  /\ mon[r].pc = "away" /\ sock[r] # 0
  /\ mon' = [mon EXCEPT ![r].pc = "attached"]
  /\ attached' = attached \union {r} /\ inbox' = [inbox EXCEPT ![r] = <<>>]
  /\ UNCHANGED <<doing, air, sock, served, heard, missing, job, ticked>>

\* hostapdSocketID, after attaching.
Identify(r) ==
  /\ mon[r].pc = "attached"
  /\ mon' = [mon EXCEPT ![r].pc = "reading", ![r].id = sock[r]]
  /\ UNCHANGED <<doing, air, box, heard, inbox, missing, job, ticked>>

\* Only whether there is a socket is checked, not which.
MutantQuietCheck(r) ==
  /\ mon[r].pc = "reading" /\ inbox[r] = <<>> /\ sock[r] = 0
  /\ mon' = [mon EXCEPT ![r].pc = "away"]
  /\ UNCHANGED <<doing, air, box, heard, inbox, missing, job, ticked>>

\* readHostapdEvents after a quiet spell: no socket, or not the one it attached to.
QuietCheck(r) ==
  /\ mon[r].pc = "reading" /\ inbox[r] = <<>> /\ sock[r] \notin {mon[r].id} \ {0}
  /\ mon' = [mon EXCEPT ![r].pc = "away"]
  /\ UNCHANGED <<doing, air, box, heard, inbox, missing, job, ticked>>

\* takePendingSteer, whose lock is let go before steerAccepted is written.
TakePendingSteer(r, e) ==
  /\ mon' = [mon EXCEPT ![r].pc = "taken", ![r].event = e]
  /\ pending' = [pending EXCEPT ![e.client] = None]
  /\ UNCHANGED <<accepted, told>>

\* noteAssoc.  What it does to a pin is in DenyClaims; the time it keeps only dates events.
NoteAssoc(c, connected) ==
  /\ told' = [told EXCEPT ![c] = IF connected THEN "no" ELSE "since"]
  /\ UNCHANGED <<mon, pending, accepted>>

\* handleHostapdEvent.
HandleHostapdEvent(r) ==
  /\ mon[r].pc = "reading" /\ inbox[r] # <<>>
  /\ LET e == Head(inbox[r]) IN
     IF e.kind = "association" THEN NoteAssoc(e.client, e.up) ELSE TakePendingSteer(r, e)
  /\ inbox' = [inbox EXCEPT ![r] = Tail(@)]
  /\ UNCHANGED <<doing, air, box, missing, job, ticked>>

\* The rest of handleHostapdEvent for a response.
SettleResponse(r) ==
  /\ mon[r].pc = "taken"
  /\ LET c == mon[r].event.client IN
     accepted' = IF mon[r].event.says = "accept" THEN accepted \union {c} ELSE accepted \ {c}
  /\ mon' = [mon EXCEPT ![r].pc = "reading", ![r].event = None]
  /\ UNCHANGED <<doing, air, box, inbox, pending, told, missing, job, ticked>>

-----------------------------------------------------------------------------
(* Requests. *)

\* radioReady, and OtherRadio's choice: the first other port that has a socket.
RadioReady(r) == r \in Radios /\ sock[r] # 0
OtherRadio(r) ==
  LET others == {i \in DOMAIN Ports : Ports[i] # r /\ sock[Ports[i]] # 0}
  IN  IF others = {} THEN None
      ELSE Ports[CHOOSE i \in others : \A j \in others : i <= j]

\* radioFor: as of the last tick, or else as of now, or else the first radio.
RadioFor(c) ==
  LET here == {i \in DOMAIN Ports : c \in sta[Ports[i]]} IN
  IF stationRadio[c] # None THEN stationRadio[c]
  ELSE IF here = {} THEN Ports[1]
  ELSE Ports[CHOOSE i \in here : \A j \in here : i <= j]

\* linkSteer, or askBeforeDeny before it sends: that forgets an earlier answer.
Ask(q, c, waits) ==
  LET from == RadioFor(c) IN
  /\ "steer" \in doing.what /\ job[q].pc = "new" /\ \A p \in 1..(q - 1) : job[p].pc # "new"
  /\ OtherRadio(from) # None
  /\ job' = [job EXCEPT ![q] = [pc |-> "ready", client |-> c, from |-> from, to |-> OtherRadio(from), waits |-> waits, age |-> 0]]
  /\ accepted' = IF waits THEN accepted \ {c} ELSE accepted
  /\ UNCHANGED <<doing, air, box, pending, told, mon, inbox, missing, ticked>>

\* SteerClient up to hostapd's reply: it knows the station, or refuses.
SteerClient(q) ==
  /\ job[q].pc = "ready"
  /\ IF RadioReady(job[q].from) /\ RadioReady(job[q].to) /\ job[q].client \in sta[job[q].from]
     THEN /\ job' = [job EXCEPT ![q].pc = "sent"]
          /\ reply' = [reply EXCEPT ![q] = "asked"]
     ELSE /\ job' = [job EXCEPT ![q] = Over]
          /\ UNCHANGED reply
  /\ UNCHANGED <<doing, moves, at, sta, fdb, arp, box, heard, mon, inbox, missing, ticked>>

\* notePendingSteer, after hostapd has sent the request.
NotePendingSteer(q) ==
  /\ job[q].pc = "sent"
  /\ pending' = [pending EXCEPT ![job[q].client] =
                   [req |-> q, from |-> job[q].from, age |-> 0]]
  /\ job' = [job EXCEPT ![q].pc = IF job[q].waits THEN "waiting" ELSE "over"]
  /\ UNCHANGED <<doing, air, box, accepted, told, mon, inbox, missing, ticked>>

\* askBeforeDeny's loop: still on the radio it was asked to leave, and unanswered or accepted.
StillGoing(q) ==
  /\ job[q].client \in sta[job[q].from]
  /\ pending[job[q].client] # None \/ job[q].client \in accepted
EndWait(q) ==
  /\ job[q].pc = "waiting"
  /\ ~StillGoing(q) \/ job[q].age >= AskGrace
  /\ job' = [job EXCEPT ![q].age = 0, ![q].pc =
               IF job[q].age < AskGrace /\ job[q].client \in sta[job[q].from] THEN "cut" ELSE "over"]
  /\ UNCHANGED <<doing, air, box, heard, mon, inbox, missing, ticked>>

-----------------------------------------------------------------------------
(* The tick. *)

\* Each radio's station table is read in turn; a client in two of them is where the later says.
StationDump ==
  /\ tick.pc \in {"idle", "dump"}
  /\ LET r == Ports[tick.next + 1]
         last == tick.next + 1 = Len(Ports)
         on == [c \in Clients |-> IF c \in sta[r] THEN r ELSE tick.on[c]]
     IN  /\ tick' = [pc |-> IF last THEN "join" ELSE "dump", next |-> tick.next + 1, on |-> on]
         /\ stationRadio' = IF last THEN on ELSE stationRadio
  /\ told' = IF tick.pc = "dump" THEN told
             ELSE [c \in Clients |-> IF told[c] = "no" THEN "no" ELSE "before"]
  /\ UNCHANGED <<doing, air, box, pending, accepted, mon, inbox, missing, job, roster>>

\* The forwarding table is believed about radios too.
MutantPlaced(c, age) ==
  IF fdb[c] # None THEN fdb[c]
  ELSE IF arp[c] \in Radios /\ (told[c] # "no" \/ age > PresenceGrace) THEN None
  ELSE arp[c]

\* A client that is in no station table, on the word of the bridge or the learner.
Placed(c, age) ==
  IF fdb[c] # None /\ fdb[c] \notin Radios THEN fdb[c]
  ELSE IF arp[c] \in Radios /\ (told[c] # "no" \/ age > PresenceGrace) THEN None
  ELSE arp[c]

\* The bridge's word on a wired port goes before the station tables'.
MutantJoin ==
  LET age == [c \in Clients |-> IF tick.on[c] # None THEN 0 ELSE missing[c]]
      port == [c \in Clients |-> IF tick.on[c] # None /\ fdb[c] # Lan THEN tick.on[c] ELSE Placed(c, age[c])]
  IN  /\ missing' = age
      /\ told' = [c \in Clients |-> IF tick.on[c] # None /\ told[c] = "before" THEN "no" ELSE told[c]]
      /\ roster' = [c \in Clients |-> [port |-> port[c], present |-> port[c] # None]]

Join ==
  LET age == [c \in Clients |-> IF tick.on[c] # None THEN 0 ELSE missing[c]]
      port == [c \in Clients |-> IF tick.on[c] # None THEN tick.on[c] ELSE Placed(c, age[c])]
  IN  /\ missing' = age
      /\ told' = [c \in Clients |-> IF tick.on[c] # None /\ told[c] = "before" THEN "no" ELSE told[c]]
      /\ roster' = [c \in Clients |-> [port |-> port[c], present |-> port[c] # None]]

Overdue == {c \in Clients : pending[c] # None /\ pending[c].age >= BtmWait}
\* A silence is reported only of a client that is still on a radio.
MutantReportMuteSteers ==
  pending' = [c \in Clients |-> IF c \in Overdue /\ stationRadio[c] # None THEN None ELSE pending[c]]
ReportMuteSteers ==
  pending' = [c \in Clients |-> IF c \in Overdue THEN None ELSE pending[c]]

\* The join reads nothing the reports write, and they nothing it writes.
JoinAndReport ==
  /\ tick.pc = "join" /\ Join /\ ReportMuteSteers
  /\ tick' = Idle
  /\ UNCHANGED <<doing, air, box, accepted, mon, inbox, job, stationRadio>>

\* A second passes.
Second ==
  /\ missing' = [c \in Clients |->
       IF "frames" \notin doing.what \/ missing[c] > PresenceGrace THEN missing[c] ELSE missing[c] + 1]
  /\ pending' = [c \in Clients |->
       IF pending[c] = None \/ pending[c].age >= BtmWait THEN pending[c]
       ELSE [pending[c] EXCEPT !.age = @ + 1]]
  /\ job' = [q \in Requests |->
       IF job[q].pc # "waiting" \/ job[q].age >= AskGrace THEN job[q]
       ELSE [job[q] EXCEPT !.age = @ + 1]]
  /\ UNCHANGED <<doing, air, box, accepted, told, mon, inbox, ticked>>

-----------------------------------------------------------------------------
Monitor(r) ==
  Attach(r) \/ Identify(r) \/ QuietCheck(r) \/ HandleHostapdEvent(r) \/ SettleResponse(r)
Request(q) == SteerClient(q) \/ NotePendingSteer(q) \/ EndWait(q)
Tick == StationDump \/ JoinAndReport

Next ==
  \/ \E c \in Clients : Vanish(c) \/ Frame(c) \/ Age(c)
                        \/ \E r \in Radios : Associate(c, r) \/ Drop(c, r)
  \/ \E r \in Radios : Stop(r) \/ Start(r) \/ Monitor(r)
  \/ \E q \in Requests : \/ Request(q)
                         \/ \E c \in Clients, waits \in BOOLEAN : Ask(q, c, waits)
                         \/ \E says \in Answers : Answer(q, says)
  \/ Tick \/ Second

Spec == Init /\ [][Next]_vars

\* The daemon's goroutines run, time passes, and hostapd lets go of a client that is not there.
FairSpec ==
  /\ Spec
  /\ WF_vars(Tick) /\ WF_vars(Second)
  /\ \A r \in Radios : WF_vars(Monitor(r))
  /\ \A q \in Requests : WF_vars(Request(q))
  /\ \A c \in Clients, r \in Radios : WF_vars(at[c] # r /\ Drop(c, r))
-----------------------------------------------------------------------------
(* Properties. *)

\* Every variable keeps its type.
TypeOK ==
  /\ at \in [Clients -> Radios \union {None, Lan}] /\ sta \in [Radios -> SUBSET Clients]
  /\ sock \in [Radios -> 0..MaxSockets] /\ attached \subseteq Radios
  /\ \A r \in Radios : Len(inbox[r]) <= MaxInbox
  /\ reply \in [Requests -> Answers \union {"unasked", "asked"}]
  /\ pending \in [Clients -> PendingSteers \union {None}] /\ accepted \subseteq Clients
  /\ told \in [Clients -> {"no", "before", "since"}]
  /\ missing \in [Clients -> 0..(PresenceGrace + 1)]
  /\ roster \in [Clients -> [port : Radios \union {None, Lan}, present : BOOLEAN]]

\* Every request that was sent is answered, given up or replaced by a later one: nothing
\* stays in pendingSteers, where the waits of a pin look.
EveryRequestEnds == \A q \in Requests : []<>(\A c \in Clients : pending[c] = None \/ pending[c].req # q)

\* A radio whose hostapd serves from some time on is heard from some time on, whatever was
\* restarted before.
HeardAgain ==
  \A r \in Radios : <>[](sock[r] # 0) => <>[](r \in attached)

\* A client that has gone for good leaves the list of every radio, however long the bridge
\* and the learner remember it there.
GoneIsUnlisted ==
  \A c \in Clients : <>[](at[c] \notin Radios) => <>[](roster[c].port \notin Radios)

\* A client that stays on a radio is listed there, whatever an older association left behind
\* and in whatever order the radios' events are read.
StayerIsListed ==
  \A c \in Clients, r \in Radios :
    <>[](at[c] = r) => <>[](roster[c] = [port |-> r, present |-> TRUE])

\* "a restart between the two is caught on the first check rather than missed: the worst case
\* is one extra re-attach, never a monitor pinned to the wrong socket" (hostapdmonitor.go:220).
\* A loop that is satisfied with its socket hears it.
NeverPinned ==
  \A r \in Radios : mon[r].pc = "reading" /\ sock[r] = mon[r].id /\ sock[r] # 0 => r \in attached

\* "Only a refusal, or having gone, ends the wait" (gather.go:828): a client that has not
\* refused the request it is waited for is not cut off before the grace is over.
AcceptIsWaitedFor == \A q \in Requests : job[q].pc = "cut" => reply[q] = "refuse"
=============================================================================
