-------------------------------- MODULE Feed --------------------------------
(***************************************************************************)
(* How an open page learns what the box is doing (stream in api.go, the    *)
(* event log in events.go, BridgeState in bridgeinfo.go, and useStream,    *)
(* useEvents and useBridge of the interface): one stream that is broken    *)
(* and opened again, polls while it is down, and a reload after every      *)
(* action, all of which may be on their way at once.                       *)
(*                                                                         *)
(* What the box's interfaces are is a number, world, which grows with      *)
(* every change; an event is its sequence number and the run of the daemon *)
(* that raised it.  Of the page, one view of each is kept.                 *)
(***************************************************************************)
EXTENDS Integers, SequencesExt

CONSTANTS
  Ring,        \* eventRing
  Limit,       \* the most events an answer to a poll holds; 200 against a ring of 500
  Backlog,     \* how many frames and answers may be on their way to the page
  Overtaking,  \* whether what came by one connection may arrive before what was sent
               \*   earlier by another, a poll being answered after a stream opened later
  Workloads,   \* the panels that are open; events raised, changes to the box, streams
               \*   broken, reloads after actions and daemon restarts to come
  None

ASSUME SizeAssumption ==
  /\ Limit \in Nat \ {0} /\ Ring \in Nat /\ Limit <= Ring
  /\ Backlog \in Nat \ {0} /\ Overtaking \in BOOLEAN
ASSUME WorkloadsAssumption ==
  Workloads \subseteq [open : SUBSET {"events", "bridge"}, events : Nat, changes : Nat, breaks : Nat,
                       reloads : Nat, restarts : Nat]

VARIABLES
  run, seq,     \* the life of the daemon; eventLog.seq
  world,        \* what the box's interfaces are
  view, ver,    \* Engine.bridgeSnap and bridgeVer
  aged,         \* whether the view is older than bridgeTTL
  builds,       \* buildBridgeStates under way; TTL's is the one bridgeSnapGo guards
  handler,      \* the goroutine that serves the stream, or None
  net,          \* frames and answers on their way to the page, as they were sent
  page,         \* the transport, the events' cursor and list, the bridge view
  asked,        \* GET /api/events and GET /api/bridge not answered yet
  left

daemon == <<run, seq, view, ver, aged, builds>>
vars == <<daemon, world, handler, net, page, asked, left>>

TTL == 0
Building == \E b \in builds : b.by = TTL

Init ==
  /\ run = 1 /\ seq = 0 /\ world = 0
  /\ view = None /\ ver = 0 /\ aged = FALSE /\ builds = {}
  /\ handler = None /\ net = <<>>
  /\ page = [mode |-> "offline", since |-> 0, shown |-> {}, bridge |-> None]
  /\ asked = {}
  /\ left \in Workloads

Spend(what) == left[what] > 0 /\ left' = [left EXCEPT ![what] = @ - 1]

-----------------------------------------------------------------------------
(* The event log. *)

Raise ==
  /\ Spend("events")
  /\ seq' = seq + 1
  /\ UNCHANGED <<run, view, ver, aged, builds, world, handler, net, page, asked>>

\* since: the newest of what the ring still holds beyond a cursor.
Since(cursor, limit) == Max({cursor, seq - Ring, seq - limit}) + 1..seq

-----------------------------------------------------------------------------
(* The bridge view. *)

\* storeBridge counts the changes of the view, not the times it is built.
Store(v) ==
  /\ ver' = IF v = view THEN ver ELSE ver + 1
  /\ view' = v /\ aged' = FALSE

\* BridgeState: the first call builds, a later one starts a refresh of an aged view
\* unless one is running, and answers with what there is.
BridgeState ==
  IF view = None
  THEN Store(world) /\ UNCHANGED builds
  ELSE /\ builds' = IF aged /\ ~Building THEN builds \cup {[by |-> TTL, read |-> None]} ELSE builds
       /\ UNCHANGED <<view, ver, aged>>

\* A change that somebody asked for is followed by freshenBridge.
Change(ordered) ==
  /\ Spend("changes")
  /\ world' = world + 1
  /\ IF ordered
     THEN aged' = TRUE /\ builds' = builds \cup {[by |-> left.changes, read |-> None]}
     ELSE UNCHANGED <<aged, builds>>
  /\ UNCHANGED <<run, seq, view, ver, handler, net, page, asked>>

ReadWorld(b) ==
  /\ b.read = None
  /\ builds' = (builds \ {b}) \cup {[b EXCEPT !.read = world]}
  /\ UNCHANGED <<run, seq, view, ver, aged, world, handler, net, page, asked, left>>

StoreBuild(b) ==
  /\ b.read # None
  /\ Store(b.read) /\ builds' = builds \ {b}
  /\ UNCHANGED <<run, seq, world, handler, net, page, asked, left>>

Age ==
  /\ ~aged /\ view # None
  /\ aged' = TRUE
  /\ UNCHANGED <<run, seq, view, ver, builds, world, handler, net, page, asked, left>>

-----------------------------------------------------------------------------
(* The stream's goroutine. *)

At(step) == handler # None /\ handler.at = step
Go(step) == handler' = [handler EXCEPT !.at = step]

Post(message) == Len(net) < Backlog /\ net' = Append(net, message)
BridgeView == [bridge |-> view']
Events(events) == [run |-> run, events |-> events, latest |-> seq]
Send(body) == Post([via |-> "stream", body |-> body])

\* The version is read before the view it stands for, so a view stored in between is
\* sent again, never missed.  A poll asked before the stream opened is answered before its
\* first frame, unless Overtaking.
NoteVersion ==
  /\ At("version")
  /\ Overtaking \/ \A q \in asked : q.via # "events"
  /\ handler' = [handler EXCEPT !.at = "bridge", !.lastBridge = ver]
  /\ UNCHANGED <<daemon, world, net, page, asked, left>>

SendBridge ==
  /\ At("bridge")
  /\ BridgeState
  /\ Send(BridgeView)
  /\ Go(IF handler.greeted THEN "events" ELSE "since")
  /\ UNCHANGED <<run, seq, world, page, asked, left>>

MutantCheckBridge ==
  /\ At("loop")
  /\ handler' = IF ver = handler.lastBridge THEN [handler EXCEPT !.at = "events"]
                ELSE [handler EXCEPT !.at = "bridge", !.lastBridge = ver]
  /\ UNCHANGED <<daemon, world, net, page, asked, left>>

\* The half-second check: asking for the view is what schedules its rebuild.
CheckBridge ==
  /\ At("loop")
  /\ BridgeState
  /\ handler' = IF ver = handler.lastBridge THEN [handler EXCEPT !.at = "events"]
                ELSE [handler EXCEPT !.at = "bridge", !.lastBridge = ver]
  /\ UNCHANGED <<run, seq, world, net, page, asked, left>>

CheckEvents ==
  /\ At("events")
  /\ Go(IF seq = handler.lastSeq THEN "loop" ELSE "since")
  /\ UNCHANGED <<daemon, world, net, page, asked, left>>

ReadEvents ==
  /\ At("since")
  /\ handler' = [handler EXCEPT !.at = "latest", !.events = Since(handler.lastSeq, Ring)]
  /\ UNCHANGED <<daemon, world, net, page, asked, left>>

Newest(events, cursor) == Max(events \cup {cursor})

MutantSendEvents ==
  /\ At("latest")
  /\ Send(Events(handler.events))
  /\ handler' = [handler EXCEPT !.at = "loop", !.greeted = TRUE, !.events = {}, !.lastSeq = seq]
  /\ UNCHANGED <<daemon, world, page, asked, left>>

\* The latest number is read after the events; the cursor moves to the last sent.
SendEvents ==
  /\ At("latest")
  /\ Send(Events(handler.events))
  /\ handler' = [handler EXCEPT !.at = "loop", !.greeted = TRUE, !.events = {},
                                !.lastSeq = Newest(handler.events, @)]
  /\ UNCHANGED <<daemon, world, page, asked, left>>

-----------------------------------------------------------------------------
(* The page. *)

Fresh(p, f) == {n \in f.events : n > p.since}

MutantApply(p, f) ==
  [p EXCEPT !.since = Newest(Fresh(p, f), @), !.shown = @ \cup {f.run} \X Fresh(p, f)]

\* apply in useEvents: a latest number below the cursor means the daemon restarted;
\* of the events, those beyond the cursor are new.
Apply(p, f) ==
  LET q == IF f.latest < p.since THEN [p EXCEPT !.since = 0, !.shown = {}] ELSE p
  IN  [q EXCEPT !.since = Newest(Fresh(q, f), @), !.shown = @ \cup {f.run} \X Fresh(q, f)]

\* Panels that are not open do not listen.
Show(body) ==
  LET of == IF "bridge" \in DOMAIN body THEN "bridge" ELSE "events"
  IN  page' = IF of \notin left.open THEN page
              ELSE IF of = "bridge" THEN [page EXCEPT !.bridge = body.bridge]
              ELSE Apply(page, body)

\* What the stream carries comes in the order it was sent, and each answer by a
\* connection of its own.
Deliver(i) ==
  /\ Overtaking \/ i = 1
  /\ net[i].via = "stream" => \A j \in 1..i - 1 : net[j].via # "stream"
  /\ Show(net[i].body)
  /\ net' = RemoveAt(net, i)
  /\ UNCHANGED <<daemon, world, handler, asked, left>>

Connect ==
  /\ page.mode # "sse"
  /\ page' = [page EXCEPT !.mode = "sse"]
  /\ handler' = [at |-> "version", lastBridge |-> 0, lastSeq |-> 0, greeted |-> FALSE,
                 events |-> {}]
  /\ UNCHANGED <<daemon, world, net, asked, left>>

\* onerror or the watchdog: the frames under way are lost and the goroutine's context
\* ends; answers have connections of their own, and keep their order.
Break ==
  LET answers == {i \in 1..Len(net) : net[i].via # "stream"} IN
  /\ page.mode = "sse" /\ Spend("breaks")
  /\ handler' = None /\ page' = [page EXCEPT !.mode = "poll"]
  /\ \E kept \in [1..Cardinality(answers) -> answers] :
       /\ \A i, j \in DOMAIN kept : i < j => kept[i] < kept[j]
       /\ net' = [i \in DOMAIN kept |-> net[kept[i]]]
  /\ UNCHANGED <<daemon, world, asked>>

\* One of each kind at a time.
Ask(via) ==
  /\ \A q \in asked : q.via # via
  /\ \A i \in 1..Len(net) : net[i].via # via
  /\ asked' = asked \cup {[via |-> via, since |-> page.since]}
  /\ UNCHANGED <<daemon, world, handler, net, page>>

\* poll in useEvents, and load in useBridge, every few seconds without a stream.
Poll(via) == via \in left.open /\ page.mode # "sse" /\ Ask(via) /\ UNCHANGED left

\* act in useBridge reloads after every action, and start when the panel is opened,
\* stream or not.
Reload == "bridge" \in left.open /\ Spend("reloads") /\ Ask("bridge")

AnswerEvents(q) ==
  /\ q.via = "events"
  /\ Post([via |-> q.via, body |-> Events(Since(q.since, Limit))])
  /\ asked' = asked \ {q}
  /\ UNCHANGED <<daemon, world, handler, page, left>>

AnswerBridge(q) ==
  /\ q.via = "bridge"
  /\ BridgeState
  /\ Post([via |-> q.via, body |-> BridgeView])
  /\ asked' = asked \ {q}
  /\ UNCHANGED <<run, seq, world, handler, page, left>>

\* A deploy, or a crash: the log and the view are in memory; whatever was under way
\* is lost with the connections.
Restart ==
  /\ Spend("restarts")
  /\ run' = run + 1 /\ seq' = 0
  /\ view' = None /\ ver' = 0 /\ aged' = FALSE /\ builds' = {}
  /\ handler' = None /\ net' = <<>> /\ asked' = {}
  /\ page' = [page EXCEPT !.mode = "poll"]
  /\ UNCHANGED world

-----------------------------------------------------------------------------
Builds == \E b \in builds : ReadWorld(b) \/ StoreBuild(b)
Serve == NoteVersion \/ SendBridge \/ CheckBridge \/ CheckEvents \/ ReadEvents \/ SendEvents
Answer == \E q \in asked : AnswerEvents(q) \/ AnswerBridge(q)
Arrive == \E i \in 1..Len(net) : Deliver(i)

Next ==
  \/ Raise \/ (\E ordered \in BOOLEAN : Change(ordered)) \/ Break \/ Restart \/ Reload
  \/ Age \/ Builds \/ Serve \/ Answer \/ Arrive \/ Connect
  \/ \E via \in {"events", "bridge"} : Poll(via)

Spec == Init /\ [][Next]_vars

\* The page retries for ever, the goroutines run, requests are answered and what is
\* under way arrives or is lost; nothing need ever happen on the box, no stream need
\* break, and nobody need press anything.
FairSpec == Spec /\ WF_vars(Age) /\ WF_vars(Builds) /\ WF_vars(Serve) /\ WF_vars(Answer)
                 /\ WF_vars(Arrive) /\ WF_vars(Connect)

-----------------------------------------------------------------------------
\* The page's list of events is an activity log as ActivityLog has it: once each, in
\* order, none passed over unless Limit newer ones were there, across breaks, replays of
\* the whole ring on every connect, and polls answered while the stream comes back (#520,
\* #196).
Log == INSTANCE ActivityLog WITH Kept <- Limit, run <- run, logged <- seq, shown <- page.shown
ShowsTheLog == Log!Spec

\* When the box settles the page comes to show it as it is, although a frame is sent
\* only when the version has moved and builds may be stored out of order.
BridgeCatchesUp == <>[]("bridge" \in left.open => page.bridge = world)

\* When nothing more is raised, the page comes to stand where the log does, although the
\* daemon may have restarted and begun its numbers again (#196).
EventsCatchUp == <>[]("events" \in left.open => page.since = seq)

\* "Anything at or below `since` is a copy" (useEvents.ts): of the events on their way to
\* the page, those its cursor is past are on it.
CopiesOnly == \A i \in 1..Len(net) :
  "events" \in DOMAIN net[i].body /\ net[i].body.latest >= page.since =>
    \A n \in net[i].body.events : n <= page.since => <<run, n>> \in page.shown

\* "Within one run the sequence only grows, so a latest LOWER than the cursor a caller
\* holds is unambiguous" (events.go): the page lets go of its events for a restart only.
ResetsForARestartOnly == [][\A e \in page.shown \ page'.shown : e[1] # run]_vars
=============================================================================
