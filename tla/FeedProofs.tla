----------------------------- MODULE FeedProofs -----------------------------
(***************************************************************************)
(* That the page's list of events is an activity log, for every ring,      *)
(* limit, backlog and workload, as long as what is sent earlier arrives    *)
(* earlier: the stream and the page implement ActivityLog.                 *)
(***************************************************************************)
EXTENDS Feed, FiniteSetTheorems, SequenceTheorems, TLAPS

----------------------------------------------------------------------------
(* Types.                                                                  *)

View == Nat \cup {None}

\* What an answer or a frame holds of the log: events that follow one another.
Spans == {s \in SUBSET Nat : \E a \in Nat \ {0}, b \in Nat : s = a..b}
Batches == [run : Nat, events : Spans, latest : Nat]

Frames == [via : {"stream", "bridge"}, body : [bridge : View]]
            \cup [via : {"stream", "events"}, body : Batches]

Handlers == [at : {"version", "bridge", "events", "since", "latest", "loop"}, lastBridge : Nat,
             lastSeq : Nat, greeted : BOOLEAN, events : Spans]

Pages == [mode : {"offline", "sse", "poll"}, since : Nat, shown : SUBSET (Nat \X Nat), bridge : View]

Lefts == [open : SUBSET {"events", "bridge"}, events : Nat, changes : Nat, breaks : Nat,
          reloads : Nat, restarts : Nat]

ViewOK ==
  /\ world \in Nat /\ view \in View /\ ver \in Nat
  /\ builds \subseteq [by : Nat, read : View]

LogOK ==
  /\ run \in Nat /\ seq \in Nat
  /\ handler \in Handlers \cup {None}
  /\ net \in Seq(Frames)
  /\ page \in Pages
  /\ asked \subseteq [via : {"events", "bridge"}, since : Nat]
  /\ left \in Lefts

----------------------------------------------------------------------------
(* The inductive invariant.                                                *)

Carries(f) == f.body \in Batches

\* Somebody who has seen everything up to r, or all the log still promises, can be
\* given these next.
Follows(events, r) == \E a \in Nat \ {0}, b \in Nat :
  events = a..b /\ (a <= r + 1 \/ a + Limit <= b + 1)

Misled == Log!Misled

\* All that is shown is of an earlier run.
Stale == page.shown # {} /\ \A e \in page.shown : e[1] # run

\* How far the page has come in this run's log.
Base == IF Misled THEN 0 ELSE page.since

\* A page that has come to b will have come to r once it has the frames before the i-th.
Reached(b, frames, i, r) ==
  \/ r <= b
  \/ \E j \in 1..i - 1 : Carries(frames[j]) /\ \E n \in frames[j].body.events : r <= n

\* Frames are of this run, and say no more than was raised when they were sent.
Sent == \A i \in 1..Len(net) : Carries(net[i]) =>
  /\ net[i].body.run = run
  /\ net[i].body.latest <= seq
  /\ \A n \in net[i].body.events : n <= net[i].body.latest

\* The cursor stands at the newest event shown.
Cursor ==
  /\ \A e \in page.shown : e[1] <= run /\ e[2] <= page.since
  /\ page.shown = {} => page.since = 0
  /\ page.shown # {} => \E e \in page.shown : e[2] = page.since

InOrder == \A i, j \in 1..Len(net) :
  i < j /\ Carries(net[i]) /\ Carries(net[j]) => net[i].body.latest <= net[j].body.latest

\* The answer to a poll is ahead of everything the next stream sends.
PollsFirst == \A i \in 1..Len(net) : net[i].via = "events" => \A j \in 1..i - 1 : ~Carries(net[j])

\* While a poll is unanswered the page's cursor stays where it was when it asked.
PollsCurrent == \A q \in asked : q.via = "events" =>
  /\ q.since = page.since
  /\ \A i \in 1..Len(net) : ~Carries(net[i])
  /\ handler = None \/ handler.at = "version"

OffStream == page.mode # "sse" => handler = None /\ \A i \in 1..Len(net) : net[i].via # "stream"

\* Nothing on its way would make the page believe in a restart.
Caught ==
  /\ page.since <= seq
  /\ \A i \in 1..Len(net) : Carries(net[i]) => page.since <= net[i].body.latest

CaughtUp == Stale \/ Caught

Reading == At("latest") =>
  /\ \A n \in handler.events : n <= seq
  /\ Follows(handler.events, handler.lastSeq)

\* For a page that shows this run, or will let go of the run before, each frame goes on
\* where those before it end, and so does what the stream sends next.
FramesFollow == \A i \in 1..Len(net) : Carries(net[i]) =>
  \E r \in Nat : Reached(Base, net, i, r) /\ Follows(net[i].body.events, r)

StreamFollows == handler # None => Reached(Base, net, Len(net) + 1, handler.lastSeq)

Continues == ~Misled \/ ~Caught => FramesFollow /\ StreamFollows

Listening == "events" \in left.open

PageInv ==
  /\ Cursor /\ InOrder /\ PollsFirst /\ PollsCurrent /\ OffStream
  /\ CaughtUp /\ Reading /\ Continues

IInv ==
  /\ ViewOK /\ LogOK
  /\ IF Listening THEN Sent /\ PageInv ELSE page.shown = {}

----------------------------------------------------------------------------
(* Operators.                                                              *)

LEMMA MaxIs ==
  ASSUME NEW S \in SUBSET Int, NEW m \in S, \A x \in S : x <= m
  PROVE  Max(S) = m
<1>1. \A x \in S : m >= x
  OBVIOUS
<1>2. \A y \in S : (\A x \in S : y >= x) => y = m
  OBVIOUS
<1> QED BY <1>1, <1>2 DEF Max

\* What the ring answers follows the cursor it is asked with.
LEMMA SinceFollows ==
  ASSUME LogOK, NEW cursor \in Nat, NEW limit \in Nat, Limit <= limit, limit <= Ring
  PROVE  /\ Since(cursor, limit) \in Spans
         /\ Follows(Since(cursor, limit), cursor)
         /\ \A n \in Since(cursor, limit) : cursor < n /\ n <= seq
<1> USE SizeAssumption DEF LogOK
<1> DEFINE S == {cursor, seq - Ring, seq - limit}
<1>1. S \in SUBSET Int
  OBVIOUS
<1>2. PICK m \in Nat : Max(S) = m /\ (m = cursor \/ m = seq - limit) /\ cursor <= m
  <2>1. CASE seq - limit <= cursor
    <3>1. cursor \in S /\ \A x \in S : x <= cursor
      BY <2>1
    <3>2. Max(S) = cursor
      BY ONLY <1>1, <3>1, MaxIs
    <3> QED BY <3>2
  <2>2. CASE ~(seq - limit <= cursor)
    <3>1. seq - limit \in S /\ \A x \in S : x <= seq - limit
      BY <2>2
    <3>2. Max(S) = seq - limit
      BY ONLY <1>1, <3>1, MaxIs
    <3> QED BY <3>2, <2>2
  <2> QED BY <2>1, <2>2
<1>3. Since(cursor, limit) = m + 1..seq
  BY <1>2 DEF Since
<1>4. m + 1 \in Nat \ {0}
  BY <1>2
<1>5. m + 1 <= cursor + 1 \/ (m + 1) + Limit <= seq + 1
  BY <1>2
<1>6. m + 1..seq \in SUBSET Nat
  BY <1>2
<1>7. \A n \in m + 1..seq : cursor < n /\ n <= seq
  BY <1>2
<1> HIDE DEF S
<1> QED BY <1>3, <1>4, <1>5, <1>6, <1>7 DEF Spans, Follows

\* The events of a span beyond a cursor, and the newest of them.
LEMMA FreshOf ==
  ASSUME NEW s \in Spans, NEW c \in Nat, NEW fresh, fresh = {n \in s : n > c}
  PROVE  /\ Newest(fresh, c) \in Nat
         /\ c <= Newest(fresh, c)
         /\ \A n \in s : n <= Newest(fresh, c)
         /\ IF fresh = {} THEN Newest(fresh, c) = c ELSE Newest(fresh, c) \in fresh
<1>1. PICK a \in Nat \ {0}, b \in Nat : s = a..b
  BY DEF Spans
<1>2. fresh \cup {c} \in SUBSET Int
  BY <1>1
<1>3. CASE fresh = {}
  <2>1. c \in fresh \cup {c} /\ \A x \in fresh \cup {c} : x <= c
    BY <1>3
  <2>2. Max(fresh \cup {c}) = c
    BY ONLY <1>2, <2>1, MaxIs
  <2>3. Newest(fresh, c) = c
    BY <2>2 DEF Newest
  <2>4. \A n \in s : n \in Nat /\ n \notin fresh
    BY <1>1, <1>3
  <2>5. \A n \in s : n <= c
    BY <2>4
  <2> QED BY <2>3, <2>5, <1>3
<1>4. CASE fresh # {}
  <2>1. b \in fresh
    BY <1>1, <1>4
  <2>2. b \in fresh \cup {c} /\ \A x \in fresh \cup {c} : x <= b
    BY <2>1, <1>1
  <2>3. Max(fresh \cup {c}) = b
    BY ONLY <1>2, <2>2, MaxIs
  <2>4. Newest(fresh, c) = b
    BY <2>3 DEF Newest
  <2>5. c <= b /\ (\A n \in s : n <= b) /\ b \in Nat
    BY <2>1, <1>1
  <2> QED BY <2>1, <2>4, <2>5, <1>4
<1> QED BY <1>3, <1>4

\* What goes on from r, of somebody beyond r, is what Show gives.
LEMMA FollowsShows ==
  ASSUME NEW s \in Spans, NEW c \in Nat, NEW r \in Nat, r <= c, Follows(s, r),
         {n \in s : n > c} # {}
  PROVE  \E first, last \in Nat :
           /\ {n \in s : n > c} = first..last
           /\ c + 1 <= first /\ first <= last
           /\ first <= c + 1 \/ first + Limit <= last + 1
<1> USE SizeAssumption
<1>1. PICK a \in Nat \ {0}, b \in Nat : s = a..b /\ (a <= r + 1 \/ a + Limit <= b + 1)
  BY DEF Follows
<1>2. b > c /\ a <= b
  BY <1>1
<1>3. CASE a <= c + 1
  <2>1. {n \in s : n > c} = c + 1..b
    BY <1>1, <1>3
  <2> QED BY <2>1, <1>2
<1>4. CASE c + 1 < a
  <2>1. {n \in s : n > c} = a..b
    BY <1>1, <1>4
  <2>2. a + Limit <= b + 1
    BY <1>1, <1>4
  <2> QED BY <2>1, <2>2, <1>2, <1>4
<1> QED BY <1>3, <1>4

LEMMA Nothing == {} \in Spans /\ Follows({}, 0)
<1>1. {} = 1..0 /\ 1 \in Nat \ {0} /\ 0 \in Nat
  OBVIOUS
<1>2. {} \in SUBSET Nat
  OBVIOUS
<1> QED BY <1>1, <1>2, SizeAssumption DEF Spans, Follows

----------------------------------------------------------------------------
(* Types are kept.                                                         *)

LEMMA Spent ==
  ASSUME left \in Lefts, NEW what \in {"events", "changes", "breaks", "reloads", "restarts"},
         Spend(what)
  PROVE  left' \in Lefts /\ left'.open = left.open
<1>1. left' = [left EXCEPT ![what] = @ - 1] /\ left[what] > 0
  BY DEF Spend
<1>2. left = [open |-> left.open, events |-> left.events, changes |-> left.changes,
              breaks |-> left.breaks, reloads |-> left.reloads, restarts |-> left.restarts]
      /\ left.open \in SUBSET {"events", "bridge"}
      /\ left.events \in Nat /\ left.changes \in Nat /\ left.breaks \in Nat
      /\ left.reloads \in Nat /\ left.restarts \in Nat
  BY DEF Lefts
<1>3. CASE what = "events"
  BY <1>1, <1>2, <1>3 DEF Lefts
<1>4. CASE what = "changes"
  BY <1>1, <1>2, <1>4 DEF Lefts
<1>5. CASE what = "breaks"
  BY <1>1, <1>2, <1>5 DEF Lefts
<1>6. CASE what = "reloads"
  BY <1>1, <1>2, <1>6 DEF Lefts
<1>7. CASE what = "restarts"
  BY <1>1, <1>2, <1>7 DEF Lefts
<1> QED BY <1>3, <1>4, <1>5, <1>6, <1>7

LEMMA StoreOK == ASSUME ViewOK, UNCHANGED world, NEW v \in Nat, Store(v) PROVE view' \in View /\ ver' \in Nat
BY DEF ViewOK, Store, View

LEMMA BridgeStateOK == ASSUME ViewOK, UNCHANGED world, BridgeState PROVE ViewOK'
<1>1. CASE view = None
  <2>1. Store(world) /\ UNCHANGED builds
    BY <1>1 DEF BridgeState
  <2> QED BY <2>1, StoreOK DEF ViewOK
<1>2. CASE view # None
  <2>1. UNCHANGED <<view, ver>> /\ builds' \subseteq builds \cup {[by |-> TTL, read |-> None]}
    BY <1>2 DEF BridgeState
  <2>2. [by |-> TTL, read |-> None] \in [by : Nat, read : View]
    BY DEF TTL, View
  <2> QED BY <2>1, <2>2 DEF ViewOK
<1> QED BY <1>1, <1>2

LEMMA Appended ==
  ASSUME net \in Seq(Frames), NEW f \in Frames, net' = Append(net, f)
  PROVE  /\ net' \in Seq(Frames)
         /\ Len(net) \in Nat
         /\ Len(net') = Len(net) + 1
         /\ \A i \in 1..Len(net) : net'[i] = net[i]
         /\ net'[Len(net) + 1] = f
OBVIOUS

LEMMA OneShorter == ASSUME NEW n \in Nat, n >= 1 PROVE (IF 2 <= n THEN n - 2 + 1 ELSE 0) = n - 1
OBVIOUS

LEMMA Removed ==
  ASSUME net \in Seq(Frames), Len(net) >= 1, net' = RemoveAt(net, 1)
  PROVE  /\ net' \in Seq(Frames)
         /\ Len(net) \in Nat
         /\ Len(net') = Len(net) - 1
         /\ \A i \in 1..Len(net) - 1 : net'[i] = net[i + 1]
<1> DEFINE rest == SubSeq(net, 2, Len(net))
<1>1. Len(net) \in Nat /\ \A i \in 2..Len(net) : net[i] \in Frames
  OBVIOUS
<1>2. /\ rest \in Seq(Frames)
      /\ Len(rest) = IF 2 <= Len(net) THEN Len(net) - 2 + 1 ELSE 0
      /\ \A i \in 1..Len(net) - 2 + 1 : rest[i] = net[2 + i - 1]
  BY <1>1, SubSeqProperties
<1>3. net' = <<>> \o rest
  <2>1. SubSeq(net, 1, 1 - 1) = <<>>
    BY SubSeqEmpty
  <2>2. net' = SubSeq(net, 1, 1 - 1) \o SubSeq(net, 1 + 1, Len(net))
    BY DEF RemoveAt
  <2>3. 1 + 1 = 2
    OBVIOUS
  <2> QED BY <2>1, <2>2, <2>3
<1>4. net' = rest
  BY <1>2, <1>3, ConcatEmptySeq
<1> HIDE DEF rest
<1>5. Len(rest) = Len(net) - 1 /\ \A i \in 1..Len(net) - 1 : rest[i] = net[i + 1]
  <2>1. Len(rest) = Len(net) - 1
    BY <1>1, <1>2, OneShorter
  <2>2. ASSUME NEW i \in 1..Len(net) - 1 PROVE rest[i] = net[i + 1]
    <3>1. i \in 1..Len(net) - 2 + 1 /\ 2 + i - 1 = i + 1
      BY <1>1
    <3> QED BY <1>2, <3>1
  <2> QED BY <2>1, <2>2
<1> QED BY <1>1, <1>2, <1>4, <1>5

LEMMA BatchOK ==
  ASSUME LogOK, NEW s \in Spans
  PROVE  Events(s) \in Batches /\ Events(s).run = run /\ Events(s).events = s /\ Events(s).latest = seq
BY DEF LogOK, Events, Batches

TypesKept == ViewOK' /\ LogOK' /\ left'.open = left.open

LEMMA BoxTypes ==
  ASSUME ViewOK, LogOK,
         Raise \/ (\E ordered \in BOOLEAN : Change(ordered)) \/ Age \/ Builds
  PROVE  TypesKept
<1>1. CASE Raise
  BY <1>1, Spent DEF Raise, ViewOK, LogOK, TypesKept
<1>2. ASSUME NEW ordered \in BOOLEAN, Change(ordered) PROVE TypesKept
  <2>1. [by |-> left.changes, read |-> None] \in [by : Nat, read : View]
    BY DEF LogOK, Lefts, View
  <2>2. left' \in Lefts /\ left'.open = left.open
    BY <1>2, Spent DEF Change, LogOK
  <2>3. builds' \subseteq [by : Nat, read : View]
    BY <1>2, <2>1 DEF Change, ViewOK
  <2> QED BY <1>2, <2>2, <2>3 DEF Change, ViewOK, LogOK, TypesKept
<1>3. CASE Age
  BY <1>3 DEF Age, ViewOK, LogOK, TypesKept
<1>4. ASSUME NEW b \in builds, ReadWorld(b) PROVE TypesKept
  <2>1. b \in [by : Nat, read : View] /\ world \in View
    BY DEF ViewOK, View
  <2>2. [b EXCEPT !.read = world] \in [by : Nat, read : View]
    BY <2>1
  <2>3. builds' \subseteq [by : Nat, read : View]
    BY <1>4, <2>2 DEF ReadWorld, ViewOK
  <2> QED BY <1>4, <2>3 DEF ReadWorld, ViewOK, LogOK, TypesKept
<1>5. ASSUME NEW b \in builds, StoreBuild(b) PROVE TypesKept
  <2>1. b.read \in Nat
    BY <1>5 DEF StoreBuild, ViewOK, View
  <2>2. view' \in View /\ ver' \in Nat
    BY <1>5, <2>1, StoreOK DEF StoreBuild
  <2> QED BY <1>5, <2>2 DEF StoreBuild, ViewOK, LogOK, TypesKept
<1> QED BY <1>1, <1>2, <1>3, <1>4, <1>5 DEF Builds

LEMMA BridgeFrame ==
  ASSUME ViewOK', NEW via \in {"stream", "bridge"}
  PROVE  /\ [via |-> via, body |-> BridgeView] \in Frames
         /\ ~Carries([via |-> via, body |-> BridgeView])
<1>1. BridgeView \in [bridge : View]
  BY DEF BridgeView, ViewOK
<1>2. ASSUME NEW f \in Batches PROVE "bridge" \notin DOMAIN f
  BY DEF Batches
<1>3. "bridge" \in DOMAIN BridgeView
  BY DEF BridgeView
<1> QED BY <1>1, <1>2, <1>3 DEF Frames, Carries

LEMMA EventsFrame ==
  ASSUME LogOK, NEW via \in {"stream", "events"}, NEW s \in Spans
  PROVE  /\ [via |-> via, body |-> Events(s)] \in Frames
         /\ Carries([via |-> via, body |-> Events(s)])
BY BatchOK DEF Frames, Carries

LEMMA HandlerForm ==
  ASSUME LogOK, handler # None
  PROVE  /\ handler \in Handlers
         /\ handler = [at |-> handler.at, lastBridge |-> handler.lastBridge,
                       lastSeq |-> handler.lastSeq, greeted |-> handler.greeted,
                       events |-> handler.events]
BY DEF LogOK, Handlers

LEMMA PageForm ==
  ASSUME LogOK
  PROVE  page = [mode |-> page.mode, since |-> page.since, shown |-> page.shown,
                 bridge |-> page.bridge]
BY DEF LogOK, Pages

\* The newest of a span and a cursor.
LEMMA NewestOf ==
  ASSUME NEW s \in Spans, NEW c \in Nat
  PROVE  /\ Newest(s, c) \in Nat
         /\ c <= Newest(s, c)
         /\ \A n \in s : n <= Newest(s, c)
         /\ Newest(s, c) = c \/ Newest(s, c) \in s
<1>1. PICK a \in Nat \ {0}, b \in Nat : s = a..b
  BY DEF Spans
<1>2. s \cup {c} \in SUBSET Int
  BY <1>1
<1> DEFINE m == IF a <= b /\ c < b THEN b ELSE c
<1>3. m \in s \cup {c} /\ \A x \in s \cup {c} : x <= m
  BY <1>1
<1>4. Max(s \cup {c}) = m
  BY ONLY <1>2, <1>3, MaxIs
<1>5. Newest(s, c) = m
  BY <1>4 DEF Newest
<1>6. m \in Nat /\ c <= m
  BY <1>1
<1> HIDE DEF m
<1> QED BY <1>3, <1>5, <1>6

LEMMA ServeTypes ==
  ASSUME ViewOK, LogOK, Serve
  PROVE  TypesKept
<1>1. handler # None
  BY DEF Serve, NoteVersion, SendBridge, CheckBridge, CheckEvents, ReadEvents, SendEvents, At
<1>2. handler \in Handlers
  BY <1>1, HandlerForm
<1>3. CASE NoteVersion
  <2>1. handler' \in Handlers
    BY <1>2, <1>3 DEF NoteVersion, Handlers, ViewOK
  <2> QED BY <2>1, <1>3 DEF NoteVersion, daemon, ViewOK, LogOK, TypesKept
<1>4. CASE SendBridge
  <2>1. handler' \in Handlers
    BY <1>2, <1>4 DEF SendBridge, Go, Handlers
  <2>2. ViewOK'
    BY <1>4, BridgeStateOK DEF SendBridge
  <2>3. net' \in Seq(Frames)
    BY <1>4, <2>2, BridgeFrame, Appended DEF SendBridge, Send, Post, LogOK
  <2> QED BY <2>1, <2>2, <2>3, <1>4 DEF SendBridge, LogOK, TypesKept
<1>5. CASE CheckBridge
  <2>1. handler' \in Handlers
    BY <1>2, <1>5 DEF CheckBridge, Handlers, ViewOK
  <2>2. ViewOK'
    BY <1>5, BridgeStateOK DEF CheckBridge
  <2> QED BY <2>1, <2>2, <1>5 DEF CheckBridge, LogOK, TypesKept
<1>6. CASE CheckEvents
  <2>1. handler' \in Handlers
    BY <1>2, <1>6 DEF CheckEvents, Go, Handlers
  <2> QED BY <2>1, <1>6 DEF CheckEvents, daemon, ViewOK, LogOK, TypesKept
<1>7. CASE ReadEvents
  <2>1. handler.lastSeq \in Nat
    BY <1>2 DEF Handlers
  <2>2. Since(handler.lastSeq, Ring) \in Spans
    BY <2>1, SinceFollows, SizeAssumption
  <2>3. handler' \in Handlers
    BY <1>2, <1>7, <2>2 DEF ReadEvents, Handlers
  <2> QED BY <2>3, <1>7 DEF ReadEvents, daemon, ViewOK, LogOK, TypesKept
<1>8. CASE SendEvents
  <2>1. handler.lastSeq \in Nat /\ handler.events \in Spans
    BY <1>2 DEF Handlers
  <2>2. Newest(handler.events, handler.lastSeq) \in Nat
    BY <2>1, NewestOf
  <2>3. handler' \in Handlers
    BY <1>2, <1>8, <2>2, Nothing DEF SendEvents, Handlers
  <2>4. net' \in Seq(Frames)
    BY <1>8, <2>1, EventsFrame, Appended DEF SendEvents, Send, Post, LogOK
  <2> QED BY <2>3, <2>4, <1>8 DEF SendEvents, daemon, ViewOK, LogOK, TypesKept
<1> QED BY <1>3, <1>4, <1>5, <1>6, <1>7, <1>8 DEF Serve

LEMMA AnswerTypes ==
  ASSUME ViewOK, LogOK, Answer
  PROVE  TypesKept
<1>1. ASSUME NEW q \in asked, AnswerEvents(q) PROVE TypesKept
  <2>1. q.since \in Nat
    BY DEF LogOK
  <2>2. Since(q.since, Limit) \in Spans
    BY <2>1, SinceFollows, SizeAssumption
  <2>3. net' \in Seq(Frames)
    BY <1>1, <2>2, EventsFrame, Appended DEF AnswerEvents, Post, LogOK
  <2> QED BY <2>3, <1>1 DEF AnswerEvents, daemon, ViewOK, LogOK, TypesKept
<1>2. ASSUME NEW q \in asked, AnswerBridge(q) PROVE TypesKept
  <2>1. ViewOK'
    BY <1>2, BridgeStateOK DEF AnswerBridge
  <2>2. net' \in Seq(Frames)
    BY <1>2, <2>1, BridgeFrame, Appended DEF AnswerBridge, Post, LogOK
  <2> QED BY <2>1, <2>2, <1>2 DEF AnswerBridge, LogOK, TypesKept
<1> QED BY <1>1, <1>2 DEF Answer

\* Where the page begins on a frame, and what it still shows of the others.
From(f) == IF f.latest < page.since THEN 0 ELSE page.since
Still(f) == IF f.latest < page.since THEN {} ELSE page.shown
New(f) == {n \in f.events : n > From(f)}

LEMMA ApplyIs ==
  ASSUME LogOK, NEW f \in Batches, page' = Apply(page, f)
  PROVE  /\ page' \in Pages
         /\ page'.mode = page.mode
         /\ page'.since = Newest(New(f), From(f))
         /\ page'.shown = Still(f) \cup {f.run} \X New(f)
<1> DEFINE q == IF f.latest < page.since THEN [page EXCEPT !.since = 0, !.shown = {}] ELSE page
<1>1. /\ page.mode \in {"offline", "sse", "poll"} /\ page.since \in Nat
      /\ page.shown \in SUBSET (Nat \X Nat) /\ page.bridge \in View
  BY DEF LogOK, Pages
<1>2. q = [mode |-> page.mode, since |-> From(f), shown |-> Still(f), bridge |-> page.bridge]
  BY PageForm DEF From, Still
<1> HIDE DEF q
<1>3. q.mode = page.mode /\ q.since = From(f) /\ q.shown = Still(f) /\ q.bridge = page.bridge
  BY <1>2
<1>4. Fresh(q, f) = New(f)
  BY <1>3 DEF Fresh, New
<1>5. page' = [q EXCEPT !.since = Newest(Fresh(q, f), q.since),
                        !.shown = q.shown \cup {f.run} \X Fresh(q, f)]
  BY DEF Apply, q
<1>6. page' = [mode |-> page.mode, since |-> Newest(New(f), From(f)),
               shown |-> Still(f) \cup {f.run} \X New(f), bridge |-> page.bridge]
  BY <1>2, <1>3, <1>4, <1>5
<1>7. From(f) \in Nat /\ f.events \in Spans /\ f.run \in Nat
  BY <1>1 DEF From, Batches
<1>8. Newest(New(f), From(f)) \in Nat
  BY <1>7, FreshOf DEF New
<1>9. New(f) \subseteq Nat
  BY <1>7 DEF New, Spans
<1>10. Still(f) \cup {f.run} \X New(f) \in SUBSET (Nat \X Nat)
  BY <1>1, <1>7, <1>9 DEF Still
<1> HIDE DEF New, From, Still
<1> QED BY <1>1, <1>6, <1>8, <1>10 DEF Pages

LEMMA FrameForms ==
  ASSUME NEW f \in Frames
  PROVE  /\ Carries(f) => f.body \in Batches /\ f.via \in {"stream", "events"}
                            /\ "bridge" \notin DOMAIN f.body
         /\ ~Carries(f) => f.body \in [bridge : View] /\ f.via \in {"stream", "bridge"}
                            /\ "bridge" \in DOMAIN f.body
<1>1. f \in [via : {"stream", "bridge"}, body : [bridge : View]]
        \/ f \in [via : {"stream", "events"}, body : Batches]
  BY DEF Frames
<1>2. ASSUME NEW g \in Batches PROVE "bridge" \notin DOMAIN g
  BY DEF Batches
<1>3. ASSUME NEW g \in [bridge : View] PROVE "bridge" \in DOMAIN g
  OBVIOUS
<1> QED BY <1>1, <1>2, <1>3 DEF Carries

\* What becomes of the page.
LEMMA DeliverIs ==
  ASSUME LogOK, ~Overtaking, NEW i \in 1..Len(net), Deliver(i)
  PROVE  /\ i = 1 /\ 1 <= Len(net) /\ net[1] \in Frames
         /\ net' = RemoveAt(net, 1)
         /\ UNCHANGED <<daemon, world, handler, asked, left>>
         /\ IF Carries(net[1])
            THEN page' = (IF Listening THEN Apply(page, net[1].body) ELSE page)
            ELSE page'.since = page.since /\ page'.shown = page.shown /\ page'.mode = page.mode
                 /\ page' \in Pages
<1>1. i = 1
  BY DEF Deliver
<1>2. Len(net) \in Nat /\ 1 <= Len(net)
  BY <1>1 DEF LogOK
<1>3. net[1] \in Frames
  BY <1>1 DEF LogOK
<1>4. CASE Carries(net[1])
  <2>1. "bridge" \notin DOMAIN net[1].body
    BY <1>3, <1>4, FrameForms
  <2>2. page' = IF Listening THEN Apply(page, net[1].body) ELSE page
    BY <1>1, <2>1 DEF Deliver, Show, Listening
  <2> QED BY <1>1, <1>2, <1>3, <1>4, <2>2 DEF Deliver
<1>5. CASE ~Carries(net[1])
  <2>1. "bridge" \in DOMAIN net[1].body /\ net[1].body.bridge \in View
    BY <1>3, <1>5, FrameForms
  <2>2. page' = page \/ page' = [page EXCEPT !.bridge = net[1].body.bridge]
    BY <1>1, <2>1 DEF Deliver, Show
  <2>3. page'.since = page.since /\ page'.shown = page.shown /\ page'.mode = page.mode
    BY <2>2, PageForm
  <2>4. page' \in Pages
    BY <2>1, <2>2 DEF LogOK, Pages
  <2> QED BY <1>1, <1>2, <1>3, <1>5, <2>3, <2>4 DEF Deliver
<1> QED BY <1>4, <1>5

\* What is left of the network keeps its order, and none of it is the stream's.
Survives(kept) ==
  /\ \A i \in 1..Len(net') : /\ kept[i] \in 1..Len(net) /\ net'[i] = net[kept[i]]
                            /\ net'[i].via # "stream"
  /\ \A i, j \in 1..Len(net') : i < j => kept[i] < kept[j]

LEMMA BreakIs ==
  ASSUME LogOK, Break
  PROVE  net' \in Seq(Frames) /\ \E kept : Survives(kept)
<1> DEFINE answers == {i \in 1..Len(net) : net[i].via # "stream"}
<1>1. Len(net) \in Nat /\ \A i \in 1..Len(net) : net[i] \in Frames
  BY DEF LogOK
<1>2. IsFiniteSet(1..Len(net))
  BY <1>1, FS_Interval
<1>3. IsFiniteSet(answers)
  BY <1>2, FS_Subset
<1>4. PICK n \in Nat : n = Cardinality(answers)
  BY <1>3, FS_CardinalityType
<1>5. PICK kept \in [1..n -> answers] :
        /\ \A i, j \in DOMAIN kept : i < j => kept[i] < kept[j]
        /\ net' = [i \in DOMAIN kept |-> net[kept[i]]]
  BY <1>4 DEF Break
<1>6. DOMAIN kept = 1..n /\ \A i \in 1..n : kept[i] \in answers
  BY <1>5
<1>7. net' = [i \in 1..n |-> net[kept[i]]] /\ \A i \in 1..n : net[kept[i]] \in Frames
  BY <1>1, <1>5, <1>6
<1>8. net' \in Seq(Frames) /\ Len(net') = n
  BY <1>7
<1>9. Survives(kept)
  BY <1>5, <1>6, <1>7, <1>8 DEF Survives
<1> QED BY <1>8, <1>9

LEMMA PageTypes ==
  ASSUME ViewOK, LogOK, ~Overtaking,
         \/ Arrive \/ Connect \/ Break \/ Restart \/ Reload
         \/ \E via \in {"events", "bridge"} : Poll(via)
  PROVE  TypesKept
<1>1. ASSUME NEW i \in 1..Len(net), Deliver(i) PROVE TypesKept
  <2>1. net' \in Seq(Frames)
    BY <1>1, DeliverIs, Removed DEF LogOK
  <2>2. page' \in Pages
    <3>1. CASE Carries(net[1])
      <4>1. net[1].body \in Batches
        BY <3>1 DEF Carries
      <4> QED BY <1>1, <3>1, <4>1, DeliverIs, ApplyIs DEF LogOK
    <3>2. CASE ~Carries(net[1])
      BY <1>1, <3>2, DeliverIs
    <3> QED BY <3>1, <3>2
  <2>3. UNCHANGED <<daemon, world, handler, asked, left>>
    BY <1>1, DeliverIs
  <2> QED BY <2>1, <2>2, <2>3 DEF daemon, ViewOK, LogOK, TypesKept
<1>2. CASE Connect
  <2>1. page' \in Pages
    BY <1>2 DEF Connect, LogOK, Pages
  <2>2. handler' \in Handlers
    BY <1>2, Nothing DEF Connect, Handlers
  <2> QED BY <1>2, <2>1, <2>2 DEF Connect, daemon, ViewOK, LogOK, TypesKept
<1>3. CASE Break
  <2>1. page' \in Pages
    BY <1>3 DEF Break, LogOK, Pages
  <2>2. net' \in Seq(Frames)
    BY <1>3, BreakIs
  <2>3. left' \in Lefts /\ left'.open = left.open
    BY <1>3, Spent DEF Break, LogOK
  <2> QED BY <1>3, <2>1, <2>2, <2>3 DEF Break, daemon, ViewOK, LogOK, TypesKept
<1>4. CASE Restart
  <2>1. page' \in Pages
    BY <1>4 DEF Restart, LogOK, Pages
  <2>2. left' \in Lefts /\ left'.open = left.open
    BY <1>4, Spent DEF Restart, LogOK
  <2>3. net' \in Seq(Frames)
    BY <1>4 DEF Restart
  <2>4. view' \in View /\ builds' \subseteq [by : Nat, read : View]
    BY <1>4 DEF Restart, View
  <2> QED BY <1>4, <2>1, <2>2, <2>3, <2>4 DEF Restart, ViewOK, LogOK, TypesKept
<1>5. ASSUME NEW via \in {"events", "bridge"}, Ask(via)
      PROVE  asked' \subseteq [via : {"events", "bridge"}, since : Nat]
  <2>1. page.since \in Nat
    BY DEF LogOK, Pages
  <2> QED BY <1>5, <2>1 DEF Ask, LogOK
<1>6. CASE Reload
  <2>1. left' \in Lefts /\ left'.open = left.open
    BY <1>6, Spent DEF Reload, LogOK
  <2> QED BY <1>5, <1>6, <2>1 DEF Reload, Ask, daemon, ViewOK, LogOK, TypesKept
<1>7. ASSUME NEW via \in {"events", "bridge"}, Poll(via) PROVE TypesKept
  BY <1>5, <1>7 DEF Poll, Ask, daemon, ViewOK, LogOK, TypesKept
<1> QED BY <1>1, <1>2, <1>3, <1>4, <1>6, <1>7 DEF Arrive

LEMMA Typed ==
  ASSUME ViewOK, LogOK, ~Overtaking, [Next]_vars
  PROVE  TypesKept
<1>1. CASE UNCHANGED vars
  BY <1>1 DEF vars, daemon, ViewOK, LogOK, TypesKept
<1>2. CASE Next
  BY <1>2, BoxTypes, ServeTypes, AnswerTypes, PageTypes DEF Next
<1> QED BY <1>1, <1>2

----------------------------------------------------------------------------
(* The invariant is kept: what changes neither the page nor what is on its *)
(* way.                                                                    *)

Settled == UNCHANGED <<run, net, asked>> /\ page'.since = page.since /\ page'.shown = page.shown
             /\ page'.mode = page.mode

LEMMA SameBase ==
  ASSUME run' = run, page'.since = page.since, page'.shown = page.shown
  PROVE  Misled' = Misled /\ Stale' = Stale /\ Base' = Base /\ Cursor' = Cursor
BY DEF Misled, Stale, Log!Misled, Base, Cursor

LEMMA NumbersOK ==
  ASSUME LogOK
  PROVE  /\ page.since \in Nat /\ seq \in Nat /\ run \in Nat /\ Base \in Nat /\ Len(net) \in Nat
         /\ \A i \in 1..Len(net) : net[i] \in Frames
         /\ \A i \in 1..Len(net) : Carries(net[i]) =>
              /\ net[i].body.latest \in Nat /\ net[i].body.events \in Spans
              /\ \A n \in net[i].body.events : n \in Nat
BY DEF LogOK, Pages, Base, Carries, Batches, Spans

LEMMA KeptBySettled ==
  ASSUME LogOK, Sent, PageInv, Settled, seq' = seq, handler' = handler
  PROVE  Sent' /\ PageInv'
<1>1. Misled' = Misled /\ Stale' = Stale /\ Base' = Base /\ Cursor' = Cursor
  BY SameBase DEF Settled
<1>2. Caught' = Caught
  BY DEF Caught, Settled
<1> QED BY <1>1, <1>2 DEF Settled, Sent, PageInv, InOrder, PollsFirst, PollsCurrent, OffStream, CaughtUp,
             Reading, At, Continues, FramesFollow, StreamFollows

LEMMA KeptByRaise ==
  ASSUME LogOK, Sent, PageInv, Settled, seq' = seq + 1, handler' = handler
  PROVE  Sent' /\ PageInv'
<1>1. Misled' = Misled /\ Stale' = Stale /\ Base' = Base /\ Cursor' = Cursor
  BY SameBase DEF Settled
<1>2. Caught => Caught'
  BY NumbersOK DEF Caught, Settled
<1>3. Sent'
  BY NumbersOK DEF Sent, Settled
<1>4. Reading'
  <2>1. ASSUME handler # None, handler.at = "latest", NEW n \in handler.events PROVE n <= seq + 1
    <3>1. n \in Nat
      BY <2>1, HandlerForm DEF Handlers, Spans
    <3>2. n <= seq
      BY <2>1 DEF PageInv, Reading, At
    <3> QED BY <3>1, <3>2, NumbersOK
  <2> QED BY <2>1 DEF PageInv, Reading, At
<1> QED BY <1>1, <1>2, <1>3, <1>4 DEF Settled, PageInv, InOrder, PollsFirst, PollsCurrent, OffStream,
             CaughtUp, Continues, FramesFollow, StreamFollows

\* The stream's goroutine goes on to read or to wait.
LEMMA KeptByHandler ==
  ASSUME LogOK, Sent, PageInv, Settled, seq' = seq, handler # None, handler' # None,
         handler'.lastSeq = handler.lastSeq, Reading',
         \A q \in asked : q.via # "events"
  PROVE  Sent' /\ PageInv'
<1>1. Misled' = Misled /\ Stale' = Stale /\ Base' = Base /\ Cursor' = Cursor
  BY SameBase DEF Settled
<1>2. Caught' = Caught
  BY DEF Caught, Settled
<1>3. PollsCurrent' /\ OffStream'
  BY DEF Settled, PageInv, PollsCurrent, OffStream
<1>4. StreamFollows' = StreamFollows
  BY <1>1 DEF Settled, StreamFollows
<1> QED BY <1>1, <1>2, <1>3, <1>4 DEF Settled, Sent, PageInv, InOrder, PollsFirst, CaughtUp, Continues,
             FramesFollow

----------------------------------------------------------------------------
(* The invariant is kept: frames and answers that are sent.                *)

\* What was reached still is when frames are added behind, or the page has come further.
LEMMA ReachedOn ==
  ASSUME NEW b \in Nat, NEW c \in Nat, b <= c, NEW old, NEW new, NEW i \in Nat, NEW k \in Nat, i <= k,
         \A j \in 1..i - 1 : new[j] = old[j], NEW r \in Nat, Reached(b, old, i, r)
  PROVE  Reached(c, new, k, r)
<1>1. CASE r <= b
  BY <1>1 DEF Reached
<1>2. ASSUME NEW j \in 1..i - 1, Carries(old[j]), NEW n \in old[j].body.events, r <= n
      PROVE  Reached(c, new, k, r)
  <2>1. j \in 1..k - 1
    OBVIOUS
  <2> QED BY <1>2, <2>1 DEF Reached
<1> QED BY <1>1, <1>2 DEF Reached

Posted(f) ==
  /\ f \in Frames /\ net' = Append(net, f)
  /\ UNCHANGED <<run, seq>> /\ page'.since = page.since /\ page'.shown = page.shown
  /\ page'.mode = page.mode

LEMMA PostedFrames ==
  ASSUME LogOK, NEW f, Posted(f)
  PROVE  /\ Len(net) \in Nat /\ Len(net') = Len(net) + 1
         /\ net'[Len(net) + 1] = f
         /\ \A i \in 1..Len(net) : net'[i] = net[i]
         /\ \A i \in 1..Len(net') : i \in 1..Len(net) \/ i = Len(net) + 1
<1>1. PICK n \in Nat : n = Len(net)
  BY DEF LogOK
<1>2. Len(net') = n + 1 /\ net'[n + 1] = f /\ \A i \in 1..n : net'[i] = net[i]
  BY <1>1, Appended DEF Posted, LogOK
<1>3. \A i \in 1..n + 1 : i \in 1..n \/ i = n + 1
  OBVIOUS
<1> QED BY <1>1, <1>2, <1>3

LEMMA PostedReached ==
  ASSUME LogOK, NEW f, Posted(f), NEW r \in Nat
  PROVE  /\ \A i \in 1..Len(net) : Reached(Base, net, i, r) => Reached(Base', net', i, r)
         /\ Reached(Base, net, Len(net) + 1, r) => Reached(Base', net', Len(net) + 1, r)
         /\ Reached(Base, net, Len(net) + 1, r) => Reached(Base', net', Len(net') + 1, r)
<1>1. Base' = Base /\ Base \in Nat
  BY SameBase, NumbersOK DEF Posted
<1>2. PICK n \in Nat : n = Len(net)
  BY DEF LogOK
<1>3. Len(net') = n + 1 /\ \A i \in 1..n : net'[i] = net[i]
  BY <1>2, PostedFrames
<1>4. ASSUME NEW i \in 1..n, Reached(Base, net, i, r) PROVE Reached(Base', net', i, r)
  <2>1. i \in Nat /\ i <= i /\ \A j \in 1..i - 1 : net'[j] = net[j]
    BY <1>3
  <2> QED BY <1>1, <1>4, <2>1, ReachedOn
<1>5. ASSUME Reached(Base, net, n + 1, r)
      PROVE  Reached(Base', net', n + 1, r) /\ Reached(Base', net', n + 1 + 1, r)
  <2>1. n + 1 \in Nat /\ n + 1 + 1 \in Nat /\ n + 1 <= n + 1 + 1 /\ n + 1 <= n + 1
        /\ \A j \in 1..n + 1 - 1 : net'[j] = net[j]
    BY <1>3
  <2> QED BY <1>1, <1>5, <2>1, ReachedOn
<1> QED BY <1>2, <1>3, <1>4, <1>5

\* The cursor, the order and what was on its way.
LEMMA KeptByPost ==
  ASSUME LogOK, Sent, PageInv, NEW f, Posted(f),
         Carries(f) => /\ f.body.run = run /\ f.body.latest = seq
                       /\ \A n \in f.body.events : n <= seq,
         f.via = "events" => \A i \in 1..Len(net) : ~Carries(net[i])
  PROVE  /\ Sent' /\ Cursor' /\ InOrder' /\ PollsFirst'
         /\ Misled' = Misled /\ Stale' = Stale /\ Base' = Base
         /\ Caught => Caught'
<1>1. Misled' = Misled /\ Stale' = Stale /\ Base' = Base /\ Cursor' = Cursor
  BY SameBase DEF Posted
<1>2. Sent'
  <2>1. ASSUME NEW i \in 1..Len(net'), Carries(net'[i])
        PROVE  /\ net'[i].body.run = run' /\ net'[i].body.latest <= seq'
               /\ \A n \in net'[i].body.events : n <= net'[i].body.latest
    <3>1. CASE i \in 1..Len(net)
      BY <2>1, <3>1, PostedFrames DEF Sent, Posted
    <3>2. CASE i = Len(net) + 1
      BY <2>1, <3>2, PostedFrames, NumbersOK DEF Posted
    <3> QED BY <3>1, <3>2, PostedFrames
  <2> QED BY <2>1 DEF Sent
<1>3. InOrder'
  <2>1. ASSUME NEW i \in 1..Len(net'), NEW j \in 1..Len(net'), i < j, Carries(net'[i]), Carries(net'[j])
        PROVE  net'[i].body.latest <= net'[j].body.latest
    <3>1. i \in 1..Len(net) /\ net'[i] = net[i]
      <4>1. PICK n \in Nat : n = Len(net) /\ Len(net') = n + 1
        BY PostedFrames
      <4>2. i \in 1..n
        BY <2>1, <4>1
      <4> QED BY <4>1, <4>2, PostedFrames
    <3>2. CASE j \in 1..Len(net)
      BY <2>1, <3>1, <3>2, PostedFrames DEF PageInv, InOrder
    <3>3. CASE j = Len(net) + 1
      <4>1. net'[j] = f
        BY <3>3, PostedFrames
      <4>2. net[i].body.latest <= seq /\ f.body.latest = seq
        BY <2>1, <3>1, <4>1 DEF Sent
      <4> QED BY <3>1, <4>1, <4>2
    <3> QED BY <3>2, <3>3, PostedFrames
  <2> QED BY <2>1 DEF InOrder
<1>4. PollsFirst'
  <2>1. ASSUME NEW i \in 1..Len(net'), net'[i].via = "events", NEW j \in 1..i - 1
        PROVE  ~Carries(net'[j])
    <3>1. j \in 1..Len(net) /\ net'[j] = net[j]
      <4>1. PICK n \in Nat : n = Len(net) /\ Len(net') = n + 1
        BY PostedFrames
      <4>2. j \in 1..n
        BY <2>1, <4>1
      <4> QED BY <4>1, <4>2, PostedFrames
    <3>2. CASE i \in 1..Len(net)
      BY <2>1, <3>1, <3>2, PostedFrames DEF PageInv, PollsFirst
    <3>3. CASE i = Len(net) + 1
      BY <2>1, <3>1, <3>3, PostedFrames
    <3> QED BY <3>2, <3>3, PostedFrames
  <2> QED BY <2>1 DEF PollsFirst
<1>5. ASSUME Caught PROVE Caught'
  <2>1. page'.since = page.since /\ page'.since <= seq'
    BY <1>5 DEF Caught, Posted
  <2>2. ASSUME NEW i \in 1..Len(net'), Carries(net'[i]) PROVE page'.since <= net'[i].body.latest
    <3>1. CASE i \in 1..Len(net)
      BY <1>5, <2>1, <2>2, <3>1, PostedFrames DEF Caught
    <3>2. CASE i = Len(net) + 1
      BY <1>5, <2>1, <2>2, <3>2, PostedFrames DEF Caught, Posted
    <3> QED BY <3>1, <3>2, PostedFrames
  <2> QED BY <2>1, <2>2 DEF Caught
<1> QED BY <1>1, <1>2, <1>3, <1>4, <1>5 DEF PageInv

\* Where frames follow one another they still do.
LEMMA FramesStillFollow ==
  ASSUME LogOK, NEW f, Posted(f), FramesFollow, NEW i \in 1..Len(net), Carries(net'[i])
  PROVE  \E r \in Nat : Reached(Base', net', i, r) /\ Follows(net'[i].body.events, r)
<1>1. Carries(net[i]) /\ net'[i] = net[i]
  BY PostedFrames
<1>2. PICK r \in Nat : Reached(Base, net, i, r) /\ Follows(net[i].body.events, r)
  BY <1>1 DEF FramesFollow
<1>3. Reached(Base', net', i, r)
  BY <1>2, PostedReached
<1> QED BY <1>1, <1>2, <1>3

LEMMA KeptByIdlePost ==
  ASSUME LogOK, Sent, PageInv, NEW f, Posted(f), ~Carries(f), f.via # "events",
         asked' \subseteq asked,
         handler' # None => /\ handler # None /\ handler'.lastSeq = handler.lastSeq
                            /\ handler.lastSeq \in Nat,
         handler' = handler \/ \A q \in asked : q.via # "events",
         Reading', OffStream'
  PROVE  Sent' /\ PageInv'
<1>1. Sent' /\ Cursor' /\ InOrder' /\ PollsFirst' /\ Misled' = Misled /\ Stale' = Stale /\ (Caught => Caught')
  BY KeptByPost
<1>2. PollsCurrent'
  <2>1. ASSUME NEW q \in asked, q.via = "events"
        PROVE  /\ q.since = page'.since
               /\ \A i \in 1..Len(net') : ~Carries(net'[i])
               /\ handler' = None \/ handler'.at = "version"
    <3>1. /\ q.since = page.since /\ \A i \in 1..Len(net) : ~Carries(net[i])
          /\ handler = None \/ handler.at = "version"
      BY <2>1 DEF PageInv, PollsCurrent
    <3>2. handler' = handler
      BY <2>1
    <3>3. ASSUME NEW i \in 1..Len(net') PROVE ~Carries(net'[i])
      <4>1. CASE i \in 1..Len(net)
        BY <3>1, <4>1, PostedFrames
      <4>2. CASE i = Len(net) + 1
        BY <4>2, PostedFrames
      <4> QED BY <4>1, <4>2, PostedFrames
    <3> QED BY <3>1, <3>2, <3>3 DEF Posted
  <2> QED BY <2>1 DEF PollsCurrent
<1>3. CaughtUp'
  BY <1>1 DEF PageInv, CaughtUp
<1>4. ASSUME ~Misled' \/ ~Caught' PROVE FramesFollow' /\ StreamFollows'
  <2>1. FramesFollow /\ StreamFollows
    BY <1>1, <1>4 DEF PageInv, Continues
  <2>2. FramesFollow'
    <3>1. ASSUME NEW i \in 1..Len(net'), Carries(net'[i])
          PROVE  \E r \in Nat : Reached(Base', net', i, r) /\ Follows(net'[i].body.events, r)
      <4>1. i \in 1..Len(net)
        BY <3>1, PostedFrames
      <4> QED BY <2>1, <3>1, <4>1, FramesStillFollow
    <3> QED BY <3>1 DEF FramesFollow
  <2>3. StreamFollows'
    <3>1. ASSUME handler' # None PROVE Reached(Base', net', Len(net') + 1, handler'.lastSeq)
      <4>1. handler.lastSeq \in Nat /\ handler'.lastSeq = handler.lastSeq
        BY <3>1
      <4>2. Reached(Base, net, Len(net) + 1, handler.lastSeq)
        BY <2>1, <3>1 DEF StreamFollows
      <4> QED BY <4>1, <4>2, PostedReached
    <3> QED BY <3>1 DEF StreamFollows
  <2> QED BY <2>2, <2>3
<1> QED BY <1>1, <1>2, <1>3, <1>4 DEF PageInv, Continues

\* Only a goroutine at its first step shares the page with a poll.
LEMMA NoPoll ==
  ASSUME PageInv, handler # None, handler.at # "version"
  PROVE  (\A q \in asked : q.via # "events") /\ page.mode = "sse"
BY DEF PageInv, PollsCurrent, OffStream

LEMMA KeptBySendBridge ==
  ASSUME ViewOK, LogOK, Sent, PageInv, SendBridge
  PROVE  Sent' /\ PageInv'
<1> DEFINE f == [via |-> "stream", body |-> BridgeView]
<1>1. handler # None /\ handler.at = "bridge" /\ handler \in Handlers
  BY HandlerForm DEF SendBridge, At
<1>2. f \in Frames /\ ~Carries(f) /\ f.via = "stream"
  BY BridgeStateOK, BridgeFrame DEF SendBridge
<1>3. Posted(f)
  BY <1>2 DEF SendBridge, Send, Post, Posted
<1>4. handler' # None => handler'.lastSeq = handler.lastSeq /\ handler'.at # "latest"
                         /\ handler.lastSeq \in Nat
  BY <1>1, HandlerForm DEF SendBridge, Go, Handlers
<1>5. (\A q \in asked : q.via # "events") /\ page.mode = "sse"
  BY <1>1, NoPoll
<1>6. Reading' /\ OffStream'
  BY <1>4, <1>5 DEF SendBridge, Reading, At, OffStream
<1>7. asked' = asked
  BY DEF SendBridge
<1> HIDE DEF f
<1> QED BY <1>1, <1>2, <1>3, <1>4, <1>5, <1>6, <1>7, KeptByIdlePost

LEMMA KeptByAnswerBridge ==
  ASSUME ViewOK, LogOK, Sent, PageInv, NEW q \in asked, AnswerBridge(q)
  PROVE  Sent' /\ PageInv'
<1> DEFINE f == [via |-> "bridge", body |-> BridgeView]
<1>2. f \in Frames /\ ~Carries(f) /\ f.via = "bridge"
  BY BridgeStateOK, BridgeFrame DEF AnswerBridge
<1>3. Posted(f)
  BY <1>2 DEF AnswerBridge, Post, Posted
<1>4. handler' = handler /\ asked' \subseteq asked
  BY DEF AnswerBridge
<1>5. handler # None => handler.lastSeq \in Nat
  BY HandlerForm DEF Handlers
<1>6. Reading'
  BY DEF AnswerBridge, PageInv, Reading, At
<1>7. OffStream'
  <2>1. ASSUME page.mode # "sse", NEW i \in 1..Len(net') PROVE net'[i].via # "stream"
    <3>1. CASE i \in 1..Len(net)
      BY <2>1, <3>1, <1>3, PostedFrames DEF PageInv, OffStream
    <3>2. CASE i = Len(net) + 1
      BY <1>2, <1>3, <3>2, PostedFrames
    <3> QED BY <1>3, <3>1, <3>2, PostedFrames
  <2> QED BY <2>1 DEF AnswerBridge, PageInv, OffStream
<1> HIDE DEF f
<1> QED BY <1>2, <1>3, <1>4, <1>5, <1>6, <1>7, KeptByIdlePost

LEMMA KeptByReading ==
  ASSUME LogOK, ~Overtaking, Sent, PageInv, NoteVersion \/ CheckBridge \/ CheckEvents \/ ReadEvents
  PROVE  Sent' /\ PageInv'
<1>1. handler # None /\ handler \in Handlers
  BY HandlerForm DEF NoteVersion, CheckBridge, CheckEvents, ReadEvents, At
<1>2. Settled /\ seq' = seq
  BY DEF NoteVersion, CheckBridge, CheckEvents, ReadEvents, Settled, daemon
<1>3. handler' # None => handler'.lastSeq = handler.lastSeq
  BY <1>1 DEF NoteVersion, CheckBridge, CheckEvents, ReadEvents, Go, Handlers
<1>4. \A q \in asked : q.via # "events"
  <2>1. CASE NoteVersion
    BY <2>1 DEF NoteVersion
  <2>2. CASE ~NoteVersion
    BY <2>2, NoPoll DEF CheckBridge, CheckEvents, ReadEvents, At
  <2> QED BY <2>1, <2>2
<1>5. page.mode = "sse"
  BY <1>1 DEF PageInv, OffStream
<1>6. Reading'
  <2>1. CASE ReadEvents
    <3>1. handler.lastSeq \in Nat
      BY <1>1 DEF Handlers
    <3>2. handler' # None => handler'.events = Since(handler.lastSeq, Ring)
      BY <1>1, <2>1 DEF ReadEvents, Handlers
    <3>3. /\ Follows(Since(handler.lastSeq, Ring), handler.lastSeq)
          /\ \A n \in Since(handler.lastSeq, Ring) : n <= seq
      BY <3>1, SinceFollows, SizeAssumption
    <3> QED BY <1>2, <1>3, <3>2, <3>3 DEF Reading, At
  <2>2. CASE NoteVersion \/ CheckBridge \/ CheckEvents
    <3>1. handler' # None => handler'.at # "latest"
      BY <1>1, <2>2 DEF NoteVersion, CheckBridge, CheckEvents, Go, Handlers
    <3> QED BY <3>1 DEF Reading, At
  <2> QED BY <2>1, <2>2
<1>7. CASE handler' # None
  BY <1>1, <1>2, <1>3, <1>4, <1>6, <1>7, KeptByHandler
<1>8. CASE handler' = None
  <2>1. Misled' = Misled /\ Stale' = Stale /\ Base' = Base /\ Cursor' = Cursor
    BY <1>2, SameBase DEF Settled
  <2>2. Caught' = Caught
    BY <1>2 DEF Caught, Settled
  <2>3. PollsCurrent' /\ OffStream' /\ StreamFollows'
    BY <1>2, <1>4, <1>5, <1>8 DEF Settled, PollsCurrent, OffStream, StreamFollows
  <2> QED BY <1>2, <1>6, <2>1, <2>2, <2>3 DEF Settled, Sent, PageInv, InOrder, PollsFirst, CaughtUp,
               Continues, FramesFollow
<1> QED BY <1>7, <1>8

LEMMA KeptBySendEvents ==
  ASSUME LogOK, Sent, PageInv, SendEvents
  PROVE  Sent' /\ PageInv'
<1> DEFINE f == [via |-> "stream", body |-> Events(handler.events)]
           s == handler.events
<1>1. handler # None /\ handler.at = "latest" /\ handler \in Handlers
  BY HandlerForm DEF SendEvents, At
<1>2. s \in Spans /\ handler.lastSeq \in Nat
  BY <1>1 DEF Handlers
<1>3. /\ f \in Frames /\ Carries(f) /\ f.via = "stream"
      /\ f.body.run = run /\ f.body.latest = seq /\ f.body.events = s
  BY <1>2, EventsFrame, BatchOK
<1>4. (\A n \in s : n <= seq) /\ Follows(s, handler.lastSeq)
  BY <1>1 DEF PageInv, Reading, At
<1>5. Posted(f)
  BY <1>3 DEF SendEvents, Send, Post, Posted, daemon
<1>6. (\A q \in asked : q.via # "events") /\ page.mode = "sse" /\ asked' = asked /\ page' = page
  BY <1>1, NoPoll DEF SendEvents
<1>7. handler' # None => handler'.at = "loop" /\ handler'.lastSeq = Newest(s, handler.lastSeq)
  BY <1>1 DEF SendEvents, Handlers
<1> HIDE DEF f, s
<1>8. Sent' /\ Cursor' /\ InOrder' /\ PollsFirst' /\ Misled' = Misled /\ Stale' = Stale /\ (Caught => Caught')
  BY <1>3, <1>4, <1>5, KeptByPost
<1>9. PollsCurrent' /\ OffStream' /\ Reading' /\ CaughtUp'
  BY <1>6, <1>7, <1>8 DEF PollsCurrent, OffStream, Reading, At, CaughtUp, PageInv
<1>10. ASSUME ~Misled' \/ ~Caught' PROVE FramesFollow' /\ StreamFollows'
  <2>1. FramesFollow /\ Reached(Base, net, Len(net) + 1, handler.lastSeq)
    BY <1>1, <1>8, <1>10 DEF PageInv, Continues, StreamFollows
  <2>2. net'[Len(net) + 1] = f /\ Len(net) \in Nat /\ Len(net') = Len(net) + 1
    BY <1>5, PostedFrames
  <2>3. /\ Reached(Base', net', Len(net) + 1, handler.lastSeq)
        /\ Reached(Base', net', Len(net') + 1, handler.lastSeq)
    BY <1>2, <1>5, <2>1, PostedReached
  <2>4. FramesFollow'
    <3>1. ASSUME NEW i \in 1..Len(net'), Carries(net'[i])
          PROVE  \E r \in Nat : Reached(Base', net', i, r) /\ Follows(net'[i].body.events, r)
      <4>1. CASE i \in 1..Len(net)
        BY <1>5, <2>1, <3>1, <4>1, FramesStillFollow
      <4>2. CASE i = Len(net) + 1
        BY <1>2, <1>3, <1>4, <2>2, <2>3, <4>2
      <4> QED BY <1>5, <4>1, <4>2, PostedFrames
    <3> QED BY <3>1 DEF FramesFollow
  <2>5. Reached(Base', net', Len(net') + 1, Newest(s, handler.lastSeq))
    <3> DEFINE m == Newest(s, handler.lastSeq)
    <3>1. m \in Nat /\ (m = handler.lastSeq \/ m \in s)
      BY <1>2, NewestOf
    <3> SUFFICES Reached(Base', net', Len(net') + 1, m)
      OBVIOUS
    <3> HIDE DEF m
    <3>2. CASE m = handler.lastSeq
      BY <2>3, <3>2
    <3>3. CASE m \in s
      <4>1. PICK n \in Nat : n = Len(net)
        BY <2>2
      <4>2. n + 1 \in 1..n + 1 + 1 - 1 /\ m <= m
        BY <3>1
      <4>3. Carries(net'[n + 1]) /\ m \in net'[n + 1].body.events
        BY <1>3, <2>2, <3>3, <4>1
      <4>4. Reached(Base', net', n + 1 + 1, m)
        BY <4>2, <4>3 DEF Reached
      <4> QED BY <2>2, <4>1, <4>4
    <3> QED BY <3>1, <3>2, <3>3
  <2>6. StreamFollows'
    BY <1>7, <2>5 DEF StreamFollows
  <2> QED BY <2>4, <2>6
<1> QED BY <1>8, <1>9, <1>10 DEF PageInv, Continues

LEMMA KeptByAnswerEvents ==
  ASSUME LogOK, Sent, PageInv, NEW q \in asked, AnswerEvents(q)
  PROVE  Sent' /\ PageInv'
<1> DEFINE s == Since(q.since, Limit)
           f == [via |-> "events", body |-> Events(s)]
<1>1. /\ q.via = "events" /\ q.since = page.since /\ q.since \in Nat
      /\ \A i \in 1..Len(net) : ~Carries(net[i])
      /\ handler = None \/ handler.at = "version"
  BY NumbersOK DEF AnswerEvents, PageInv, PollsCurrent
<1>2. s \in Spans /\ Follows(s, page.since) /\ \A n \in s : page.since < n /\ n <= seq
  BY <1>1, SinceFollows, SizeAssumption
<1>3. /\ f \in Frames /\ Carries(f) /\ f.via = "events"
      /\ f.body.run = run /\ f.body.latest = seq /\ f.body.events = s
  BY <1>2, EventsFrame, BatchOK
<1>4. Posted(f)
  BY <1>1, <1>3 DEF AnswerEvents, Post, Posted, daemon
<1>5. handler' = handler /\ page' = page /\ asked' = asked \ {q}
  BY DEF AnswerEvents
<1> HIDE DEF f, s
<1>6. /\ Sent' /\ Cursor' /\ InOrder' /\ PollsFirst' /\ Misled' = Misled /\ Stale' = Stale /\ Base' = Base
      /\ Caught => Caught'
  BY <1>1, <1>2, <1>3, <1>4, KeptByPost
<1>7. PollsCurrent'
  <2>1. ASSUME NEW p \in asked, p.via = "events" PROVE p = q
    <3>1. p \in [via : {"events", "bridge"}, since : Nat] /\ q \in [via : {"events", "bridge"}, since : Nat]
      BY DEF LogOK
    <3>2. p.since = page.since
      BY <2>1 DEF PageInv, PollsCurrent
    <3> QED BY <1>1, <2>1, <3>1, <3>2
  <2> QED BY <1>5, <2>1 DEF PollsCurrent
<1>8. net'[Len(net) + 1] = f /\ Len(net) \in Nat /\ Len(net') = Len(net) + 1
  BY <1>4, PostedFrames
<1>9. OffStream'
  <2>1. ASSUME page.mode # "sse", NEW i \in 1..Len(net') PROVE net'[i].via # "stream"
    <3>1. CASE i \in 1..Len(net)
      BY <2>1, <3>1, <1>4, PostedFrames DEF PageInv, OffStream
    <3>2. CASE i = Len(net) + 1
      BY <1>3, <1>8, <3>2
    <3> QED BY <1>4, <3>1, <3>2, PostedFrames
  <2> QED BY <1>5, <2>1 DEF PageInv, OffStream
<1>10. Reading' /\ CaughtUp'
  BY <1>4, <1>5, <1>6 DEF PageInv, Reading, At, CaughtUp, Posted
<1>11. ASSUME ~Misled' \/ ~Caught' PROVE FramesFollow' /\ StreamFollows'
  <2>1. FramesFollow /\ StreamFollows
    BY <1>6, <1>11 DEF PageInv, Continues
  <2>2. \E r \in Nat : Reached(Base', net', Len(net) + 1, r) /\ Follows(s, r)
    <3>1. CASE ~Misled
      <4>1. page.since \in Nat /\ page.since <= Base'
        BY <1>6, <3>1, NumbersOK DEF Base
      <4> QED BY <1>2, <4>1 DEF Reached
    <3>2. CASE Misled
      <4>1. ~Caught'
        BY <1>6, <1>11, <3>2
      <4>2. ~(page.since <= seq)
        <5>1. ASSUME page.since <= seq, NEW i \in 1..Len(net'), Carries(net'[i])
              PROVE  page'.since <= net'[i].body.latest
          <6>1. i = Len(net) + 1
            BY <1>1, <1>4, <5>1, PostedFrames
          <6> QED BY <1>3, <1>5, <1>8, <5>1, <6>1
        <5> QED BY <1>4, <1>5, <4>1, <5>1 DEF Caught, Posted
      <4>3. ASSUME NEW n \in s PROVE FALSE
        <5>1. n \in Nat
          BY <1>2 DEF Spans
        <5> QED BY <1>2, <4>2, <5>1, NumbersOK
      <4>4. s = {}
        BY <4>3
      <4>5. 0 <= Base'
        BY <1>6, NumbersOK
      <4> QED BY <4>4, <4>5, Nothing DEF Reached
    <3> QED BY <3>1, <3>2
  <2>3. FramesFollow'
    <3>1. ASSUME NEW i \in 1..Len(net'), Carries(net'[i])
          PROVE  \E r \in Nat : Reached(Base', net', i, r) /\ Follows(net'[i].body.events, r)
      <4>1. CASE i \in 1..Len(net)
        BY <1>4, <2>1, <3>1, <4>1, FramesStillFollow
      <4>2. CASE i = Len(net) + 1
        BY <1>3, <1>8, <2>2, <4>2
      <4> QED BY <1>4, <4>1, <4>2, PostedFrames
    <3> QED BY <3>1 DEF FramesFollow
  <2>4. StreamFollows'
    <3>1. ASSUME handler # None PROVE Reached(Base', net', Len(net') + 1, handler.lastSeq)
      <4>1. handler.lastSeq \in Nat
        BY <3>1, HandlerForm DEF Handlers
      <4>2. Reached(Base, net, Len(net) + 1, handler.lastSeq)
        BY <2>1, <3>1 DEF StreamFollows
      <4> QED BY <1>4, <4>1, <4>2, PostedReached
    <3> QED BY <1>5, <3>1 DEF StreamFollows
  <2> QED BY <2>3, <2>4
<1> QED BY <1>6, <1>7, <1>9, <1>10, <1>11 DEF PageInv, Continues

----------------------------------------------------------------------------
(* The invariant is kept: the page connects, loses its connection, or      *)
(* asks, and the daemon starts again.                                      *)

LEMMA KeptByConnect ==
  ASSUME LogOK, Sent, PageInv, Connect
  PROVE  Sent' /\ PageInv'
<1>1. UNCHANGED <<run, seq, net, asked>> /\ page'.since = page.since /\ page'.shown = page.shown
      /\ page'.mode = "sse"
  BY PageForm DEF Connect, daemon
<1>2. handler'.lastSeq = 0 /\ handler'.at = "version"
  BY DEF Connect
<1>3. Misled' = Misled /\ Stale' = Stale /\ Base' = Base /\ Cursor' = Cursor
  BY <1>1, SameBase
<1>4. Caught' = Caught
  BY <1>1 DEF Caught
<1>5. StreamFollows'
  <2>1. 0 <= Base'
    BY <1>3, NumbersOK
  <2> QED BY <1>2, <2>1 DEF StreamFollows, Reached
<1>6. PollsCurrent' /\ OffStream' /\ Reading'
  BY <1>1, <1>2 DEF PageInv, PollsCurrent, OffStream, Reading, At
<1> QED BY <1>1, <1>3, <1>4, <1>5, <1>6 DEF Sent, PageInv, InOrder, PollsFirst, CaughtUp, Continues,
             FramesFollow

LEMMA KeptByAsk ==
  ASSUME LogOK, Sent, PageInv, NEW via \in {"events", "bridge"}, Ask(via),
         via = "events" => page.mode # "sse"
  PROVE  Sent' /\ PageInv'
<1>1. UNCHANGED <<run, seq, net, page, handler>>
  BY DEF Ask, daemon
<1>2. Misled' = Misled /\ Stale' = Stale /\ Base' = Base /\ Cursor' = Cursor
  BY <1>1, SameBase
<1>3. Caught' = Caught
  BY <1>1 DEF Caught
<1>4. PollsCurrent'
  <2>1. ASSUME via = "events"
        PROVE  handler = None /\ \A i \in 1..Len(net) : ~Carries(net[i])
    <3>1. handler = None /\ \A i \in 1..Len(net) : net[i].via \notin {"stream", "events"}
      BY <2>1 DEF Ask, PageInv, OffStream
    <3>2. ASSUME NEW i \in 1..Len(net), Carries(net[i]) PROVE FALSE
      BY <3>1, <3>2, NumbersOK, FrameForms
    <3> QED BY <3>1, <3>2
  <2> QED BY <1>1, <2>1 DEF Ask, PageInv, PollsCurrent
<1>5. OffStream' /\ Reading' /\ StreamFollows' = StreamFollows
  BY <1>1, <1>2 DEF PageInv, OffStream, Reading, At, StreamFollows
<1> QED BY <1>1, <1>2, <1>3, <1>4, <1>5 DEF Sent, PageInv, InOrder, PollsFirst, CaughtUp, Continues,
             FramesFollow

LEMMA KeptByBreak ==
  ASSUME LogOK, Sent, PageInv, Break
  PROVE  Sent' /\ PageInv'
<1>1. UNCHANGED <<run, seq, asked>> /\ page'.since = page.since /\ page'.shown = page.shown
      /\ handler' = None
  BY PageForm DEF Break, daemon
<1>2. net' \in Seq(Frames)
  BY BreakIs
<1>3. PICK kept : Survives(kept)
  BY BreakIs
<1>4. Misled' = Misled /\ Stale' = Stale /\ Base' = Base /\ Cursor' = Cursor
  BY <1>1, SameBase
<1>5. \A i \in 1..Len(net') : /\ kept[i] \in 1..Len(net) /\ net'[i] = net[kept[i]]
                              /\ net'[i].via # "stream"
  BY <1>3 DEF Survives
<1>6. Sent'
  BY <1>1, <1>5 DEF Sent
<1>7. Caught => Caught'
  BY <1>1, <1>5 DEF Caught
<1>8. InOrder'
  BY <1>3, <1>5 DEF Survives, PageInv, InOrder
<1>9. ASSUME NEW i \in 1..Len(net'), net'[i].via = "events", NEW j \in 1..i - 1
      PROVE  ~Carries(net'[j])
  <2>1. j \in 1..Len(net') /\ j < i
    <3>1. PICK n \in Nat : n = Len(net')
      BY <1>2
    <3>2. i \in 1..n
      BY <3>1
    <3>3. j \in 1..n /\ j < i
      BY <3>2
    <3> QED BY <3>1, <3>3
  <2>2. kept[j] < kept[i] /\ kept[i] \in 1..Len(net) /\ kept[j] \in 1..Len(net)
    BY <1>3, <1>5, <2>1 DEF Survives
  <2>3. kept[j] \in 1..kept[i] - 1
    BY <2>2
  <2> QED BY <1>5, <1>9, <2>1, <2>3 DEF PageInv, PollsFirst
<1>10. PollsFirst'
  BY <1>9 DEF PollsFirst
<1>11. PollsCurrent' /\ OffStream' /\ Reading' /\ StreamFollows' /\ CaughtUp'
  BY <1>1, <1>4, <1>5, <1>7 DEF PageInv, PollsCurrent, OffStream, Reading, At, StreamFollows, CaughtUp
<1>12. ASSUME ~Misled' \/ ~Caught', NEW i \in 1..Len(net'), Carries(net'[i])
       PROVE  \E r \in Nat : Reached(Base', net', i, r) /\ Follows(net'[i].body.events, r)
  <2>1. kept[i] \in 1..Len(net) /\ net'[i] = net[kept[i]] /\ net[kept[i]].via # "stream"
    BY <1>5
  <2>2. net[kept[i]].via = "events"
    BY <1>12, <2>1, NumbersOK, FrameForms
  <2>3. PICK r \in Nat : Reached(Base, net, kept[i], r) /\ Follows(net[kept[i]].body.events, r)
    BY <1>4, <1>7, <1>12, <2>1 DEF PageInv, Continues, FramesFollow
  <2>4. r <= Base
    BY <2>1, <2>2, <2>3 DEF Reached, PageInv, PollsFirst
  <2> QED BY <1>4, <2>1, <2>3, <2>4 DEF Reached
<1> QED BY <1>4, <1>6, <1>8, <1>10, <1>11, <1>12 DEF PageInv, Continues, FramesFollow

LEMMA KeptByRestart ==
  ASSUME LogOK, Sent, PageInv, Restart
  PROVE  Sent' /\ PageInv'
<1>1. /\ run' = run + 1 /\ seq' = 0 /\ handler' = None /\ net' = <<>> /\ asked' = {}
      /\ page'.since = page.since /\ page'.shown = page.shown
  BY PageForm DEF Restart
<1>2. Len(net') = 0 /\ 1..0 = {}
  BY <1>1
<1>3. \A e \in page.shown : e[1] \in Nat /\ e[1] <= run /\ e[1] <= run + 1 /\ e[1] # run + 1
  <2>1. ASSUME NEW e \in page.shown PROVE e[1] \in Nat /\ e[1] <= run
    BY DEF LogOK, Pages, PageInv, Cursor
  <2> QED BY <2>1, NumbersOK
<1>4. Cursor'
  BY <1>1, <1>3 DEF PageInv, Cursor
<1>5. CaughtUp'
  <2>1. CASE page.shown = {}
    BY <1>1, <1>2, <2>1 DEF PageInv, Cursor, CaughtUp, Caught
  <2>2. CASE page.shown # {}
    BY <1>1, <1>3, <2>2 DEF CaughtUp, Stale
  <2> QED BY <2>1, <2>2
<1>6. Sent' /\ InOrder' /\ PollsFirst' /\ FramesFollow'
  BY <1>2 DEF Sent, InOrder, PollsFirst, FramesFollow
<1>7. PollsCurrent' /\ OffStream' /\ Reading' /\ StreamFollows'
  BY <1>1, <1>2 DEF PollsCurrent, OffStream, Reading, At, StreamFollows
<1> QED BY <1>4, <1>5, <1>6, <1>7 DEF PageInv, Continues

----------------------------------------------------------------------------
(* The invariant is kept: the page is given what comes next.               *)

Delivered ==
  /\ 1 <= Len(net) /\ net' = RemoveAt(net, 1)
  /\ UNCHANGED <<run, seq, handler, asked>> /\ page'.mode = page.mode

LEMMA DeliveredFrames ==
  ASSUME LogOK, Delivered
  PROVE  /\ Len(net) \in Nat /\ Len(net') = Len(net) - 1 /\ 1 \in 1..Len(net)
         /\ \A i \in 1..Len(net') : i \in Nat /\ i + 1 \in 1..Len(net) /\ net'[i] = net[i + 1]
                                   /\ \A j \in 1..i - 1 : j + 1 \in 1..i + 1 - 1
<1>1. PICK n \in Nat : n = Len(net)
  BY DEF LogOK
<1>2. 1 <= n
  BY <1>1 DEF Delivered
<1>3. Len(net') = n - 1 /\ \A i \in 1..n - 1 : net'[i] = net[i + 1]
  BY <1>1, Removed DEF Delivered, LogOK
<1>4. \A i \in 1..n - 1 : i \in Nat /\ i + 1 \in 1..n /\ \A j \in 1..i - 1 : j + 1 \in 1..i + 1 - 1
  BY <1>2
<1> QED BY <1>1, <1>2, <1>3, <1>4

\* What was reached by way of the first frame is where the page is now.
LEMMA ReachedShorter ==
  ASSUME LogOK, Delivered, NEW b \in Nat, NEW c \in Nat, b <= c,
         Carries(net[1]) => \A n \in net[1].body.events : n <= c,
         NEW i \in 1..Len(net), NEW r \in Nat, Reached(b, net, i + 1, r)
  PROVE  Reached(c, net', i, r)
<1>1. CASE r <= b
  BY <1>1 DEF Reached
<1>2. ASSUME NEW j \in 1..i + 1 - 1, Carries(net[j]), NEW n \in net[j].body.events, r <= n
      PROVE  Reached(c, net', i, r)
  <2>1. PICK len \in Nat : len = Len(net)
    BY DEF LogOK
  <2>2. i \in 1..len /\ j \in 1..len
    BY <2>1
  <2>3. n \in Nat
    BY <1>2, <2>1, <2>2, NumbersOK
  <2>4. CASE j = 1
    BY <1>2, <2>3, <2>4 DEF Reached
  <2>5. CASE j # 1
    <3>1. j - 1 \in 1..i - 1 /\ j - 1 \in 1..len - 1 /\ j - 1 + 1 = j
      BY <2>2, <2>5
    <3>2. net'[j - 1] = net[j]
      BY <2>1, <3>1, DeliveredFrames
    <3> QED BY <1>2, <3>1, <3>2 DEF Reached
  <2> QED BY <2>4, <2>5
<1>3. r <= b \/ \E j \in 1..i + 1 - 1 :
                    Carries(net[j]) /\ \E n \in net[j].body.events : r <= n
  BY DEF Reached
<1> QED BY <1>1, <1>2, <1>3

\* The frames that are left.
LEMMA KeptByDelivery ==
  ASSUME LogOK, Sent, PageInv, Delivered
  PROVE  Sent' /\ InOrder' /\ PollsFirst' /\ OffStream' /\ Reading'
<1>1. Sent'
  BY DeliveredFrames DEF Sent, Delivered
<1>2. InOrder'
  <2>1. ASSUME NEW i \in 1..Len(net'), NEW j \in 1..Len(net'), i < j, Carries(net'[i]), Carries(net'[j])
        PROVE  net'[i].body.latest <= net'[j].body.latest
    <3>1. /\ i + 1 \in 1..Len(net) /\ j + 1 \in 1..Len(net) /\ i \in Nat /\ j \in Nat
          /\ net'[i] = net[i + 1] /\ net'[j] = net[j + 1]
      BY DeliveredFrames
    <3>2. i + 1 < j + 1
      BY <2>1, <3>1
    <3> QED BY <2>1, <3>1, <3>2 DEF PageInv, InOrder
  <2> QED BY <2>1 DEF InOrder
<1>3. PollsFirst'
  <2>1. ASSUME NEW i \in 1..Len(net'), net'[i].via = "events", NEW j \in 1..i - 1
        PROVE  ~Carries(net'[j])
    <3>1. PICK n \in Nat : n = Len(net')
      BY Removed DEF Delivered, LogOK
    <3>2. i \in 1..n
      BY <3>1
    <3>3. j \in 1..n
      BY <3>2
    <3>4. net'[i] = net[i + 1] /\ net'[j] = net[j + 1] /\ i + 1 \in 1..Len(net) /\ j + 1 \in 1..i + 1 - 1
      BY <3>1, <3>3, DeliveredFrames
    <3> QED BY <2>1, <3>4 DEF PageInv, PollsFirst
  <2> QED BY <2>1 DEF PollsFirst
<1>4. OffStream'
  BY DeliveredFrames DEF Delivered, PageInv, OffStream
<1>5. Reading'
  BY DEF Delivered, PageInv, Reading, At
<1> QED BY <1>1, <1>2, <1>3, <1>4, <1>5

\* What was to follow the page as it was follows it as it is.
LEMMA FollowsOn ==
  ASSUME LogOK, Delivered, FramesFollow, StreamFollows, Base' \in Nat, Base <= Base',
         Carries(net[1]) => \A n \in net[1].body.events : n <= Base'
  PROVE  FramesFollow' /\ StreamFollows'
<1>1. FramesFollow'
  <2>1. ASSUME NEW i \in 1..Len(net'), Carries(net'[i])
        PROVE  \E r \in Nat : Reached(Base', net', i, r) /\ Follows(net'[i].body.events, r)
    <3>1. i + 1 \in 1..Len(net) /\ net'[i] = net[i + 1]
      BY DeliveredFrames
    <3>2. PICK r \in Nat : Reached(Base, net, i + 1, r) /\ Follows(net[i + 1].body.events, r)
      BY <2>1, <3>1 DEF FramesFollow
    <3>3. i \in 1..Len(net)
      <4>1. PICK n \in Nat : n = Len(net) /\ Len(net') = n - 1
        BY DeliveredFrames
      <4>2. i \in 1..n - 1
        BY <4>1
      <4> QED BY <4>1, <4>2
    <3>4. Reached(Base', net', i, r)
      BY NumbersOK, <3>2, <3>3, ReachedShorter
    <3> QED BY <3>1, <3>2, <3>4
  <2> QED BY <2>1 DEF FramesFollow
<1>2. ASSUME handler # None PROVE Reached(Base', net', Len(net') + 1, handler.lastSeq)
  <2>1. handler.lastSeq \in Nat
    BY <1>2, HandlerForm DEF Handlers
  <2>2. Reached(Base, net, Len(net) + 1, handler.lastSeq)
    BY <1>2 DEF StreamFollows
  <2>3. PICK n \in Nat : n = Len(net) /\ Len(net') = n - 1 /\ 1 <= n
    BY DeliveredFrames DEF Delivered
  <2>4. n \in 1..Len(net) /\ n - 1 + 1 = n
    BY <2>3
  <2>5. Reached(Base', net', n, handler.lastSeq)
    BY NumbersOK, <2>1, <2>2, <2>3, <2>4, ReachedShorter
  <2> QED BY <2>3, <2>4, <2>5
<1> QED BY <1>1, <1>2 DEF StreamFollows, Delivered

LEMMA KeptByIdleDelivery ==
  ASSUME LogOK, Sent, PageInv, Delivered, ~Carries(net[1]), page'.since = page.since,
         page'.shown = page.shown
  PROVE  Sent' /\ PageInv'
<1>1. Misled' = Misled /\ Stale' = Stale /\ Base' = Base /\ Cursor' = Cursor /\ Base \in Nat
  BY SameBase, NumbersOK DEF Delivered
<1>2. PollsCurrent'
  BY DeliveredFrames DEF Delivered, PageInv, PollsCurrent
<1>3. Caught' <=> Caught
  <2>1. Caught => Caught'
    BY DeliveredFrames DEF Delivered, Caught
  <2>2. ASSUME Caught', NEW i \in 1..Len(net), Carries(net[i]) PROVE page.since <= net[i].body.latest
    <3>1. i # 1
      BY <2>2
    <3>2. PICK n \in Nat : n = Len(net) /\ Len(net') = n - 1
      BY DeliveredFrames
    <3>3. i - 1 \in 1..n - 1 /\ i - 1 + 1 = i
      BY <3>1, <3>2
    <3>4. net'[i - 1] = net[i]
      BY <3>2, <3>3, DeliveredFrames
    <3> QED BY <2>2, <3>2, <3>3, <3>4 DEF Caught
  <2> QED BY <2>1, <2>2 DEF Caught, Delivered
<1>4. ASSUME ~Misled' \/ ~Caught' PROVE FramesFollow' /\ StreamFollows'
  <2>1. FramesFollow /\ StreamFollows
    BY <1>1, <1>3, <1>4 DEF PageInv, Continues
  <2> QED BY <1>1, <2>1, FollowsOn
<1>5. CaughtUp'
  BY <1>1, <1>3 DEF PageInv, CaughtUp
<1> QED BY <1>1, <1>2, <1>4, <1>5, KeptByDelivery DEF PageInv, Continues

\* The page takes in a frame: its cursor ends at most at the frame's latest, and it has
\* come at least as far as it was and as the frame goes.
LEMMA Taken ==
  ASSUME LogOK, Sent, PageInv, Delivered, Carries(net[1]), page' = Apply(page, net[1].body)
  PROVE  LET f == net[1].body IN
         /\ f.run = run /\ f.events \in Spans /\ f.latest \in Nat
         /\ page'.since \in Nat
         /\ page'.shown = Still(f) \cup {run} \X New(f)
         /\ From(f) \in Nat /\ From(f) <= page'.since
         /\ page'.since <= f.latest /\ f.latest <= seq
         /\ \A n \in f.events : n <= page'.since
         /\ New(f) \subseteq f.events
         /\ IF New(f) = {} THEN page'.since = From(f) ELSE page'.since \in New(f)
<1> DEFINE f == net[1].body
<1>1. f \in Batches /\ f.events \in Spans /\ f.latest \in Nat /\ f.run \in Nat
  BY DEF Carries, Batches
<1>2. f.run = run /\ f.latest <= seq /\ \A n \in f.events : n <= f.latest
  BY DeliveredFrames DEF Sent
<1> HIDE DEF f
<1>3. page' = Apply(page, f)
  BY DEF f
<1>4. From(f) \in Nat /\ From(f) <= f.latest
  BY <1>1, NumbersOK DEF From
<1>5. page'.since = Newest(New(f), From(f)) /\ page'.shown = Still(f) \cup {f.run} \X New(f)
  BY <1>1, <1>3, ApplyIs
<1>6. /\ page'.since \in Nat /\ From(f) <= page'.since
      /\ \A n \in f.events : n <= page'.since
      /\ IF New(f) = {} THEN page'.since = From(f) ELSE page'.since \in New(f)
  BY <1>1, <1>4, <1>5, FreshOf DEF New
<1>7. New(f) \subseteq f.events
  BY DEF New
<1>8. page'.since <= f.latest
  BY <1>2, <1>4, <1>6, <1>7
<1> QED BY <1>1, <1>2, <1>4, <1>5, <1>6, <1>7, <1>8 DEF f

LEMMA KeptByTaking ==
  ASSUME LogOK, Sent, PageInv, Delivered, Carries(net[1]), page' = Apply(page, net[1].body)
  PROVE  Sent' /\ PageInv'
<1> DEFINE f == net[1].body
<1>1. /\ f.run = run /\ f.events \in Spans /\ f.latest \in Nat
      /\ page'.since \in Nat
      /\ page'.shown = Still(f) \cup {run} \X New(f)
      /\ From(f) \in Nat /\ From(f) <= page'.since
      /\ page'.since <= f.latest /\ f.latest <= seq
      /\ \A n \in f.events : n <= page'.since
      /\ New(f) \subseteq f.events
      /\ IF New(f) = {} THEN page'.since = From(f) ELSE page'.since \in New(f)
  BY Taken
<1>2. /\ \A e \in page.shown : e[1] <= run /\ e[2] <= page.since /\ e[2] \in Nat
      /\ page.shown = {} => page.since = 0
      /\ page.shown # {} => \E e \in page.shown : e[2] = page.since
  BY DEF PageInv, Cursor, LogOK, Pages
<1>3. Caught => From(f) = page.since /\ Still(f) = page.shown
  BY DeliveredFrames, NumbersOK DEF Caught, From, Still
<1>4. \/ From(f) = 0 /\ Still(f) = {}
      \/ From(f) = page.since /\ Still(f) = page.shown
  BY DEF From, Still
<1>5. \A i \in 1..Len(net') : Carries(net'[i]) => f.latest <= net'[i].body.latest /\ net'[i].body.latest \in Nat
  <2>1. ASSUME NEW i \in 1..Len(net'), Carries(net'[i]) PROVE f.latest <= net'[i].body.latest
                                                          /\ net'[i].body.latest \in Nat
    <3>1. i \in Nat /\ i + 1 \in 1..Len(net) /\ 1 \in 1..Len(net) /\ net'[i] = net[i + 1]
      BY DeliveredFrames
    <3>2. i >= 1
      <4>1. PICK n \in Nat : n = Len(net')
        BY Removed DEF Delivered, LogOK
      <4>2. i \in 1..n
        BY <4>1
      <4> QED BY <4>2
    <3>3. 1 < i + 1
      BY <3>1, <3>2
    <3> QED BY <2>1, <3>1, <3>3, NumbersOK DEF PageInv, InOrder
  <2> QED BY <2>1
<1> HIDE DEF f
<1>6. Cursor'
  <2>1. ASSUME NEW e \in page'.shown PROVE e[1] <= run' /\ e[2] <= page'.since
    <3>1. CASE e \in Still(f)
      <4>1. e \in page.shown /\ From(f) = page.since
        BY <1>4, <3>1
      <4>2. e[1] <= run /\ e[2] <= page.since /\ e[2] \in Nat
        BY <1>2, <4>1
      <4> QED BY <1>1, <4>1, <4>2, NumbersOK DEF Delivered
    <3>2. CASE e \in {run} \X New(f)
      <4>1. e[1] = run /\ e[2] \in f.events
        BY <1>1, <3>2
      <4> QED BY <1>1, <4>1, NumbersOK DEF Delivered
    <3> QED BY <1>1, <3>1, <3>2
  <2>2. ASSUME page'.shown = {} PROVE page'.since = 0
    <3>1. Still(f) = {} /\ New(f) = {}
      <4>1. ASSUME NEW n \in New(f) PROVE FALSE
        <5>1. <<run, n>> \in {run} \X New(f)
          OBVIOUS
        <5> QED BY <1>1, <2>2, <5>1
      <4> QED BY <1>1, <2>2, <4>1
    <3> QED BY <1>1, <1>2, <1>4, <3>1
  <2>3. ASSUME page'.shown # {} PROVE \E e \in page'.shown : e[2] = page'.since
    <3>1. CASE New(f) # {}
      <4>1. <<run, page'.since>> \in page'.shown
        BY <1>1, <3>1
      <4> QED BY <4>1
    <3>2. CASE New(f) = {}
      <4>1. page'.since = From(f) /\ page'.shown = Still(f)
        BY <1>1, <3>2
      <4> QED BY <1>2, <1>4, <2>3, <4>1
    <3> QED BY <3>1, <3>2
  <2> QED BY <2>1, <2>2, <2>3 DEF Cursor
<1>7. Caught'
  <2>1. page'.since <= seq'
    BY <1>1, NumbersOK DEF Delivered
  <2>2. ASSUME NEW i \in 1..Len(net'), Carries(net'[i]) PROVE page'.since <= net'[i].body.latest
    BY <1>1, <1>5, <2>2
  <2> QED BY <2>1, <2>2 DEF Caught
<1>8. PollsCurrent'
  BY DeliveredFrames DEF Delivered, PageInv, PollsCurrent
<1>9. ASSUME ~Misled' PROVE FramesFollow' /\ StreamFollows'
  <2>1. ASSUME Misled, Caught PROVE FALSE
    <3>1. page.shown \subseteq page'.shown
      BY <1>1, <1>3, <2>1
    <3> QED BY <1>9, <2>1, <3>1 DEF Misled, Log!Misled, Delivered
  <2>2. FramesFollow /\ StreamFollows
    BY <2>1 DEF PageInv, Continues
  <2>3. Base' = page'.since
    BY <1>9 DEF Base
  <2>4. Base <= Base'
    <3>1. CASE Misled
      BY <1>1, <2>3, <3>1 DEF Base
    <3>2. CASE ~Misled
      BY <1>1, <1>3, <2>3, <3>2 DEF Base, PageInv, CaughtUp, Stale, Misled, Log!Misled
    <3> QED BY <3>1, <3>2
  <2> QED BY <1>1, <2>2, <2>3, <2>4, FollowsOn DEF f
<1> QED BY <1>6, <1>7, <1>8, <1>9, KeptByDelivery DEF PageInv, CaughtUp, Continues

----------------------------------------------------------------------------
(* The invariant holds.                                                    *)

LEMMA InitInv == Init => IInv
<1> SUFFICES ASSUME Init PROVE IInv
  OBVIOUS
<1>1. ViewOK
  BY DEF Init, ViewOK, View
<1>2. LogOK
  <2>1. page \in Pages
    BY DEF Init, Pages, View
  <2>2. left \in Lefts
    BY WorkloadsAssumption DEF Init, Lefts
  <2>3. net \in Seq(Frames)
    BY DEF Init
  <2> QED BY <2>1, <2>2, <2>3 DEF Init, LogOK
<1>3. Len(net) = 0 /\ 1..0 = {}
  BY DEF Init
<1>4. page.shown = {} /\ page.since = 0 /\ handler = None /\ asked = {} /\ seq = 0
  BY DEF Init
<1>5. Sent /\ InOrder /\ PollsFirst /\ FramesFollow
  BY <1>3 DEF Sent, InOrder, PollsFirst, FramesFollow
<1>6. Cursor /\ PollsCurrent /\ OffStream /\ CaughtUp /\ Reading /\ StreamFollows
  BY <1>3, <1>4 DEF Cursor, PollsCurrent, OffStream, CaughtUp, Caught, Reading, At, StreamFollows
<1> QED BY <1>1, <1>2, <1>4, <1>5, <1>6 DEF IInv, PageInv, Continues

LEMMA DeliverDelivers ==
  ASSUME LogOK, ~Overtaking, NEW i \in 1..Len(net), Deliver(i)
  PROVE  /\ Delivered
         /\ IF Carries(net[1])
            THEN page' = (IF Listening THEN Apply(page, net[1].body) ELSE page)
            ELSE page'.since = page.since /\ page'.shown = page.shown
<1>1. CASE Carries(net[1])
  <2>1. page'.mode = page.mode
    BY <1>1, DeliverIs, ApplyIs DEF Carries
  <2> QED BY <1>1, <2>1, DeliverIs DEF Delivered, daemon
<1>2. CASE ~Carries(net[1])
  BY <1>2, DeliverIs DEF Delivered, daemon
<1> QED BY <1>1, <1>2

LEMMA PageInvKept ==
  ASSUME ViewOK, LogOK, Sent, PageInv, Listening, ~Overtaking, [Next]_vars
  PROVE  Sent' /\ PageInv'
<1>1. CASE UNCHANGED vars
  BY <1>1, KeptBySettled DEF vars, daemon, Settled
<1>2. CASE Raise
  BY <1>2, KeptByRaise DEF Raise, Settled
<1>3. ASSUME NEW ordered \in BOOLEAN, Change(ordered) PROVE Sent' /\ PageInv'
  BY <1>3, KeptBySettled DEF Change, Settled
<1>4. CASE Age
  BY <1>4, KeptBySettled DEF Age, Settled
<1>5. ASSUME NEW b \in builds, ReadWorld(b) \/ StoreBuild(b) PROVE Sent' /\ PageInv'
  BY <1>5, KeptBySettled DEF ReadWorld, StoreBuild, Settled
<1>6. CASE Serve
  BY <1>6, KeptByReading, KeptBySendBridge, KeptBySendEvents DEF Serve
<1>7. CASE Answer
  BY <1>7, KeptByAnswerEvents, KeptByAnswerBridge DEF Answer
<1>8. CASE Connect
  BY <1>8, KeptByConnect
<1>9. CASE Break
  BY <1>9, KeptByBreak
<1>10. CASE Restart
  BY <1>10, KeptByRestart
<1>11. CASE Reload
  BY <1>11, KeptByAsk DEF Reload
<1>12. ASSUME NEW via \in {"events", "bridge"}, Poll(via) PROVE Sent' /\ PageInv'
  BY <1>12, KeptByAsk DEF Poll
<1>13. ASSUME NEW i \in 1..Len(net), Deliver(i) PROVE Sent' /\ PageInv'
  BY <1>13, DeliverDelivers, KeptByTaking, KeptByIdleDelivery
<1> QED BY <1>1, <1>2, <1>3, <1>4, <1>5, <1>6, <1>7, <1>8, <1>9, <1>10, <1>11, <1>12, <1>13
         DEF Next, Builds, Arrive

----------------------------------------------------------------------------
(* Each step is one of the log's.                                          *)

Taking == Listening /\ Delivered /\ Carries(net[1]) /\ page' = Apply(page, net[1].body)

OfTheLog == \/ UNCHANGED <<run, seq>>
            \/ run' = run /\ seq' = seq + 1
            \/ run' = run + 1 /\ seq' = 0

LEMMA LogSteps ==
  ASSUME ViewOK, LogOK, ~Overtaking, [Next]_vars
  PROVE  Taking \/ (OfTheLog /\ page'.shown = page.shown)
<1>1. CASE UNCHANGED vars
  BY <1>1 DEF vars, daemon, OfTheLog
<1>2. CASE Raise \/ Age \/ (\E ordered \in BOOLEAN : Change(ordered)) \/ Builds
  BY <1>2 DEF Raise, Age, Change, Builds, ReadWorld, StoreBuild, OfTheLog
<1>3. CASE Serve
  BY <1>3 DEF Serve, NoteVersion, SendBridge, CheckBridge, CheckEvents, ReadEvents, SendEvents, daemon,
              OfTheLog
<1>4. CASE Answer
  BY <1>4 DEF Answer, AnswerEvents, AnswerBridge, daemon, OfTheLog
<1>5. CASE Connect
  BY <1>5, PageForm DEF Connect, daemon, OfTheLog
<1>6. CASE Break
  BY <1>6, PageForm DEF Break, daemon, OfTheLog
<1>7. CASE Restart
  BY <1>7, PageForm DEF Restart, OfTheLog
<1>8. CASE Reload
  BY <1>8 DEF Reload, Ask, daemon, OfTheLog
<1>9. ASSUME NEW via \in {"events", "bridge"}, Poll(via) PROVE OfTheLog /\ page'.shown = page.shown
  BY <1>9 DEF Poll, Ask, daemon, OfTheLog
<1>10. ASSUME NEW i \in 1..Len(net), Deliver(i)
       PROVE  Taking \/ (OfTheLog /\ page'.shown = page.shown)
  BY <1>10, DeliverDelivers DEF Taking, Delivered, OfTheLog
<1> QED BY <1>1, <1>2, <1>3, <1>4, <1>5, <1>6, <1>7, <1>8, <1>9, <1>10 DEF Next, Arrive

LEMMA NextInv == ASSUME IInv, ~Overtaking, [Next]_vars PROVE IInv'
<1>1. ViewOK' /\ LogOK' /\ left'.open = left.open
  BY Typed DEF IInv, TypesKept
<1>2. CASE Listening
  <2>1. Sent' /\ PageInv'
    BY <1>2, PageInvKept DEF IInv
  <2> QED BY <1>1, <1>2, <2>1 DEF IInv, Listening
<1>3. CASE ~Listening
  <2>1. page'.shown = {}
    BY <1>3, LogSteps DEF IInv, Taking
  <2> QED BY <1>1, <1>3, <2>1 DEF IInv, Listening
<1> QED BY <1>2, <1>3

LEMMA NewestShown == ASSUME LogOK, Cursor PROVE Log!Newest = page.since
<1>1. CASE page.shown = {}
  BY <1>1 DEF Cursor, Log!Newest
<1>2. CASE page.shown # {}
  <2> DEFINE numbers == {e[2] : e \in page.shown}
             Newer(n) == \A e \in page.shown : e[2] <= n
  <2>1. page.since \in numbers /\ Newer(page.since)
    BY <1>2 DEF Cursor
  <2>2. ASSUME NEW n \in numbers, Newer(n) PROVE n = page.since
    <3>1. n \in Nat /\ page.since \in Nat
      BY DEF LogOK, Pages
    <3>2. n <= page.since /\ page.since <= n
      BY <2>1, <2>2
    <3> QED BY <3>1, <3>2
  <2>3. Log!Newest = CHOOSE n \in numbers : Newer(n)
    BY <1>2 DEF Log!Newest
  <2> HIDE DEF numbers, Newer
  <2> QED BY <2>1, <2>2, <2>3
<1> QED BY <1>1, <1>2

LEMMA TakingShows ==
  ASSUME LogOK, Sent, PageInv, Taking
  PROVE  [Log!Next]_(Log!logVars)
<1> DEFINE f == net[1].body
<1>1. UNCHANGED <<run, seq>> /\ Delivered /\ Carries(net[1]) /\ page' = Apply(page, f)
  BY DEF Taking, Delivered
<1>2. CASE Misled
  BY <1>1, <1>2 DEF Misled, Log!Next, Log!ShowMisled
<1>3. CASE ~Misled
  <2>1. Caught
    BY <1>3 DEF PageInv, CaughtUp, Stale, Misled, Log!Misled
  <2>2. /\ f.events \in Spans /\ f.latest \in Nat /\ f.latest <= seq
        /\ page'.since <= f.latest /\ page'.since \in Nat
        /\ page'.shown = Still(f) \cup {run} \X New(f)
        /\ New(f) # {} => page'.since \in New(f)
        /\ \A n \in f.events : n <= page'.since
        /\ New(f) \subseteq f.events
    BY <1>1, Taken
  <2>3. From(f) = page.since /\ Still(f) = page.shown
    BY <1>1, <2>1, DeliveredFrames, NumbersOK DEF Caught, From, Still
  <2> HIDE DEF f
  <2>4. New(f) = {n \in f.events : n > page.since}
    BY <2>3 DEF New
  <2>5. CASE New(f) = {}
    <3>1. page'.shown = page.shown
      BY <2>2, <2>3, <2>5
    <3> QED BY <1>1, <3>1 DEF Log!logVars
  <2>6. CASE New(f) # {}
    <3>1. PICK r \in Nat : r <= page.since /\ Follows(f.events, r)
      <4>1. FramesFollow
        BY <1>3 DEF PageInv, Continues
      <4>2. 1 \in 1..Len(net) /\ 1..1 - 1 = {}
        BY <1>1, DeliveredFrames
      <4>3. PICK r \in Nat : Reached(Base, net, 1, r) /\ Follows(f.events, r)
        BY <1>1, <4>1, <4>2 DEF FramesFollow, f
      <4>4. r <= Base
        BY <4>2, <4>3 DEF Reached
      <4> QED BY <1>3, <4>3, <4>4 DEF Base
    <3>2. PICK first \in Nat, last \in Nat :
            /\ New(f) = first..last
            /\ page.since + 1 <= first /\ first <= last
            /\ first <= page.since + 1 \/ first + Limit <= last + 1
      BY <2>2, <2>4, <2>6, <3>1, FollowsShows, NumbersOK
    <3>3. last <= seq
      <4>1. last \in f.events
        BY <2>2, <3>2
      <4> QED BY <2>2, <4>1, NumbersOK
    <3>4. Log!Newest = page.since
      BY NewestShown DEF PageInv
    <3>5. last \in page.since + 1..seq
      BY <3>2, <3>3, NumbersOK
    <3>6. first \in page.since + 1..Log!Later(page.since + 1, last - Limit + 1)
      BY <3>2, NumbersOK, SizeAssumption DEF Log!Later
    <3>7. page'.shown = page.shown \cup {run} \X (first..last)
      BY <2>2, <2>3, <3>2
    <3>8. Log!Show
      BY <1>1, <1>3, <3>4, <3>5, <3>6, <3>7 DEF Log!Show, Misled
    <3> QED BY <3>8 DEF Log!Next
  <2> QED BY <2>5, <2>6
<1> QED BY <1>2, <1>3

LEMMA StepsOfTheLog ==
  ASSUME IInv, ~Overtaking, [Next]_vars
  PROVE  [Log!Next]_(Log!logVars)
<1>1. CASE Taking
  BY <1>1, TakingShows DEF IInv, Taking
<1>2. CASE OfTheLog /\ page'.shown = page.shown
  BY <1>2 DEF OfTheLog, Log!Next, Log!Raise, Log!Restart, Log!logVars
<1> QED BY <1>1, <1>2, LogSteps DEF IInv

----------------------------------------------------------------------------
(* The theorems.                                                           *)

\* While what is sent earlier arrives earlier, what the page shows is an activity log:
\* each event once and in order, one passed over only when the ring's answer had Limit newer
\* ones, whatever breaks, is replayed or polled, and however often the daemon restarts
\* (useEvents.ts, events.go).
THEOREM FeedImplementsTheLog == ASSUME ~Overtaking PROVE Spec => ShowsTheLog
<1>1. Init => Log!Init
  BY DEF Init, Log!Init
<1>2. Init => IInv
  BY InitInv
<1>3. IInv /\ [Next]_vars => IInv'
  BY NextInv
<1>4. IInv /\ [Next]_vars => [Log!Next]_(Log!logVars)
  BY StepsOfTheLog
<1> QED BY <1>1, <1>2, <1>3, <1>4, PTL DEF Spec, ShowsTheLog, Log!Spec

\* And it lets go of its events for a restart only: none of those it drops is of the run
\* whose numbers it follows (the latest number of an answer, useEvents.ts).
THEOREM DropsForARestartOnly == ASSUME ~Overtaking PROVE Spec => ResetsForARestartOnly
<1>1. Init => IInv
  BY InitInv
<1>2. IInv /\ [Next]_vars => IInv'
  BY NextInv
<1>3. IInv /\ [Next]_vars => [\A e \in page.shown \ page'.shown : e[1] # run]_vars
  <2>1. ASSUME IInv, [Next]_vars, NEW e \in page.shown \ page'.shown PROVE e[1] # run
    <3>1. Taking
      BY <2>1, LogSteps DEF IInv
    <3>2. LogOK /\ Sent /\ PageInv
      BY <2>1, <3>1 DEF IInv, Taking
    <3>3. page'.shown = Still(net[1].body) \cup {run} \X New(net[1].body)
      BY <3>1, <3>2, Taken DEF Taking
    <3>4. e \notin Still(net[1].body)
      BY <2>1, <3>3
    <3>5. 1 \in 1..Len(net) /\ net[1].body.latest < page.since
      BY <3>1, <3>2, <3>4, DeliveredFrames DEF Still, Taking
    <3>6. ~Caught
      BY <3>1, <3>2, <3>5, NumbersOK DEF Caught, Taking
    <3> QED BY <2>1, <3>2, <3>6 DEF PageInv, CaughtUp, Stale
  <2> QED BY <2>1
<1> QED BY <1>1, <1>2, <1>3, PTL DEF Spec, ResetsForARestartOnly

=============================================================================
