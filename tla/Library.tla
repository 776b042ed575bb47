------------------------------ MODULE Library -------------------------------
(***************************************************************************)
(* The stores an operator's patterns, ladder and policy live in, in memory *)
(* and on disk (store.go, patternstore.go, ladderstore.go), and the        *)
(* requests that change them (api.go, config.go): saving, merging,         *)
(* selecting, importing, and the box's own pattern following the radios    *)
(* that are plugged in.  A store keeps in memory what it could not write,  *)
(* except when it is replaced whole.                                       *)
(***************************************************************************)
EXTENDS Timeline

CONSTANTS
  Names, Adapter,    \* names of saved patterns; one is the box's own (adapterPatternName)
  BuiltinNames, Ladders,
  Authored, Radio,   \* patterns clients send; those for the box's radios
  Documents,         \* what is imported: [patterns, ladder]
  OldFile,           \* the pattern file of an older build
  Stretches, Dwell,  \* tenths; hundredths
  RadioOrder,        \* every radio there could be, by name
  NoPattern, NoLadder,
  MaxFailures,       \* bound: writes that fail
  MaxRequests        \* bound: requests, sweeps, radios swapped and restarts

Timelines == PatternsOf(ToSet(RadioOrder))

ASSUME LibraryAssumption ==
  /\ RadioOrder \in Seq(STRING)
  /\ \A i, j \in DOMAIN RadioOrder : RadioOrder[i] = RadioOrder[j] => i = j
  /\ Authored \union Radio \subseteq Timelines /\ NoPattern \notin Authored \union Radio
  /\ Ladders \subseteq Seq(Rungs) /\ NoLadder \notin Ladders
  /\ \A doc \in Documents :
       /\ \A n \in DOMAIN doc.patterns : doc.patterns[n] \in Timelines
       /\ doc.ladder = NoLadder \/ doc.ladder \in Seq(Rungs)
  /\ Adapter \in Names /\ OldFile \in [Names -> Timelines \union {NoPattern}]
  /\ BuiltinNames \subseteq Builtins /\ Dwell \in Nat /\ Half \in Nat \ {0}

VARIABLES
  lib, libFile,         \* PatternStore
  stored, storedFile,   \* LadderStore
  pol, polFile,         \* Store, of one device: the pattern in its slot and the ladder swept on it
  have,                 \* radios plugged in
  sheet,                \* a merge shown and not yet saved, with what it was made from
  import,               \* an import under way
  reading,              \* the box's pattern as read, and as it is about to be written back
  spent,                \* writes failed and requests made
  owed                  \* for each name, what was acknowledged last and what was tried since

vars == <<lib, libFile, stored, storedFile, pol, polFile, have, sheet, import, reading, spent, owed>>
patterns == <<lib, libFile, owed>>
ladders == <<stored, storedFile>>
policy == <<pol, polFile>>
requests == <<sheet, import, reading>>

Blank == [slot |-> NoPattern, swept |-> NoLadder]
NoSheet == [pattern |-> NoPattern, of |-> <<>>]
NoReading == [from |-> NoPattern, to |-> NoPattern, have |-> {}]
NoImport == [doc |-> NoPattern, replace |-> FALSE, step |-> "none", left |-> {}]

Upgraded(f) == [n \in Names |-> IF f[n] = NoPattern THEN NoPattern ELSE NormalisePattern(f[n])]

Init ==
  /\ libFile = OldFile /\ lib = Upgraded(OldFile)
  /\ owed = [n \in Names |-> {OldFile[n], Upgraded(OldFile)[n]}]
  /\ stored = NoLadder /\ storedFile = NoLadder
  /\ pol = Blank /\ polFile = Blank
  /\ have \in {ToSet(RadioOrder) \ {w} : w \in ToSet(RadioOrder)}
  /\ sheet = NoSheet /\ import = NoImport /\ reading = NoReading
  /\ spent = [failures |-> 0, requests |-> 0]

-----------------------------------------------------------------------------
(* Writing a store. *)

Write(ok) ==
  /\ ok \/ spent.failures < MaxFailures
  /\ spent' = [spent EXCEPT !.failures = @ + (IF ok THEN 0 ELSE 1)]
Request(ok) ==
  /\ spent.requests < MaxRequests /\ (ok \/ spent.failures < MaxFailures)
  /\ spent' = [requests |-> spent.requests + 1, failures |-> spent.failures + (IF ok THEN 0 ELSE 1)]

\* What was tried of a name is owed on top of what was acknowledged, until it is acknowledged.
WriteNames(next, ok) ==
  /\ lib' = next
  /\ libFile' = IF ok THEN next ELSE libFile
  /\ owed' = [n \in Names |-> IF ok THEN {next[n]} ELSE owed[n] \union {next[n]}]

\* Put and Delete of a PatternStore: the change stays in memory if it cannot be written.
PutPattern(n, p, ok) == WriteNames([lib EXCEPT ![n] = p], ok)

MutantReplacePatterns(next, ok) ==
  /\ lib' = next
  /\ IF ok THEN libFile' = next /\ owed' = [n \in Names |-> {next[n]}]
           ELSE UNCHANGED <<libFile, owed>>

ReplacePatterns(next, ok) ==
  IF ok THEN WriteNames(next, ok) ELSE UNCHANGED patterns

PutLadder(l, ok) == stored' = l /\ storedFile' = IF ok THEN l ELSE storedFile
PutPolicy(p, ok) == pol' = p /\ polFile' = IF ok THEN p ELSE polFile

-----------------------------------------------------------------------------
(* Requests. *)

Save(n, p, ok) ==
  /\ Playable(p)
  /\ PutPattern(n, p, ok) /\ Request(ok)
  /\ UNCHANGED <<ladders, policy, have, requests>>

Delete(n, ok) ==
  /\ lib[n] # NoPattern
  /\ PutPattern(n, NoPattern, ok) /\ Request(ok)
  /\ UNCHANGED <<ladders, policy, have, requests>>

Walkable(l) == l # NoLadder /\ Len(l) >= 2
\* The ladder built-ins are generated from: the box's own, else what was swept, else a generic one.
GlobalLadder ==
  IF stored # NoLadder THEN stored
  ELSE IF Walkable(pol.swept) THEN pol.swept
  ELSE DefaultLadder

Builtin(n) == LadderPattern(n, GlobalLadder, Dwell)
Known == BuiltinNames \union {n \in Names : lib[n] # NoPattern}
Named(n) == IF n \in BuiltinNames THEN Builtin(n) ELSE lib[n]

MergePreview(a, b, tenths) ==
  /\ a \in Known /\ b \in Known /\ Request(TRUE)
  /\ Stretchable(Named(a), tenths) /\ Stretchable(Named(b), tenths)
  /\ \E of \in {<<StretchPattern(Named(a), tenths), StretchPattern(Named(b), tenths)>>} :
     \E merged \in {MergePatterns(of)} :
       Layered(of, merged) /\ sheet' = [pattern |-> merged, of |-> of]
  /\ UNCHANGED <<patterns, ladders, policy, have, import, reading>>

SaveSheet(n, ok) == sheet # NoSheet /\ Save(n, sheet.pattern, ok)

SelectPattern(n, tenths, ok) ==
  /\ n \in Known /\ Stretchable(Named(n), tenths)
  /\ PutPolicy([pol EXCEPT !.slot = StretchPattern(Named(n), tenths)], ok) /\ Request(ok)
  /\ UNCHANGED <<patterns, ladders, have, requests>>

\* A client's own timeline for the device, possibly in an older build's words.
PutSlot(p, ok) ==
  /\ Playable(NormalisePattern(p))
  /\ PutPolicy([pol EXCEPT !.slot = NormalisePattern(p)], ok) /\ Request(ok)
  /\ UNCHANGED <<patterns, ladders, have, requests>>

PutAdapterPattern(p, ok) ==
  /\ PatternRadios(p) \subseteq have /\ Playable(NormalisePattern(p))
  /\ PutPattern(Adapter, NormalisePattern(p), ok) /\ Request(ok)
  /\ UNCHANGED <<ladders, policy, have, requests>>

\* getAdapterPattern reads the pattern, works out what it becomes on the radios there are, and
\* writes that back.
ReadAdapterPattern ==
  /\ reading = NoReading /\ lib[Adapter] # NoPattern /\ Request(TRUE)
  /\ LET next == Reconciled(lib[Adapter], have, RadioOrder) IN
     /\ next # lib[Adapter]
     /\ reading' = [from |-> lib[Adapter], to |-> next, have |-> have]
  /\ UNCHANGED <<patterns, ladders, policy, have, sheet, import>>

WriteAdapterPattern(ok) ==
  /\ reading # NoReading /\ Write(ok)
  /\ Playable(reading.to) /\ PutPattern(Adapter, reading.to, ok)
  /\ reading' = NoReading
  /\ UNCHANGED <<ladders, policy, have, sheet, import>>

-----------------------------------------------------------------------------
(* Importing: one store after another, each written before the next is begun. *)

ValidDocument(doc) ==
  /\ doc.patterns # <<>> \/ Walkable(doc.ladder)
  /\ doc.ladder # NoLadder => Walkable(doc.ladder)
  /\ \A n \in DOMAIN doc.patterns : Playable(doc.patterns[n])

\* Documents have carried no devices since version 2; replacing forgets the ones there are.
Import(doc, replace, ok) ==
  /\ import = NoImport /\ ValidDocument(doc) /\ Request(ok)
  /\ IF replace /\ ok THEN PutPolicy(Blank, ok) ELSE UNCHANGED policy
  /\ import' = IF ok THEN [doc |-> doc, replace |-> replace, step |-> "patterns", left |-> DOMAIN doc.patterns]
                     ELSE NoImport
  /\ UNCHANGED <<patterns, ladders, have, sheet, reading>>

ImportPatterns(ok) ==
  /\ import.step = "patterns" /\ import.left # {} /\ import.replace /\ Write(ok)
  /\ ReplacePatterns([n \in Names |-> IF n \in import.left THEN import.doc.patterns[n] ELSE NoPattern], ok)
  /\ import' = IF ok THEN [import EXCEPT !.left = {}] ELSE NoImport
  /\ UNCHANGED <<ladders, policy, have, sheet, reading>>

ImportPattern(n, ok) ==
  /\ import.step = "patterns" /\ n \in import.left /\ ~import.replace /\ Write(ok)
  /\ IF Playable(import.doc.patterns[n]) THEN PutPattern(n, import.doc.patterns[n], ok) ELSE UNCHANGED patterns
  /\ import' = IF ok /\ Playable(import.doc.patterns[n]) THEN [import EXCEPT !.left = @ \ {n}] ELSE NoImport
  /\ UNCHANGED <<ladders, policy, have, sheet, reading>>

ImportLadder(ok) ==
  /\ import.step = "patterns" /\ import.left = {} /\ Write(ok)
  /\ IF import.doc.ladder = NoLadder THEN UNCHANGED ladders ELSE PutLadder(import.doc.ladder, ok)
  /\ import' = NoImport
  /\ UNCHANGED <<patterns, policy, have, sheet, reading>>

-----------------------------------------------------------------------------
(* What happens to the box. *)

\* storeSweepResult: a sweep's ladder becomes the box's, if it can be walked, and goes down as
\* measured on its device.
Sweep(l, ok) ==
  /\ Request(ok)
  /\ \E one, other \in BOOLEAN :
       /\ ok = (one /\ other)
       /\ IF Walkable(l) THEN PutLadder(l, one) ELSE UNCHANGED ladders
       /\ PutPolicy([pol EXCEPT !.swept = l], other)
  /\ UNCHANGED <<patterns, have, requests>>

\* A ladder typed over the one swept on the device, however short, ...
TypeLadder(l, ok) ==
  /\ Request(ok)
  /\ PutPolicy([pol EXCEPT !.swept = l], ok)
  /\ UNCHANGED <<patterns, ladders, have, requests>>

\* ... or taken off it.
DeleteLadder(ok) ==
  /\ pol.swept # NoLadder /\ Request(ok)
  /\ PutPolicy([pol EXCEPT !.swept = NoLadder], ok)
  /\ UNCHANGED <<patterns, ladders, have, requests>>

Swap(w) ==
  /\ Request(TRUE) /\ have' = IF w \in have THEN have \ {w} ELSE have \union {w}
  /\ UNCHANGED <<patterns, ladders, policy, requests>>

\* The daemon starts again: requests under way are gone; old names are upgraded on the way in, and
\* written back if that can be done.
Restart(ok) ==
  /\ Request(ok)
  /\ lib' = Upgraded(libFile)
  /\ libFile' = IF ok THEN Upgraded(libFile) ELSE libFile
  /\ owed' = [n \in Names |-> {libFile[n], Upgraded(libFile)[n]}]
  /\ stored' = storedFile /\ pol' = polFile
  /\ sheet' = NoSheet /\ import' = NoImport /\ reading' = NoReading
  /\ UNCHANGED <<storedFile, polFile, have>>

Next ==
  \/ \E ok \in BOOLEAN :
       \/ \E n \in Names : \E p \in Authored : Save(n, p, ok)
       \/ \E n \in Names : Delete(n, ok) \/ SaveSheet(n, ok) \/ ImportPattern(n, ok)
       \/ \E n \in Names \union BuiltinNames, tenths \in Stretches : SelectPattern(n, tenths, ok)
       \/ \E p \in Authored : PutSlot(p, ok)
       \/ \E p \in Radio : PutAdapterPattern(p, ok)
       \/ \E l \in Ladders : Sweep(l, ok)
       \/ \E l \in Ladders : TypeLadder(l, ok)
       \/ DeleteLadder(ok)
       \/ WriteAdapterPattern(ok) \/ ImportPatterns(ok) \/ ImportLadder(ok) \/ Restart(ok)
       \/ \E doc \in Documents, replace \in BOOLEAN : Import(doc, replace, ok)
  \/ \E a, b \in Names \union BuiltinNames, tenths \in Stretches : MergePreview(a, b, tenths)
  \/ ReadAdapterPattern
  \/ \E w \in ToSet(RadioOrder) : Swap(w)

Spec == Init /\ [][Next]_vars

-----------------------------------------------------------------------------
(* Properties. *)

\* What is in force in a source at t of a merge of length total, the source going round from
\* start to end at its own pace.
SourceAt(p, total, t) ==
  AtMoment(p, (t * Reps(total, DurSec(p)) * DurSec(p)) % (DurSec(p) * total), total)

\* How many of the events of a lane come before the end of a source of length d.
Due(lane, d) == Cardinality({i \in DOMAIN lane : lane[i].at < d})

\* What a merge shows plays, at every moment throughput can show, the first of its sources to
\* set each axis; and everything a source's timeline does is done once in each of its rounds
\* (MergePatterns).
SheetPlaysItsSources ==
  sheet # NoSheet =>
    LET total == DurSec(sheet.pattern)
        InForce(i, t) == SourceAt(sheet.of[i], total, t)
        Events(p) == Reps(total, DurSec(p)) * (Due(p.links, DurSec(p)) + Due(p.radios, DurSec(p)))
    IN /\ \A t \in {m * Half : m \in 0..((total \div Half) - 1)} : \A a \in Axes :
            LET seen == AtMoment(sheet.pattern, t, 1)[a] IN
            \/ seen = InForce(1, t)[a] /\ seen # 0
            \/ seen = InForce(2, t)[a] /\ InForce(1, t)[a] = 0
       /\ Len(sheet.pattern.links) + Len(sheet.pattern.radios) = Events(sheet.of[1]) + Events(sheet.of[2])

\* Under each name the memory and the disk hold what was acknowledged last or something tried
\* since, whichever writes failed and whenever the daemon was started again (save, ReplaceAll).
AccountedFor ==
  \A n \in Names : lib[n] \in owed[n] /\ libFile[n] \in owed[n]

\* Remapping the box's pattern keeps the lanes of different radios apart, leaves the lanes of
\* radios that are there alone, and orphans none while a radio is idle (reconcileAdapterPattern).
LanesStayApart ==
  reading # NoReading =>
    LET was == reading.from.radios  is == reading.to.radios IN
    /\ \A i, j \in DOMAIN was : (was[i].iface = was[j].iface) <=> (is[i].iface = is[j].iface)
    /\ \A i \in DOMAIN was : was[i].iface \in reading.have => is[i] = was[i]
    /\ OrphanedRadios(reading.to, reading.have) # {} => reading.have \subseteq PatternRadios(reading.to)
=============================================================================
