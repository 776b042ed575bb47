---------------------------- MODULE ActivityLog -----------------------------
(***************************************************************************)
(* What a page showing the activity log may take for granted (events.go,   *)
(* useEvents.ts): events appear once, in the order they were raised, and   *)
(* one is passed over only when Kept newer ones had been raised.  A daemon *)
(* that restarts begins again at 1; a page still showing the events of an  *)
(* earlier run is promised nothing until it shows none of them.            *)
(***************************************************************************)
EXTENDS Integers, FiniteSets

CONSTANT Kept    \* how many events a reader is sure to be given

VARIABLES
  run,     \* which life of the daemon this is
  logged,  \* how many events it has raised
  shown    \* the events on the page: the run and the number of each

logVars == <<run, logged, shown>>

Misled == \E e \in shown : e[1] # run
Newest == IF shown = {} THEN 0 ELSE CHOOSE n \in {e[2] : e \in shown} : \A e \in shown : e[2] <= n
Later(a, b) == IF a > b THEN a ELSE b

Init == run = 1 /\ logged = 0 /\ shown = {}

Raise == logged' = logged + 1 /\ UNCHANGED <<run, shown>>

Show == \E n \in Newest + 1..logged : \E first \in Newest + 1..Later(Newest + 1, n - Kept + 1) :
  /\ ~Misled
  /\ shown' = shown \cup {run} \X (first..n)
  /\ UNCHANGED <<run, logged>>

Restart == run' = run + 1 /\ logged' = 0 /\ UNCHANGED shown

ShowMisled == Misled /\ UNCHANGED <<run, logged>>

Next == Raise \/ Show \/ Restart \/ ShowMisled

Spec == Init /\ [][Next]_logVars
=============================================================================
