---------------------------- MODULE LibraryProofs ----------------------------
(***************************************************************************)
(* Theorems about the stores an operator's patterns, ladder and policy     *)
(* live in, for every set of names, patterns, ladders and documents, and   *)
(* any number of requests, failed writes and restarts: nothing is lost     *)
(* that was acknowledged; while every write succeeds the disk has what the *)
(* memory has; the box's own pattern follows its radios with its lanes     *)
(* kept apart, whatever it was merged, imported, renamed or upgraded from; *)
(* and a merge plays its sources, each at its own pace.                    *)
(***************************************************************************)
EXTENDS Library, FiniteSetTheorems, WellFoundedInduction, TLAPS

----------------------------------------------------------------------------
(* What a step does to the stores.                                         *)

\* Each store is left alone, written, or, when the daemon starts again, read back.
PatternStep(ok) ==
  \/ UNCHANGED patterns
  \/ \E next : WriteNames(next, ok)
  \/ /\ lib' = Upgraded(libFile)
     /\ libFile' = IF ok THEN Upgraded(libFile) ELSE libFile
     /\ owed' = [n \in Names |-> {libFile[n], Upgraded(libFile)[n]}]

LadderStep(ok) ==
  \/ UNCHANGED ladders
  \/ \E l, one : (ok => one) /\ PutLadder(l, one)
  \/ stored' = storedFile /\ UNCHANGED storedFile

PolicyStep(ok) ==
  \/ UNCHANGED policy
  \/ \E p, one : (ok => one) /\ PutPolicy(p, one)
  \/ pol' = polFile /\ UNCHANGED polFile

\* A write that fails is counted.
Counted(ok) ==
  /\ spent' \in [failures : Nat, requests : Nat]
  /\ spent'.failures = spent.failures + (IF ok THEN 0 ELSE 1)

StoreStep(ok) == PatternStep(ok) /\ LadderStep(ok) /\ PolicyStep(ok) /\ Counted(ok)

SpentOK == spent \in [failures : Nat, requests : Nat]

LEMMA Spending ==
  ASSUME SpentOK, NEW ok \in BOOLEAN, Write(ok) \/ Request(ok)
  PROVE  Counted(ok)
BY DEF SpentOK, Write, Request, Counted

LEMMA WritesAPattern ==
  ASSUME NEW n, NEW p, NEW ok \in BOOLEAN, PutPattern(n, p, ok)
  PROVE  PatternStep(ok)
BY DEF PutPattern, PatternStep

LEMMA WritesTheLadder ==
  ASSUME NEW l, NEW one, NEW ok \in BOOLEAN, ok => one, PutLadder(l, one)
  PROVE  LadderStep(ok)
BY DEF LadderStep

LEMMA WritesThePolicy ==
  ASSUME NEW p, NEW one, NEW ok \in BOOLEAN, ok => one, PutPolicy(p, one)
  PROVE  PolicyStep(ok)
BY DEF PolicyStep

LEMMA Idle ==
  ASSUME NEW ok \in BOOLEAN
  PROVE  /\ UNCHANGED patterns => PatternStep(ok)
         /\ UNCHANGED ladders => LadderStep(ok)
         /\ UNCHANGED policy => PolicyStep(ok)
BY DEF PatternStep, LadderStep, PolicyStep

LEMMA Steps == ASSUME SpentOK, Next PROVE \E ok \in BOOLEAN : StoreStep(ok)
<1> USE Spending, WritesAPattern, WritesTheLadder, WritesThePolicy, Idle DEF StoreStep
<1>1. ASSUME NEW ok \in BOOLEAN, NEW n \in Names, NEW p, Save(n, p, ok) PROVE StoreStep(ok)
  BY <1>1 DEF Save
<1>2. ASSUME NEW ok \in BOOLEAN, NEW n \in Names, SaveSheet(n, ok) PROVE StoreStep(ok)
  BY <1>1, <1>2 DEF SaveSheet
<1>3. ASSUME NEW ok \in BOOLEAN, NEW n \in Names, Delete(n, ok) PROVE StoreStep(ok)
  BY <1>3 DEF Delete
<1>4. ASSUME NEW ok \in BOOLEAN, NEW n, NEW tenths, SelectPattern(n, tenths, ok)
      PROVE  StoreStep(ok)
  <2>1. PutPolicy([pol EXCEPT !.slot = StretchPattern(Named(n), tenths)], ok)
    BY <1>4 DEF SelectPattern
  <2>2. Request(ok) /\ UNCHANGED patterns /\ UNCHANGED ladders
    BY <1>4 DEF SelectPattern
  <2> QED BY <2>1, <2>2
<1>5. ASSUME NEW ok \in BOOLEAN, NEW p, PutSlot(p, ok) PROVE StoreStep(ok)
  <2>1. PutPolicy([pol EXCEPT !.slot = NormalisePattern(p)], ok)
    BY <1>5 DEF PutSlot
  <2> QED BY <1>5, <2>1 DEF PutSlot
<1>6. ASSUME NEW ok \in BOOLEAN, NEW p, PutAdapterPattern(p, ok) PROVE StoreStep(ok)
  BY <1>6 DEF PutAdapterPattern
<1>7. ASSUME NEW ok \in BOOLEAN, NEW l, Sweep(l, ok) PROVE StoreStep(ok)
  <2>1. PICK one, other \in BOOLEAN :
          /\ ok = (one /\ other)
          /\ IF Walkable(l) THEN PutLadder(l, one) ELSE UNCHANGED ladders
          /\ PutPolicy([pol EXCEPT !.swept = l], other)
    BY <1>7 DEF Sweep
  <2>2. LadderStep(ok)
    BY <2>1
  <2>3. PolicyStep(ok)
    BY <2>1
  <2> QED BY <1>7, <2>2, <2>3 DEF Sweep
<1>8. ASSUME NEW ok \in BOOLEAN, NEW l, TypeLadder(l, ok) PROVE StoreStep(ok)
  <2>1. PutPolicy([pol EXCEPT !.swept = l], ok)
    BY <1>8 DEF TypeLadder
  <2> QED BY <1>8, <2>1 DEF TypeLadder
<1>9. ASSUME NEW ok \in BOOLEAN, DeleteLadder(ok) PROVE StoreStep(ok)
  <2>1. PutPolicy([pol EXCEPT !.swept = NoLadder], ok)
    BY <1>9 DEF DeleteLadder
  <2> QED BY <1>9, <2>1 DEF DeleteLadder
<1>10. ASSUME NEW ok \in BOOLEAN, WriteAdapterPattern(ok) PROVE StoreStep(ok)
  BY <1>10 DEF WriteAdapterPattern
<1>11. ASSUME NEW ok \in BOOLEAN, NEW doc, NEW replace, Import(doc, replace, ok)
       PROVE  StoreStep(ok)
  <2>1. PolicyStep(ok)
    BY <1>11 DEF Import
  <2>2. PatternStep(ok) /\ LadderStep(ok) /\ Counted(ok)
    BY <1>11 DEF Import
  <2> QED BY <2>1, <2>2
<1>12. ASSUME NEW ok \in BOOLEAN, ImportPatterns(ok) PROVE StoreStep(ok)
  <2>1. PatternStep(ok)
    BY <1>12 DEF ImportPatterns, ReplacePatterns, PatternStep
  <2> QED BY <1>12, <2>1 DEF ImportPatterns
<1>13. ASSUME NEW ok \in BOOLEAN, NEW n, ImportPattern(n, ok) PROVE StoreStep(ok)
  <2>1. PatternStep(ok)
    BY <1>13 DEF ImportPattern
  <2> QED BY <1>13, <2>1 DEF ImportPattern
<1>14. ASSUME NEW ok \in BOOLEAN, ImportLadder(ok) PROVE StoreStep(ok)
  <2>1. LadderStep(ok)
    BY <1>14 DEF ImportLadder
  <2> QED BY <1>14, <2>1 DEF ImportLadder
<1>15. ASSUME NEW ok \in BOOLEAN, Restart(ok) PROVE StoreStep(ok)
  BY <1>15 DEF Restart, PatternStep, LadderStep, PolicyStep
<1>16. ASSUME UNCHANGED <<patterns, ladders, policy>>, Request(TRUE) PROVE StoreStep(TRUE)
  BY <1>16
<1>17. CASE \/ \E a, b \in Names \union BuiltinNames, tenths \in Stretches : MergePreview(a, b, tenths)
            \/ ReadAdapterPattern
            \/ \E w \in ToSet(RadioOrder) : Swap(w)
  BY <1>16, <1>17 DEF MergePreview, ReadAdapterPattern, Swap
<1> QED BY <1>1, <1>2, <1>3, <1>4, <1>5, <1>6, <1>7, <1>8, <1>9, <1>10, <1>11, <1>12, <1>13, <1>14,
           <1>15, <1>17 DEF Next

----------------------------------------------------------------------------
(* Nothing acknowledged is lost.                                           *)

LEMMA WritesAreOwed ==
  ASSUME AccountedFor, NEW next, NEW ok \in BOOLEAN, WriteNames(next, ok)
  PROVE  AccountedFor'
<1>1. CASE ok
  BY <1>1 DEF WriteNames, AccountedFor
<1>2. CASE ~ok
  BY <1>2 DEF WriteNames, AccountedFor
<1> QED BY <1>1, <1>2

LEMMA AccountKept ==
  ASSUME AccountedFor, NEW ok \in BOOLEAN, PatternStep(ok)
  PROVE  AccountedFor'
<1>1. CASE UNCHANGED patterns
  BY <1>1 DEF patterns, AccountedFor
<1>2. CASE \E next : WriteNames(next, ok)
  BY <1>2, WritesAreOwed
<1>3. CASE /\ lib' = Upgraded(libFile)
           /\ libFile' = IF ok THEN Upgraded(libFile) ELSE libFile
           /\ owed' = [n \in Names |-> {libFile[n], Upgraded(libFile)[n]}]
  BY <1>3 DEF AccountedFor
<1> QED BY <1>1, <1>2, <1>3 DEF PatternStep

\* What is in the memory is on the disk, or is what the daemon would read from it.
Durable ==
  spent.failures = 0 =>
    /\ stored = storedFile /\ pol = polFile
    /\ \A n \in Names : lib[n] \in {libFile[n], Upgraded(libFile)[n]}

LEMMA DurableKept ==
  ASSUME Durable, SpentOK, NEW ok \in BOOLEAN, StoreStep(ok)
  PROVE  Durable'
<1>1. spent'.failures = 0 => spent.failures = 0 /\ ok
  BY DEF StoreStep, Counted, SpentOK
<1> SUFFICES ASSUME spent'.failures = 0
             PROVE  /\ stored' = storedFile' /\ pol' = polFile'
                    /\ \A n \in Names : lib'[n] \in {libFile'[n], Upgraded(libFile')[n]}
  BY DEF Durable, Upgraded
<1>2. stored' = storedFile'
  BY <1>1 DEF StoreStep, LadderStep, PutLadder, ladders, Durable
<1>3. pol' = polFile'
  BY <1>1 DEF StoreStep, PolicyStep, PutPolicy, policy, Durable
<1>4. CASE lib' = lib /\ libFile' = libFile
  BY <1>1, <1>2, <1>3, <1>4 DEF Durable
<1>5. CASE ~(lib' = lib /\ libFile' = libFile)
  <2>1. lib' = libFile'
    BY <1>1, <1>5 DEF StoreStep, PatternStep, WriteNames, patterns
  <2> QED BY <1>2, <1>3, <2>1
<1> QED BY <1>4, <1>5

Accounts == SpentOK /\ AccountedFor /\ Durable

LEMMA InitAccounts == Init => Accounts
<1> SUFFICES ASSUME Init PROVE Accounts
  OBVIOUS
<1>1. SpentOK
  <2>1. spent = [failures |-> 0, requests |-> 0]
    BY DEF Init
  <2> QED BY <2>1 DEF SpentOK
<1>2. AccountedFor
  <2>1. /\ libFile = OldFile /\ lib = Upgraded(OldFile)
        /\ owed = [n \in Names |-> {OldFile[n], Upgraded(OldFile)[n]}]
    BY DEF Init
  <2> QED BY <2>1 DEF AccountedFor
<1>3. Durable
  BY DEF Init, Durable
<1> QED BY <1>1, <1>2, <1>3 DEF Accounts

LEMMA NextAccounts == Accounts /\ [Next]_vars => Accounts'
<1> SUFFICES ASSUME Accounts, [Next]_vars PROVE Accounts'
  OBVIOUS
<1> USE DEF Accounts
<1>1. CASE Next
  <2>1. PICK ok \in BOOLEAN : StoreStep(ok)
    BY <1>1, Steps
  <2>2. SpentOK'
    BY <2>1 DEF StoreStep, Counted, SpentOK
  <2> QED BY <2>1, <2>2, AccountKept, DurableKept DEF StoreStep
<1>2. CASE UNCHANGED vars
  BY <1>2 DEF vars, SpentOK, AccountedFor, Durable, Upgraded
<1> QED BY <1>1, <1>2

LEMMA Accounted == Spec => []Accounts
BY InitAccounts, NextAccounts, PTL DEF Spec

----------------------------------------------------------------------------
(* Numbers.                                                                *)

\* A set of natural numbers has a least one.
LEMMA LeastNat ==
  ASSUME NEW T \in SUBSET Nat, T # {}
  PROVE  \E x \in T : \A y \in T : x <= y
<1> DEFINE Below == {0..x : x \in T}
<1>1. \A x \in Nat : IsFiniteSet(0..x) /\ 0..x \subseteq Nat
  BY FS_Interval
<1>2. Below \subseteq FiniteSubsetsOf(Nat) /\ Below # {}
  <2>1. ASSUME NEW U \in Below PROVE U \in FiniteSubsetsOf(Nat)
    <3>1. PICK x \in T : U = 0..x
      OBVIOUS
    <3>2. IsFiniteSet(U) /\ U \subseteq Nat
      BY <1>1, <3>1
    <3> QED BY <3>2 DEF FiniteSubsetsOf
  <2>2. Below # {}
    OBVIOUS
  <2> QED BY <2>1, <2>2
<1>3. PICK U \in Below : \A V \in Below : <<V, U>> \notin StrictSubsetOrdering(Nat)
  <2> HIDE DEF Below
  <2> QED BY <1>2, WFMin, FS_StrictSubsetOrderingWellFounded
<1>4. PICK x \in T : U = 0..x
  OBVIOUS
<1>5. ASSUME NEW y \in T, y < x PROVE FALSE
  <2>1. 0..y \in Below /\ 0..y \subseteq Nat /\ 0..x \subseteq Nat
    OBVIOUS
  <2>2. 0..y \subseteq 0..x /\ 0..y # 0..x
    <3>1. x \in 0..x /\ x \notin 0..y
      BY <1>5
    <3> QED BY <1>5, <3>1
  <2> HIDE DEF Below
  <2> QED BY <1>3, <1>4, <2>1, <2>2 DEF StrictSubsetOrdering
<1> QED BY <1>5

\* Of finitely many there is a best one.
LEMMA BestOf ==
  ASSUME NEW S, IsFiniteSet(S), S # {}, NEW W,
         \A s, t \in S : <<s, t>> \in W \/ <<t, s>> \in W,
         \A s, t, u \in S : <<s, t>> \in W /\ <<t, u>> \in W => <<s, u>> \in W
  PROVE  \E t \in S : \A s \in S : <<t, s>> \in W
<1> DEFINE Better(t) == {s \in S : <<s, t>> \in W}
           All == {Better(t) : t \in S}
<1>1. All \subseteq FiniteSubsetsOf(S) /\ All # {}
  <2>1. ASSUME NEW U \in All PROVE U \in FiniteSubsetsOf(S)
    <3>1. U \subseteq S
      OBVIOUS
    <3>2. IsFiniteSet(U)
      BY <3>1, FS_Subset
    <3> QED BY <3>1, <3>2 DEF FiniteSubsetsOf
  <2>2. All # {}
    <3>1. PICK t \in S : TRUE
      OBVIOUS
    <3>2. Better(t) \in All
      BY <3>1
    <3> QED BY <3>2
  <2> QED BY <2>1, <2>2
<1>2. PICK U \in All : \A V \in All : <<V, U>> \notin StrictSubsetOrdering(S)
  <2> HIDE DEF All
  <2> QED BY <1>1, WFMin, FS_StrictSubsetOrderingWellFounded
<1>3. PICK t \in S : U = Better(t)
  OBVIOUS
<1>4. ASSUME NEW s \in S, <<t, s>> \notin W PROVE FALSE
  <2>1. <<s, t>> \in W
    BY <1>4
  <2>2. Better(s) \subseteq Better(t)
    BY <2>1
  <2>3. t \in Better(t) /\ t \notin Better(s)
    BY <1>4
  <2>4. Better(s) \in All /\ Better(s) \subseteq S /\ Better(t) \subseteq S
    OBVIOUS
  <2> HIDE DEF All, Better
  <2> QED BY <1>2, <1>3, <2>2, <2>3, <2>4 DEF StrictSubsetOrdering
<1> QED BY <1>4

\* Products of natural numbers.
LEMMA Products ==
  ASSUME NEW a \in Nat, NEW b \in Nat
  PROVE  a * b \in Nat /\ (a > 0 /\ b > 0 => a * b > 0)
OBVIOUS

LEMMA CancelLess ==
  ASSUME NEW x \in Nat, NEW y \in Nat, NEW b \in Nat, b > 0, x * b <= y * b
  PROVE  x <= y
<1> SUFFICES ASSUME y + 1 <= x PROVE FALSE
  OBVIOUS
<1>1. PICK k \in Nat : x = y + 1 + k
  OBVIOUS
<1>2. x * b = y * b + b + k * b
  BY <1>1
<1>3. k * b \in Nat /\ x * b \in Nat /\ y * b \in Nat
  BY Products
<1> DEFINE xb == x * b
           yb == y * b
           kb == k * b
<1>4. xb = yb + b + kb /\ xb <= yb /\ xb \in Nat /\ yb \in Nat /\ kb \in Nat
  BY <1>2, <1>3
<1> HIDE DEF xb, yb, kb
<1> QED BY <1>4

LEMMA TimesLess ==
  ASSUME NEW x \in Nat, NEW y \in Nat, NEW b \in Nat, x <= y
  PROVE  x * b <= y * b
<1>1. PICK k \in Nat : y = x + k
  OBVIOUS
<1>2. y * b = x * b + k * b
  BY <1>1
<1>3. k * b \in Nat /\ x * b \in Nat
  BY Products
<1> QED BY <1>2, <1>3

LEMMA CrossProducts ==
  ASSUME NEW s \in Nat, NEW t \in Nat, NEW u \in Nat, NEW A \in Nat, NEW B \in Nat, NEW C \in Nat,
         B > 0, s * B <= t * A, t * C <= u * B
  PROVE  s * C <= u * A
<1>1. /\ s * B \in Nat /\ t * A \in Nat /\ t * C \in Nat /\ u * B \in Nat
      /\ s * C \in Nat /\ u * A \in Nat
  BY Products
<1>2. (s * B) * C <= (t * A) * C
  BY <1>1, TimesLess
<1>3. (t * C) * A <= (u * B) * A
  BY <1>1, TimesLess
<1>4. (t * A) * C = (t * C) * A /\ (s * B) * C = (s * C) * B /\ (u * B) * A = (u * A) * B
  OBVIOUS
<1>5. (s * C) * B \in Nat /\ (t * A) * C \in Nat /\ (u * A) * B \in Nat
  BY <1>1, Products
<1>6. (s * C) * B <= (u * A) * B
  BY <1>2, <1>3, <1>4, <1>5
<1> QED BY <1>1, <1>6, CancelLess

LEMMA RoundDivType ==
  ASSUME NEW m \in Nat, NEW e \in Nat \ {0}
  PROVE  RoundDiv(m, e) \in Nat
BY DEF RoundDiv

LEMMA LaidType ==
  ASSUME NEW total \in Nat, NEW n \in Nat \ {0}, NEW d \in Nat \ {0}, NEW r \in Nat, NEW at \in Nat
  PROVE  Laid(total, n, d, r, at) \in Nat
<1>1. r * d \in Nat /\ n * d \in Nat \ {0}
  BY Products
<1>2. (r * d + at) * total \in Nat
  BY <1>1, Products
<1> QED BY <1>1, <1>2, RoundDivType DEF Laid

\* A function on 1..n is a sequence of length n.
LEMMA FunctionIsSeq ==
  ASSUME NEW T, NEW n \in Nat, NEW f \in [1..n -> T]
  PROVE  f \in Seq(T) /\ Len(f) = n /\ DOMAIN f = 1..n
OBVIOUS

----------------------------------------------------------------------------
(* Ranks in a finite order, and the least first.                           *)

\* A strict order on S, total.
Orders(before, S) ==
  /\ \A v, w \in S : v # w => <<v, w>> \in before \/ <<w, v>> \in before
  /\ \A v \in S : <<v, v>> \notin before
  /\ \A u, v, w \in S : <<u, v>> \in before /\ <<v, w>> \in before => <<u, w>> \in before

\* How many members of S come before w.
RankIn(w, S, before) == Cardinality({v \in S : <<v, w>> \in before})

LEMMA RanksAscend ==
  ASSUME NEW S, IsFiniteSet(S), NEW before, Orders(before, S), NEW v \in S, NEW w \in S,
         <<v, w>> \in before
  PROVE  RankIn(v, S, before) < RankIn(w, S, before)
<1> DEFINE A == {u \in S : <<u, v>> \in before}
           B == {u \in S : <<u, w>> \in before}
<1>1. IsFiniteSet(B) /\ A \subseteq B /\ A # B
  <2>1. v \in B /\ v \notin A /\ A \subseteq B
    BY DEF Orders
  <2>2. IsFiniteSet(B)
    BY FS_Subset
  <2> QED BY <2>1, <2>2
<1> HIDE DEF A, B
<1>2. Cardinality(A) <= Cardinality(B) /\ Cardinality(A) # Cardinality(B)
  BY <1>1, FS_Subset
<1>3. Cardinality(A) \in Nat /\ Cardinality(B) \in Nat
  BY <1>1, FS_Subset, FS_CardinalityType
<1>4. Cardinality(A) < Cardinality(B)
  BY <1>2, <1>3
<1> QED BY <1>4 DEF A, B, RankIn

LEMMA RankBelow ==
  ASSUME NEW S, IsFiniteSet(S), NEW before, Orders(before, S), NEW w \in S
  PROVE  RankIn(w, S, before) \in 0..(Cardinality(S) - 1)
<1> DEFINE B == {u \in S : <<u, w>> \in before}
<1>1. B \subseteq S /\ B # S
  <2>1. w \notin B
    BY DEF Orders
  <2> QED BY <2>1
<1> HIDE DEF B
<1>2. Cardinality(B) \in Nat /\ Cardinality(S) \in Nat
  BY <1>1, FS_Subset, FS_CardinalityType
<1>3. Cardinality(B) <= Cardinality(S) /\ Cardinality(B) # Cardinality(S)
  BY <1>1, FS_Subset
<1>4. Cardinality(B) \in 0..(Cardinality(S) - 1)
  BY <1>2, <1>3
<1> QED BY <1>4 DEF B, RankIn

\* The members of a set are ranked from 0, each rank taken once.
Ranked(S, before) ==
  /\ \A v, w \in S : RankIn(v, S, before) = RankIn(w, S, before) => v = w
  /\ \A w \in S : RankIn(w, S, before) \in 0..(Cardinality(S) - 1)
  /\ \A k \in 0..(Cardinality(S) - 1) : \E w \in S : RankIn(w, S, before) = k

LEMMA Ranks ==
  ASSUME NEW S, IsFiniteSet(S), NEW before, Orders(before, S)
  PROVE  Ranked(S, before)
<1>1. \A w \in S : RankIn(w, S, before) \in 0..(Cardinality(S) - 1)
  BY RankBelow
<1>2. ASSUME NEW v \in S, NEW w \in S, RankIn(v, S, before) = RankIn(w, S, before), v # w
      PROVE  FALSE
  <2>1. RankIn(v, S, before) \in Nat /\ RankIn(w, S, before) \in Nat
    BY <1>1
  <2>2. <<v, w>> \in before \/ <<w, v>> \in before
    BY <1>2 DEF Orders
  <2> QED BY <1>2, <2>1, <2>2, RanksAscend
<1> DEFINE T == 0..(Cardinality(S) - 1)
           f == [w \in S |-> RankIn(w, S, before)]
<1>3. f \in Injection(S, T)
  <2>1. f \in [S -> T]
    BY <1>1
  <2>2. \A v, w \in S : f[v] = f[w] => v = w
    BY <1>2
  <2> HIDE DEF f, T
  <2> QED BY <2>1, <2>2 DEF Injection, IsInjective
<1>4. Cardinality(S) \in Nat
  BY FS_CardinalityType
<1>5. IsFiniteSet(T) /\ Cardinality(T) = Cardinality(S)
  BY <1>4, FS_Interval
<1>6. f \in Surjection(S, T)
  <2> HIDE DEF f, T
  <2> QED BY <1>3, <1>5, FS_Injection
<1>7. \A k \in T : \E w \in S : f[w] = k
  <2> HIDE DEF f, T
  <2> QED BY <1>6 DEF Surjection
<1> QED BY <1>1, <1>2, <1>7 DEF Ranked

Smaller == {p \in Nat \X Nat : p[1] < p[2]}

\* Ascending lists what is in the set.
LEMMA AscendingPicks ==
  ASSUME NEW S, S \subseteq Nat, IsFiniteSet(S)
  PROVE  /\ Cardinality(S) \in Nat
         /\ Ascending(S) \in [1..Cardinality(S) -> S]
<1>1. Orders(Smaller, S)
  BY DEF Orders, Smaller
<1>2. ASSUME NEW w \in S
      PROVE  RankIn(w, S, Smaller) = Cardinality({s \in S : s < w})
  <2>1. {v \in S : <<v, w>> \in Smaller} = {s \in S : s < w}
    BY DEF Smaller
  <2> QED BY <2>1 DEF RankIn
<1>3. Cardinality(S) \in Nat
  BY FS_CardinalityType
<1>5. Ranked(S, Smaller)
  BY <1>1, Ranks
<1>4. ASSUME NEW k \in 1..Cardinality(S)
      PROVE  (CHOOSE t \in S : Cardinality({s \in S : s < t}) = k - 1) \in S
  <2>1. k - 1 \in 0..(Cardinality(S) - 1)
    BY <1>3
  <2>2. PICK w \in S : RankIn(w, S, Smaller) = k - 1
    BY <1>5, <2>1 DEF Ranked
  <2>3. Cardinality({s \in S : s < w}) = k - 1
    BY <1>2, <2>2
  <2> QED BY <2>3
<1> QED BY <1>3, <1>4 DEF Ascending

\* The radios, by name.
ByName == {p \in ToSet(RadioOrder) \X ToSet(RadioOrder) :
             \E i, j \in DOMAIN RadioOrder : i < j /\ RadioOrder[i] = p[1] /\ RadioOrder[j] = p[2]}

LEMMA RadiosAreFew == IsFiniteSet(ToSet(RadioOrder))
<1>1. RadioOrder \in Seq(STRING)
  BY LibraryAssumption
<1>2. Len(RadioOrder) \in Nat /\ DOMAIN RadioOrder = 1..Len(RadioOrder)
  BY <1>1
<1>3. IsFiniteSet(1..Len(RadioOrder))
  BY <1>2, FS_Interval
<1> DEFINE f == [i \in DOMAIN RadioOrder |-> RadioOrder[i]]
<1>4. f \in Surjection(DOMAIN RadioOrder, ToSet(RadioOrder))
  BY DEF Surjection, ToSet
<1> HIDE DEF f
<1> QED BY <1>2, <1>3, <1>4, FS_Surjection

LEMMA NamesAreOrdered ==
  ASSUME NEW S \in SUBSET ToSet(RadioOrder)
  PROVE  Orders(ByName, S)
<1>1. RadioOrder \in Seq(STRING)
  BY LibraryAssumption
<1>2. DOMAIN RadioOrder \subseteq Nat
  BY <1>1
<1>3. \A i, j \in DOMAIN RadioOrder : RadioOrder[i] = RadioOrder[j] => i = j
  BY LibraryAssumption
<1>4. \A w \in S : \E i \in DOMAIN RadioOrder : RadioOrder[i] = w
  BY DEF ToSet
<1>5. \A i, j \in DOMAIN RadioOrder :
        RadioOrder[i] \in S /\ RadioOrder[j] \in S =>
          (<<RadioOrder[i], RadioOrder[j]>> \in ByName <=> i < j)
  BY <1>3 DEF ByName
<1>6. \A v, w \in S : v # w => <<v, w>> \in ByName \/ <<w, v>> \in ByName
  <2> TAKE v \in S, w \in S
  <2>1. PICK i \in DOMAIN RadioOrder : RadioOrder[i] = v
    BY <1>4
  <2>2. PICK j \in DOMAIN RadioOrder : RadioOrder[j] = w
    BY <1>4
  <2>3. v # w => i < j \/ j < i
    BY <1>2, <2>1, <2>2
  <2> QED BY <1>5, <2>1, <2>2, <2>3
<1>7. \A v \in S : <<v, v>> \notin ByName
  <2> TAKE v \in S
  <2>1. PICK i \in DOMAIN RadioOrder : RadioOrder[i] = v
    BY <1>4
  <2>2. ~(i < i)
    BY <1>2
  <2> QED BY <1>5, <2>1, <2>2
<1>8. \A u, v, w \in S : <<u, v>> \in ByName /\ <<v, w>> \in ByName => <<u, w>> \in ByName
  <2> TAKE u \in S, v \in S, w \in S
  <2>1. PICK h \in DOMAIN RadioOrder : RadioOrder[h] = u
    BY <1>4
  <2>2. PICK i \in DOMAIN RadioOrder : RadioOrder[i] = v
    BY <1>4
  <2>3. PICK j \in DOMAIN RadioOrder : RadioOrder[j] = w
    BY <1>4
  <2>4. h < i /\ i < j => h < j
    BY <1>2
  <2> QED BY <1>5, <2>1, <2>2, <2>3, <2>4
<1> QED BY <1>6, <1>7, <1>8 DEF Orders

LEMMA PlacesAreRanks ==
  ASSUME NEW S \in SUBSET ToSet(RadioOrder), NEW w \in S
  PROVE  Place(w, S, RadioOrder) = RankIn(w, S, ByName)
<1>1. {v \in S : \E i, j \in DOMAIN RadioOrder : i < j /\ RadioOrder[i] = v /\ RadioOrder[j] = w}
        = {v \in S : <<v, w>> \in ByName}
  BY DEF ByName
<1> QED BY <1>1 DEF Place, RankIn

\* Of any radios, each has its own place, and the places are filled from the first.
LEMMA Places ==
  ASSUME NEW S \in SUBSET ToSet(RadioOrder)
  PROVE  /\ Cardinality(S) \in Nat
         /\ \A v, w \in S : Place(v, S, RadioOrder) = Place(w, S, RadioOrder) => v = w
         /\ \A w \in S : Place(w, S, RadioOrder) \in 0..(Cardinality(S) - 1)
         /\ \A k \in 0..(Cardinality(S) - 1) : \E w \in S : Place(w, S, RadioOrder) = k
<1>1. IsFiniteSet(S)
  BY RadiosAreFew, FS_Subset
<1>2. Orders(ByName, S)
  BY NamesAreOrdered
<1>3. \A w \in S : Place(w, S, RadioOrder) = RankIn(w, S, ByName)
  BY PlacesAreRanks
<1>4. Cardinality(S) \in Nat
  BY <1>1, FS_CardinalityType
<1>5. Ranked(S, ByName)
  BY <1>1, <1>2, Ranks
<1> QED BY <1>3, <1>4, <1>5 DEF Ranked

----------------------------------------------------------------------------
(* The heirs of radios that are gone.                                      *)

\* Each spare radio is the heir of at most one, and if any is left without, of exactly one.
HeirsFit(gone, spare, H) ==
  /\ \A w \in ToSet(RadioOrder) : H[w] = w \/ (w \in gone /\ H[w] \in spare)
  /\ \A v, w \in gone : H[v] = H[w] /\ H[w] \in spare /\ H[v] \in spare => v = w
  /\ \A w \in gone, v \in spare : H[w] \notin spare => \E u \in gone : H[u] = v

LEMMA Heirs ==
  ASSUME NEW gone \in SUBSET ToSet(RadioOrder), NEW spare \in SUBSET ToSet(RadioOrder),
         gone \cap spare = {}, NEW H, H = [w \in ToSet(RadioOrder) |-> Heir(w, gone, spare, RadioOrder)]
  PROVE  HeirsFit(gone, spare, H)
<1> DEFINE R == ToSet(RadioOrder)
           Same(w) == {v \in spare : Place(v, spare, RadioOrder) = Place(w, gone, RadioOrder)}
<1>1. \A w \in R : /\ w \in gone /\ Same(w) # {} => H[w] \in Same(w)
                   /\ ~(w \in gone /\ Same(w) # {}) => H[w] = w
  BY DEF Heir
<1>2. /\ \A v, w \in gone : Place(v, gone, RadioOrder) = Place(w, gone, RadioOrder) => v = w
      /\ \A w \in gone : Place(w, gone, RadioOrder) \in 0..(Cardinality(gone) - 1)
      /\ \A k \in 0..(Cardinality(gone) - 1) : \E w \in gone : Place(w, gone, RadioOrder) = k
      /\ Cardinality(gone) \in Nat
  BY Places
<1>3. /\ \A v, w \in spare : Place(v, spare, RadioOrder) = Place(w, spare, RadioOrder) => v = w
      /\ \A w \in spare : Place(w, spare, RadioOrder) \in 0..(Cardinality(spare) - 1)
      /\ \A k \in 0..(Cardinality(spare) - 1) : \E w \in spare : Place(w, spare, RadioOrder) = k
      /\ Cardinality(spare) \in Nat
  BY Places
<1>4. \A w \in R : H[w] = w \/ (w \in gone /\ H[w] \in spare)
  BY <1>1
<1>5. ASSUME NEW v \in gone, NEW w \in gone, H[v] = H[w], H[w] \in spare, H[v] \in spare
      PROVE  v = w
  <2>1. H[v] \in Same(v) /\ H[w] \in Same(w)
    BY <1>1, <1>5
  <2> QED BY <1>2, <1>5, <2>1
<1>6. ASSUME NEW w \in gone, NEW v \in spare, H[w] \notin spare
      PROVE  \E u \in gone : H[u] = v
  <2>1. Same(w) = {}
    BY <1>1, <1>6
  <2>2. Place(w, gone, RadioOrder) \notin 0..(Cardinality(spare) - 1)
    BY <1>3, <2>1
  <2>3. Place(v, spare, RadioOrder) \in 0..(Cardinality(gone) - 1)
    BY <1>2, <1>3, <2>2
  <2>4. PICK u \in gone : Place(u, gone, RadioOrder) = Place(v, spare, RadioOrder)
    BY <1>2, <2>3
  <2>5. H[u] \in Same(u)
    BY <1>1, <2>4
  <2> QED BY <1>3, <2>4, <2>5
<1> QED BY <1>4, <1>5, <1>6 DEF HeirsFit

----------------------------------------------------------------------------
(* Patterns, as far as their lanes go.                                     *)

\* Kinds of events, old names included, and the events of a radio's lane.
AnyKind == LinkKinds \union RadioKinds \union DOMAIN CurrentName
AnyEvent == [iface : ToSet(RadioOrder), kind : AnyKind, at : Nat, dur : Nat]

\* A keyframe has a time; nothing is said here of its shape.
KeyOK(k) == k = [at |-> k.at, shape |-> k.shape] /\ k.at \in Nat
KeysOK(keys) == \E S : keys \in Seq(S) /\ \A k \in S : KeyOK(k)

\* A pattern: keyframes with times, link events of any sort, lanes of known radios.
Shaped(p) ==
  /\ p = [keys |-> p.keys, links |-> p.links, radios |-> p.radios]
  /\ KeysOK(p.keys) /\ p.radios \in Seq(AnyEvent)

\* Each radio's heir when p is remapped to the radios that are here.
HeirsOf(p, here) ==
  [w \in ToSet(RadioOrder) |-> Heir(w, OrphanedRadios(p, here), here \ PatternRadios(p), RadioOrder)]

LEMMA RadiosOfLanes ==
  ASSUME NEW p, p.radios \in Seq(AnyEvent)
  PROVE  PatternRadios(p) \subseteq ToSet(RadioOrder)
<1>1. \A i \in DOMAIN p.radios : p.radios[i] \in AnyEvent
  OBVIOUS
<1> QED BY <1>1 DEF PatternRadios, AnyEvent

\* Remapping a pattern changes the radio of each event, and nothing else.
LEMMA Remapped ==
  ASSUME NEW p, Shaped(p), NEW here \in SUBSET ToSet(RadioOrder)
  PROVE  LET q == Reconciled(p, here, RadioOrder)  H == HeirsOf(p, here) IN
         /\ q.keys = p.keys
         /\ q = [keys |-> q.keys, links |-> q.links, radios |-> q.radios]
         /\ q.radios \in Seq(AnyEvent) /\ DOMAIN q.radios = DOMAIN p.radios
         /\ \A i \in DOMAIN p.radios :
              /\ q.radios[i].iface = H[p.radios[i].iface]
              /\ H[p.radios[i].iface] = p.radios[i].iface => q.radios[i] = p.radios[i]
<1> DEFINE q == Reconciled(p, here, RadioOrder)  H == HeirsOf(p, here)
           lane == [i \in DOMAIN p.radios |-> [p.radios[i] EXCEPT !.iface = H[p.radios[i].iface]]]
<1>1. \A i \in DOMAIN p.radios : p.radios[i] \in AnyEvent
  BY DEF Shaped
<1>2. \A i \in DOMAIN p.radios :
        Heir(p.radios[i].iface, OrphanedRadios(p, here), here \ PatternRadios(p), RadioOrder)
          = H[p.radios[i].iface]
  BY <1>1 DEF HeirsOf, AnyEvent
<1>3. q = [p EXCEPT !.radios = lane]
  <2>1. HandedOn(p.radios, OrphanedRadios(p, here), here \ PatternRadios(p), RadioOrder) = lane
    BY <1>2 DEF HandedOn
  <2> QED BY <2>1 DEF Reconciled
<1>4. /\ q.keys = p.keys /\ q.radios = lane
      /\ q = [keys |-> q.keys, links |-> q.links, radios |-> q.radios]
  BY <1>3 DEF Shaped
<1>5. \A w \in ToSet(RadioOrder) : H[w] \in ToSet(RadioOrder)
  BY DEF Heir, HeirsOf
<1>6. \A e \in AnyEvent, w \in ToSet(RadioOrder) :
        /\ [e EXCEPT !.iface = w] \in AnyEvent /\ [e EXCEPT !.iface = w].iface = w
        /\ w = e.iface => [e EXCEPT !.iface = w] = e
  BY DEF AnyEvent
<1>7. \A e \in AnyEvent : e.iface \in ToSet(RadioOrder)
  BY DEF AnyEvent
<1>8. \A i \in DOMAIN p.radios :
        /\ lane[i] \in AnyEvent /\ lane[i].iface = H[p.radios[i].iface]
        /\ H[p.radios[i].iface] = p.radios[i].iface => lane[i] = p.radios[i]
  BY <1>1, <1>5, <1>6, <1>7
<1>9. lane \in Seq(AnyEvent) /\ DOMAIN lane = DOMAIN p.radios
  <2>1. DOMAIN p.radios = 1..Len(p.radios) /\ Len(p.radios) \in Nat
    BY DEF Shaped
  <2>2. \A i \in 1..Len(p.radios) : lane[i] \in AnyEvent
    BY <1>8, <2>1
  <2>3. lane \in [1..Len(p.radios) -> AnyEvent]
    BY <2>1, <2>2
  <2> HIDE DEF lane
  <2>4. lane \in Seq(AnyEvent)
    BY <2>1, <2>3
  <2> QED BY <2>1, <2>3, <2>4
<1> HIDE DEF q, H, lane
<1>10. /\ q.keys = p.keys
       /\ q = [keys |-> q.keys, links |-> q.links, radios |-> q.radios]
       /\ q.radios \in Seq(AnyEvent) /\ DOMAIN q.radios = DOMAIN p.radios
       /\ \A i \in DOMAIN p.radios :
              /\ q.radios[i].iface = H[p.radios[i].iface]
              /\ H[p.radios[i].iface] = p.radios[i].iface => q.radios[i] = p.radios[i]
  BY <1>4, <1>8, <1>9
<1> QED BY <1>10 DEF q, H

\* What LanesStayApart says of a remapping, and that it leaves a pattern.
LEMMA RemappedLanes ==
  ASSUME NEW p, Shaped(p), NEW here \in SUBSET ToSet(RadioOrder),
         NEW q, q = Reconciled(p, here, RadioOrder)
  PROVE  /\ Shaped(q)
         /\ \A i, j \in DOMAIN p.radios :
              (p.radios[i].iface = p.radios[j].iface) <=> (q.radios[i].iface = q.radios[j].iface)
         /\ \A i \in DOMAIN p.radios : p.radios[i].iface \in here => q.radios[i] = p.radios[i]
         /\ OrphanedRadios(q, here) # {} => here \subseteq PatternRadios(q)
<1> DEFINE gone == OrphanedRadios(p, here)
           spare == here \ PatternRadios(p)
           R == ToSet(RadioOrder)
           H == HeirsOf(p, here)
<1>1. /\ q.keys = p.keys
      /\ q = [keys |-> q.keys, links |-> q.links, radios |-> q.radios]
      /\ q.radios \in Seq(AnyEvent) /\ DOMAIN q.radios = DOMAIN p.radios
      /\ \A i \in DOMAIN p.radios :
           /\ q.radios[i].iface = H[p.radios[i].iface]
           /\ H[p.radios[i].iface] = p.radios[i].iface => q.radios[i] = p.radios[i]
  BY Remapped
<1>2. PatternRadios(p) \subseteq R
  BY RadiosOfLanes DEF Shaped
<1>3. /\ gone \subseteq R /\ spare \subseteq R /\ gone \cap spare = {}
      /\ gone = PatternRadios(p) \ here
  BY <1>2 DEF OrphanedRadios
<1>4. H = [w \in R |-> Heir(w, gone, spare, RadioOrder)]
  BY DEF HeirsOf
<1> HIDE DEF H, gone
<1>5. /\ \A w \in R : H[w] = w \/ (w \in gone /\ H[w] \in spare)
      /\ \A v, w \in gone : H[v] = H[w] /\ H[w] \in spare /\ H[v] \in spare => v = w
      /\ \A w \in gone, v \in spare : H[w] \notin spare => \E u \in gone : H[u] = v
  <2>1. gone \in SUBSET ToSet(RadioOrder) /\ spare \in SUBSET ToSet(RadioOrder)
    BY <1>3
  <2> HIDE DEF spare
  <2>2. HeirsFit(gone, spare, H)
    BY <1>3, <1>4, <2>1, Heirs
  <2> QED BY <2>2 DEF HeirsFit
<1>6. \A i \in DOMAIN p.radios : p.radios[i].iface \in PatternRadios(p)
  BY DEF PatternRadios
<1>7. \A w \in PatternRadios(p) : \E i \in DOMAIN p.radios : p.radios[i].iface = w
  BY DEF PatternRadios
<1>8. \A w \in PatternRadios(q) : \E v \in PatternRadios(p) : w = H[v]
  BY <1>1, <1>6 DEF PatternRadios
<1>9. \A v \in PatternRadios(p) : H[v] \in PatternRadios(q)
  BY <1>1, <1>7 DEF PatternRadios
<1>10. Shaped(q)
  BY <1>1 DEF Shaped
<1>11. \A v, w \in PatternRadios(p) : v = w <=> H[v] = H[w]
  <2> SUFFICES ASSUME NEW v \in PatternRadios(p), NEW w \in PatternRadios(p), H[v] = H[w]
               PROVE  v = w
    OBVIOUS
  <2>1. (H[v] = v \/ (v \in gone /\ H[v] \in spare)) /\ (H[w] = w \/ (w \in gone /\ H[w] \in spare))
    BY <1>2, <1>5
  <2>2. v \notin spare /\ w \notin spare
    OBVIOUS
  <2> HIDE DEF spare
  <2>3. CASE H[v] = v
    BY <2>1, <2>2, <2>3
  <2>4. CASE H[w] = w
    BY <2>1, <2>2, <2>4
  <2>5. CASE v \in gone /\ H[v] \in spare /\ w \in gone /\ H[w] \in spare
    BY <1>5, <2>5
  <2> QED BY <2>1, <2>3, <2>4, <2>5
<1>12. \A i, j \in DOMAIN p.radios :
         (p.radios[i].iface = p.radios[j].iface) <=> (q.radios[i].iface = q.radios[j].iface)
  BY <1>1, <1>6, <1>11
<1>13. \A i \in DOMAIN p.radios : p.radios[i].iface \in here => q.radios[i] = p.radios[i]
  BY <1>1, <1>2, <1>3, <1>5, <1>6
<1>14. ASSUME NEW w \in OrphanedRadios(q, here), NEW v \in here
       PROVE  v \in PatternRadios(q)
  <2>1. PICK u \in PatternRadios(p) : w = H[u]
    BY <1>8 DEF OrphanedRadios
  <2>2. w \notin here
    BY DEF OrphanedRadios
  <2>3. u \in gone /\ H[u] \notin spare
    BY <1>2, <1>3, <1>5, <2>1, <2>2
  <2>4. CASE v \in PatternRadios(p)
    BY <1>2, <1>3, <1>5, <1>9, <2>4
  <2>5. CASE v \in spare
    BY <1>3, <1>5, <1>9, <2>3, <2>5
  <2> QED BY <2>4, <2>5
<1> QED BY <1>10, <1>12, <1>13, <1>14

----------------------------------------------------------------------------
(* The length of a merge.                                                  *)

LEMMA RepsType ==
  ASSUME NEW t \in Nat, NEW d \in Nat \ {0}
  PROVE  Reps(t, d) \in Nat \ {0}
BY DEF Reps

\* Two patterns that have a length.
Two(durs) ==
  DOMAIN durs = {1, 2} /\ durs[1] \in Nat \ {0} /\ durs[2] \in Nat \ {0}

\* k whole parts of e go into m.
LEMMA DivTimes ==
  ASSUME NEW m \in Nat, NEW e \in Nat \ {0}, NEW k \in Nat, k <= m \div e
  PROVE  k * e <= m
<1> DEFINE q == m \div e
<1>1. q \in Nat /\ q * e <= m /\ q * e \in Nat
  BY Products
<1> HIDE DEF q
<1>2. k * e <= q * e /\ k * e \in Nat
  BY <1>1, TimesLess, Products DEF q
<1> QED BY <1>1, <1>2

\* Lengths to choose from: finitely many, the longest source's own among them.
LEMMA Lengths ==
  ASSUME NEW durs, Two(durs)
  PROVE  /\ MergeLengths(durs) \subseteq Nat
         /\ IsFiniteSet(MergeLengths(durs)) /\ MergeLengths(durs) # {}
<1> DEFINE longest == Max(ToSet(durs))
           Some(d) == {k * d : k \in 1..((3 * longest) \div (2 * d))}
           Top == (3 * longest) \div 2
<1>1. ToSet(durs) = {durs[1], durs[2]}
  BY DEF Two, ToSet
<1>2. longest \in ToSet(durs) /\ \A d \in ToSet(durs) : longest >= d
  <2>1. \E x \in ToSet(durs) : \A y \in ToSet(durs) : x >= y
    BY <1>1 DEF Two
  <2> QED BY <2>1 DEF Max
<1>3. longest \in Nat \ {0}
  BY <1>1, <1>2 DEF Two
<1> HIDE DEF longest
<1>4. ASSUME NEW d \in ToSet(durs), NEW k \in 1..((3 * longest) \div (2 * d))
          PROVE  k * d \in 0..(3 * longest)
  <2>1. d \in Nat \ {0}
    BY <1>1 DEF Two
  <2>2. (3 * longest) \div (2 * d) \in Nat
    BY <1>3, <2>1
  <2>3. k \in Nat /\ k <= (3 * longest) \div (2 * d)
    BY <2>2
  <2>4. k * (2 * d) <= 3 * longest
    BY <1>3, <2>1, <2>3, DivTimes
  <2>5. k * d \in Nat /\ k * (2 * d) = 2 * (k * d)
    BY <2>1, <2>3, Products
  <2> QED BY <1>3, <2>4, <2>5
<1>5. longest \in Some(longest)
  <2>1. (3 * longest) \div (2 * longest) >= 1 /\ (3 * longest) \div (2 * longest) \in Nat
    BY <1>3
  <2>2. 1 \in 1..((3 * longest) \div (2 * longest)) /\ longest = 1 * longest
    BY <1>3, <2>1
  <2> QED BY <2>2
<1>6. MergeLengths(durs) = {t \in UNION {Some(d) : d \in ToSet(durs)} : t >= longest}
  BY DEF MergeLengths, longest
<1>7. MergeLengths(durs) \subseteq 0..(3 * longest)
  BY <1>4, <1>6
<1>8. IsFiniteSet(0..(3 * longest)) /\ 0..(3 * longest) \subseteq Nat
  BY <1>3, FS_Interval
<1>9. longest \in MergeLengths(durs)
  BY <1>2, <1>3, <1>5, <1>6
<1> QED BY <1>7, <1>8, <1>9, FS_Subset

\* The time the i-th source takes, unstretched, for its rounds in a merge of length t.
Span(durs, t, i) == Reps(t, durs[i]) * durs[i]

LEMMA Spans ==
  ASSUME NEW durs, Two(durs), NEW t \in Nat, NEW i \in {1, 2}
  PROVE  Span(durs, t, i) \in Nat /\ Span(durs, t, i) > 0
<1>1. durs[i] \in Nat \ {0}
  BY DEF Two
<1>2. Reps(t, durs[i]) \in Nat \ {0}
  BY <1>1, RepsType
<1> QED BY <1>1, <1>2, Products DEF Span

\* NoWorse compares s and t by fractions, ...
LEMMA NoWorseIs ==
  ASSUME NEW durs, Two(durs), NEW s \in Nat, NEW t \in Nat
  PROVE  NoWorse(durs, s, t) <=>
           \A i \in {1, 2} : \E j \in {1, 2} : s * Span(durs, t, j) <= t * Span(durs, s, i)
<1>1. \A r \in Nat, i \in {1, 2} : Reps(r, durs[i]) \in Nat /\ durs[i] \in Nat
  BY RepsType DEF Two
<1>2. \A r, q \in Nat, i \in {1, 2} : q * Reps(r, durs[i]) * durs[i] = q * Span(durs, r, i)
  <2> TAKE r \in Nat, q \in Nat, i \in {1, 2}
  <2> DEFINE a == Reps(r, durs[i])  b == durs[i]
  <2>1. a \in Nat /\ b \in Nat
    BY <1>1
  <2> HIDE DEF a, b
  <2>2. q * a * b = q * (a * b)
    BY <2>1
  <2> QED BY <2>2 DEF a, b, Span
<1>3. NoWorse(durs, s, t) <=>
        \A i \in {1, 2} : \E j \in {1, 2} :
          s * Reps(t, durs[j]) * durs[j] <= t * Reps(s, durs[i]) * durs[i]
  BY DEF NoWorse, Two
<1> QED BY <1>2, <1>3

\* ... so of any two lengths one is no worse, ...
LEMMA Prefers ==
  ASSUME NEW durs, Two(durs), NEW s \in Nat, NEW t \in Nat
  PROVE  NoWorse(durs, s, t) \/ NoWorse(durs, t, s)
<1> DEFINE X(i) == t * Span(durs, s, i)
           Y(j) == s * Span(durs, t, j)
<1>1. \A i \in {1, 2} : X(i) \in Nat /\ Y(i) \in Nat
  BY Spans, Products
<1>2. NoWorse(durs, s, t) <=> \A i \in {1, 2} : \E j \in {1, 2} : Y(j) <= X(i)
  BY NoWorseIs
<1>3. NoWorse(durs, t, s) <=> \A j \in {1, 2} : \E i \in {1, 2} : X(i) <= Y(j)
  BY NoWorseIs
<1> HIDE DEF X, Y
<1> QED BY <1>1, <1>2, <1>3

\* ... and no worse than what is no worse is no worse.
LEMMA PrefersOn ==
  ASSUME NEW durs, Two(durs), NEW s \in Nat, NEW t \in Nat, NEW u \in Nat,
         NoWorse(durs, s, t), NoWorse(durs, t, u)
  PROVE  NoWorse(durs, s, u)
<1> SUFFICES ASSUME NEW i \in {1, 2}
             PROVE  \E k \in {1, 2} : s * Span(durs, u, k) <= u * Span(durs, s, i)
  BY NoWorseIs
<1>1. PICK j \in {1, 2} : s * Span(durs, t, j) <= t * Span(durs, s, i)
  BY NoWorseIs
<1>2. PICK k \in {1, 2} : t * Span(durs, u, k) <= u * Span(durs, t, j)
  BY NoWorseIs
<1>3. /\ Span(durs, s, i) \in Nat /\ Span(durs, t, j) \in Nat /\ Span(durs, t, j) > 0
      /\ Span(durs, u, k) \in Nat
  BY Spans
<1>4. s * Span(durs, u, k) <= u * Span(durs, s, i)
  BY <1>1, <1>2, <1>3, CrossProducts
<1> QED BY <1>4

\* So there is a best length, and a shortest of the best: the choice is of something.
LEMMA MergeHasALength ==
  ASSUME NEW durs, Two(durs)
  PROVE  MergeLength(durs) \in MergeLengths(durs) /\ MergeLength(durs) \in Nat
<1> DEFINE S == MergeLengths(durs)
           W == {p \in S \X S : NoWorse(durs, p[1], p[2])}
           Best == {t \in S : \A s \in S : NoWorse(durs, t, s)}
<1>1. S \subseteq Nat /\ IsFiniteSet(S) /\ S # {}
  BY Lengths
<1> HIDE DEF S
<1>2. \A s, t \in S : <<s, t>> \in W \/ <<t, s>> \in W
  BY <1>1, Prefers
<1>3. \A s, t, u \in S : <<s, t>> \in W /\ <<t, u>> \in W => <<s, u>> \in W
  BY <1>1, PrefersOn
<1>4. \E t \in S : \A s \in S : <<t, s>> \in W
  <2> HIDE DEF W
  <2> QED BY <1>1, <1>2, <1>3, BestOf
<1>5. Best # {} /\ Best \in SUBSET Nat
  BY <1>1, <1>4
<1>6. PICK t \in Best : \A s \in Best : t <= s
  <2> HIDE DEF Best
  <2> QED BY <1>5, LeastNat
<1>7. \A s \in S : NoWorse(durs, t, s) /\ (NoWorse(durs, s, t) => t <= s)
  <2> TAKE s \in S
  <2>1. NoWorse(durs, s, t) => s \in Best
    BY <1>3, <1>6
  <2> QED BY <1>6, <2>1
<1>8. \E x \in S : \A s \in S : NoWorse(durs, x, s) /\ (NoWorse(durs, s, x) => x <= s)
  BY <1>6, <1>7
<1>9. MergeLength(durs) \in S
  BY <1>8 DEF MergeLength, S
<1> QED BY <1>1, <1>9 DEF S

----------------------------------------------------------------------------
(* What is done to patterns leaves patterns.                               *)

LEMMA WithinLane ==
  ASSUME NEW n \in Nat, NEW k \in Nat, NEW i \in 1..(n * k)
  PROVE  ((i - 1) % k) + 1 \in 1..k /\ (i - 1) \div k \in Nat
<1>1. n * k \in Nat
  BY Products
<1>2. k # 0
  <2>1. k = 0 => n * k = 0
    OBVIOUS
  <2> QED BY <1>1, <2>1
<1>3. i - 1 \in Nat /\ k \in Nat \ {0}
  BY <1>1, <1>2
<1> QED BY <1>3

AnyLink == [kind : AnyKind, at : Nat, dur : Nat]

\* An event that a merge can lay in time.
Timed(E) ==
  /\ \A e \in E : e.at \in Nat /\ e.dur \in Nat
  /\ \A e \in E, x \in Nat, y \in Nat :
       [e EXCEPT !.at = x, !.dur = y] \in E /\ [e EXCEPT !.at = x, !.dur = y].at = x

LEMMA LanesAreTimed == Timed(AnyEvent) /\ Timed(AnyLink)
<1>1. Timed(AnyEvent)
  BY DEF Timed, AnyEvent
<1>2. Timed(AnyLink)
  BY DEF Timed, AnyLink
<1> QED BY <1>1, <1>2

\* Where the repetitions of a lane go, and how many are kept.
KeptOf(lane, total, d) ==
  LET n == Reps(total, d)  k == Len(lane) IN
  {i \in 1..(n * k) : Laid(total, n, d, (i - 1) \div k, lane[((i - 1) % k) + 1].at) < total}

LEMMA RepeatedLen ==
  ASSUME NEW E, Timed(E), NEW lane \in Seq(E), NEW total \in Nat, NEW d \in Nat \ {0}
  PROVE  /\ Repeated(lane, total, d) \in Seq(E)
         /\ Len(Repeated(lane, total, d)) = Cardinality(KeptOf(lane, total, d))
<1> DEFINE n == Reps(total, d)
           k == Len(lane)
           K == KeptOf(lane, total, d)
           all == [i \in 1..(n * k) |->
                LET e == lane[((i - 1) % k) + 1] IN
                [e EXCEPT !.at = Laid(total, n, d, (i - 1) \div k, e.at),
                          !.dur = RoundDiv(e.dur * total, n * d)]]
           kept == Ascending(K)
<1>1. n \in Nat \ {0}
  BY RepsType
<1>2. k \in Nat /\ \A i \in 1..k : lane[i] \in E
  OBVIOUS
<1>k. K = {i \in 1..(n * k) : Laid(total, n, d, (i - 1) \div k, lane[((i - 1) % k) + 1].at) < total}
  BY DEF KeptOf
<1> HIDE DEF n, k, K
<1>3. n * k \in Nat /\ n * d \in Nat \ {0}
  BY <1>1, <1>2, Products
<1>4. ASSUME NEW i \in 1..(n * k)
      PROVE  all[i] \in E /\ all[i].at = Laid(total, n, d, (i - 1) \div k, lane[((i - 1) % k) + 1].at)
  <2> DEFINE e == lane[((i - 1) % k) + 1]
             x == Laid(total, n, d, (i - 1) \div k, e.at)
             y == RoundDiv(e.dur * total, n * d)
  <2>1. e \in E /\ (i - 1) \div k \in Nat
    BY <1>1, <1>2, WithinLane
  <2>2. all[i] = [e EXCEPT !.at = x, !.dur = y]
    OBVIOUS
  <2> HIDE DEF e, all
  <2>3. e.at \in Nat /\ e.dur \in Nat
    BY <2>1 DEF Timed
  <2>4. x \in Nat
    BY <1>1, <2>1, <2>3, LaidType
  <2>5. y \in Nat
    <3>1. e.dur * total \in Nat
      BY <2>3, Products
    <3> QED BY <1>3, <3>1, RoundDivType
  <2> HIDE DEF x, y
  <2>6. [e EXCEPT !.at = x, !.dur = y] \in E /\ [e EXCEPT !.at = x, !.dur = y].at = x
    BY <2>1, <2>4, <2>5 DEF Timed
  <2>7. all[i] \in E /\ all[i].at = x
    BY <2>2, <2>6
  <2> QED BY <2>7 DEF x, e
<1>5. K = {i \in 1..(n * k) : all[i].at < total}
  <2> HIDE DEF all
  <2> QED BY <1>k, <1>4
<1> HIDE DEF all
<1>6. IsFiniteSet(K) /\ K \subseteq Nat /\ K \subseteq 1..(n * k)
  <2>1. IsFiniteSet(1..(n * k))
    BY <1>3, FS_Interval
  <2>3. 1..(n * k) \subseteq Nat
    BY <1>3
  <2>2. K \subseteq 1..(n * k)
    BY <1>k
  <2> QED BY <2>1, <2>2, <2>3, FS_Subset
<1>7. Cardinality(K) \in Nat /\ kept \in [1..Cardinality(K) -> K]
  BY <1>6, AscendingPicks
<1>8. Repeated(lane, total, d) = [j \in DOMAIN kept |-> all[kept[j]]]
  <2>1. Repeated(lane, total, d)
          = [j \in DOMAIN Ascending({i \in 1..(n * k) : all[i].at < total}) |->
               all[Ascending({i \in 1..(n * k) : all[i].at < total})[j]]]
    BY DEF Repeated, all, n, k
  <2> QED BY <1>5, <2>1 DEF kept
<1> HIDE DEF kept
<1>9. [j \in DOMAIN kept |-> all[kept[j]]] \in [1..Cardinality(K) -> E]
  <2>1. \A j \in 1..Cardinality(K) : all[kept[j]] \in E
    BY <1>4, <1>6, <1>7
  <2>2. DOMAIN kept = 1..Cardinality(K)
    BY <1>7
  <2> QED BY <2>1, <2>2
<1> DEFINE f == [j \in DOMAIN kept |-> all[kept[j]]]
<1> HIDE DEF f
<1>10. f \in Seq(E) /\ Len(f) = Cardinality(K)
  BY <1>7, <1>9, FunctionIsSeq DEF f
<1> QED BY <1>8, <1>10 DEF f, K

\* The lanes of two sources, one after the other, are a lane.
LEMMA TwoLanes ==
  ASSUME NEW S, NEW lanes, lanes \in [{1, 2} -> Seq(S)]
  PROVE  FlattenSeq(lanes) = lanes[1] \o lanes[2] /\ FlattenSeq(lanes) \in Seq(S)
<1>1. 1..2 = {1, 2} /\ lanes \in Seq(Seq(S)) /\ Len(lanes) = 2
  <2>1. 1..2 = {1, 2}
    OBVIOUS
  <2>2. lanes \in [1..2 -> Seq(S)]
    BY <2>1
  <2>3. 2 \in Nat
    OBVIOUS
  <2>4. lanes \in Seq(Seq(S)) /\ Len(lanes) = 2
    BY <2>2, <2>3, FunctionIsSeq
  <2> QED BY <2>1, <2>4
<1> DEFINE f == [i \in 1..2 |-> IF i = 1 THEN lanes[1] ELSE lanes[1] \o lanes[2]]
<1>2. f = [i \in 1..Len(lanes) |-> IF i = 1 THEN lanes[i] ELSE f[i - 1] \o lanes[i]]
  BY <1>1
<1> DEFINE g == CHOOSE h : h = [i \in 1..Len(lanes) |-> IF i = 1 THEN lanes[i] ELSE h[i - 1] \o lanes[i]]
<1>3. g = [i \in 1..Len(lanes) |-> IF i = 1 THEN lanes[i] ELSE g[i - 1] \o lanes[i]]
  BY <1>2
<1>4. FlattenSeq(lanes) = g[Len(lanes)]
  BY <1>1 DEF FlattenSeq
<1> HIDE DEF g
<1>5. g[1] = lanes[1] /\ g[2] = g[1] \o lanes[2]
  BY <1>1, <1>3
<1> QED BY <1>1, <1>4, <1>5

LEMMA LengthType ==
  ASSUME NEW p, KeysOK(p.keys)
  PROVE  DurSec(p) \in Nat
<1>1. PICK S : p.keys \in Seq(S) /\ \A k \in S : k.at \in Nat
  BY DEF KeysOK, KeyOK
<1>2. CASE p.keys = <<>>
  BY <1>2 DEF DurSec
<1>3. CASE p.keys # <<>>
  <2>1. p.keys[Len(p.keys)] \in S
    BY <1>1, <1>3
  <2>2. DurSec(p) = p.keys[Len(p.keys)].at
    BY <1>3 DEF DurSec, Last
  <2> QED BY <1>1, <2>1, <2>2
<1> QED BY <1>2, <1>3

LEMMA ChangesType ==
  ASSUME NEW p, KeysOK(p.keys), NEW total \in Nat, NEW d \in Nat \ {0}
  PROVE  Changes(p, total, d, 0..(Reps(total, d) - 1)) \subseteq Nat
<1>1. PICK S : p.keys \in Seq(S) /\ \A k \in S : k.at \in Nat
  BY DEF KeysOK, KeyOK
<1>2. Reps(total, d) \in Nat \ {0}
  BY RepsType
<1>3. ASSUME NEW r \in 0..(Reps(total, d) - 1), NEW k \in DOMAIN p.keys
      PROVE  Laid(total, Reps(total, d), d, r, p.keys[k].at) \in Nat
  <2>1. r \in Nat
    BY <1>2
  <2>2. p.keys[k] \in S
    BY <1>1
  <2>3. p.keys[k].at \in Nat
    BY <1>1, <2>2
  <2> QED BY <1>2, <2>1, <2>3, LaidType
<1> QED BY <1>3 DEF Changes

LEMMA TimesType ==
  ASSUME NEW pats, DOMAIN pats = {1, 2}, KeysOK(pats[1].keys), KeysOK(pats[2].keys),
         NEW total \in Nat, NEW durs, Two(durs)
  PROVE  MergedTimes(pats, total, durs) \subseteq Nat /\ IsFiniteSet(MergedTimes(pats, total, durs))
<1>1. \A i \in {1, 2} : Changes(pats[i], total, durs[i], 0..(Reps(total, durs[i]) - 1)) \subseteq Nat
  BY ChangesType DEF Two
<1>2. MergedTimes(pats, total, durs) \subseteq 0..total
  BY <1>1 DEF MergedTimes
<1>3. IsFiniteSet(0..total) /\ 0..total \subseteq Nat
  BY FS_Interval
<1> QED BY <1>2, <1>3, FS_Subset

LEMMA KeysOfTimes ==
  ASSUME NEW n \in Nat, NEW keys, DOMAIN keys = 1..n, keys = [k \in 1..n |-> keys[k]],
         \A k \in 1..n : KeyOK(keys[k])
  PROVE  KeysOK(keys)
<1> DEFINE S == {keys[k] : k \in 1..n}
<1>1. keys \in [1..n -> S]
  OBVIOUS
<1>2. \A k \in S : KeyOK(k)
  OBVIOUS
<1> HIDE DEF S
<1>3. keys \in Seq(S)
  BY <1>1, FunctionIsSeq
<1> QED BY <1>2, <1>3 DEF KeysOK

\* What two patterns with a length are merged into is a pattern.
LEMMA MergedShape ==
  ASSUME NEW pats, DOMAIN pats = {1, 2}, Shaped(pats[1]), Shaped(pats[2]),
         DurSec(pats[1]) > 0, DurSec(pats[2]) > 0
  PROVE  Shaped(MergePatterns(pats))
<1> DEFINE durs == [i \in DOMAIN pats |-> DurSec(pats[i])]
           total == MergeLength(durs)
           times == Ascending(MergedTimes(pats, total, durs))
           keys == [k \in DOMAIN times |->
                     [at |-> times[k],
                      shape |-> FillZeroFields([i \in DOMAIN pats |-> PhaseShape(pats[i], total, times[k])])]]
           links == MergeLanes([i \in DOMAIN pats |-> pats[i].links], total, durs)
           lanes == [i \in DOMAIN pats |-> pats[i].radios]
           radios == MergeLanes(lanes, total, durs)
<1>1. MergePatterns(pats) = [keys |-> keys, links |-> links, radios |-> radios]
  BY DEF MergePatterns
<1>2. Two(durs)
  <2>1. DurSec(pats[1]) \in Nat /\ DurSec(pats[2]) \in Nat
    BY LengthType DEF Shaped
  <2> QED BY <2>1 DEF Two
<1> HIDE DEF durs
<1>3. total \in Nat
  BY <1>2, MergeHasALength
<1> HIDE DEF total
<1>4. KeysOK(keys)
  <2> DEFINE T == MergedTimes(pats, total, durs)
  <2>1. T \subseteq Nat /\ IsFiniteSet(T)
    BY <1>2, <1>3, TimesType DEF Shaped
  <2> HIDE DEF T
  <2>2. Cardinality(T) \in Nat /\ Ascending(T) \in [1..Cardinality(T) -> T]
    BY <2>1, AscendingPicks
  <2>3. times \in [1..Cardinality(T) -> Nat]
    BY <2>1, <2>2 DEF T
  <2> HIDE DEF times
  <2>4. DOMAIN keys = 1..Cardinality(T) /\ \A k \in 1..Cardinality(T) : KeyOK(keys[k])
    BY <2>3 DEF KeyOK
  <2>5. keys = [k \in 1..Cardinality(T) |-> keys[k]]
    BY <2>3
  <2> HIDE DEF keys
  <2> QED BY <2>2, <2>4, <2>5, KeysOfTimes
<1>5. radios \in Seq(AnyEvent)
  <2>1. \A i \in {1, 2} : lanes[i] \in Seq(AnyEvent) /\ durs[i] \in Nat \ {0}
    BY <1>2 DEF Shaped, Two
  <2>2. DOMAIN lanes = {1, 2}
    OBVIOUS
  <2> HIDE DEF lanes
  <2>3. \A i \in {1, 2} : Repeated(lanes[i], total, durs[i]) \in Seq(AnyEvent)
    BY <1>3, <2>1, RepeatedLen, LanesAreTimed
  <2>4. [i \in DOMAIN lanes |-> Repeated(lanes[i], total, durs[i])] \in [{1, 2} -> Seq(AnyEvent)]
    BY <2>2, <2>3
  <2> QED BY <2>4, TwoLanes DEF MergeLanes
<1> HIDE DEF keys, links, radios
<1>6. /\ MergePatterns(pats).keys = keys /\ MergePatterns(pats).links = links
      /\ MergePatterns(pats).radios = radios
  BY <1>1
<1> QED BY <1>1, <1>4, <1>5, <1>6 DEF Shaped

----------------------------------------------------------------------------
(* What a merge plays: every moment of a source is played at the moment of *)
(* the merge its stretch puts it at, unless it had to be rounded.          *)

\* Whole numbers.

LEMMA DivMod ==
  ASSUME NEW N \in Nat, NEW M \in Nat \ {0}
  PROVE  \E q, r \in Nat : N = q * M + r /\ r < M
<1>1. N = (N \div M) * M + (N % M) /\ N \div M \in Nat /\ N % M \in Nat /\ N % M < M
  OBVIOUS
<1> QED BY <1>1

LEMMA DivModUnique ==
  ASSUME NEW q \in Nat, NEW M \in Nat \ {0}, NEW s \in Nat, s < M, NEW N \in Nat, N = q * M + s
  PROVE  N \div M = q /\ N % M = s
<1> DEFINE k == N \div M
           r == N % M
<1>1. k \in Nat /\ r \in Nat /\ r < M /\ N = k * M + r
  OBVIOUS
<1> HIDE DEF k, r
<1>2. q * M \in Nat /\ k * M \in Nat
  BY <1>1, Products
<1>3. CASE k + 1 <= q
  <2>1. (k + 1) * M <= q * M
    BY <1>1, <1>3, TimesLess
  <2>2. (k + 1) * M = k * M + M
    BY <1>1
  <2> QED BY <1>1, <1>2, <2>1, <2>2
<1>4. CASE q + 1 <= k
  <2>1. (q + 1) * M <= k * M
    BY <1>1, <1>4, TimesLess
  <2>2. (q + 1) * M = q * M + M
    OBVIOUS
  <2> QED BY <1>1, <1>2, <2>1, <2>2
<1>5. CASE k = q
  BY <1>1, <1>5, <1>2 DEF k, r
<1> QED BY <1>1, <1>3, <1>4, <1>5

\* Two moments of one cycle.
LEMMA WithinCycle ==
  ASSUME NEW M \in Nat \ {0}, NEW q \in Nat, NEW r \in Nat, r < M, NEW x \in Nat,
         NEW ns \in Nat, NEW nt \in Nat, nt = q * M + r, q * M + x <= ns, ns <= nt
  PROVE  /\ ns - q * M \in Nat /\ x <= ns - q * M /\ ns - q * M <= r /\ ns - q * M < M
         /\ nt % M = r /\ ns % M = ns - q * M
<1> DEFINE Q == q * M
           k == ns - Q
<1>1. Q \in Nat
  BY Products
<1>2. nt = Q + r /\ Q + x <= ns
  OBVIOUS
<1> HIDE DEF Q
<1>3. k \in Nat /\ x <= k /\ k <= r /\ k < M /\ ns = Q + k
  BY <1>1, <1>2
<1> HIDE DEF k
<1>4. ns % M = k /\ nt % M = r
  BY <1>3, DivModUnique DEF Q
<1> QED BY <1>3, <1>4 DEF Q, k

LEMMA Grid ==
  ASSUME NEW h \in Nat \ {0}, NEW x \in Nat
  PROVE  /\ x % h = 0 => \E a \in Nat : x = a * h
         /\ (x * h) % h = 0
<1>1. x % h = 0 => \E a \in Nat : x = a * h
  <2>1. x = (x \div h) * h + (x % h) /\ x \div h \in Nat
    OBVIOUS
  <2> QED BY <2>1
<1>2. (x * h) % h = 0
  <2>1. x * h \in Nat /\ x * h = x * h + 0
    BY Products
  <2> QED BY <2>1, DivModUnique
<1> QED BY <1>1, <1>2

\* RoundDiv goes to the nearest, and stays on a whole number.
LEMMA RoundDivNear ==
  ASSUME NEW m \in Nat, NEW e \in Nat \ {0}
  PROVE  /\ RoundDiv(m, e) \in Nat
         /\ 2 * (RoundDiv(m, e) * e) <= 2 * m + e
         /\ 2 * m + e < 2 * (RoundDiv(m, e) * e) + 2 * e
<1> DEFINE x == RoundDiv(m, e)
<1>1. x = (2 * m + e) \div (2 * e)
  BY DEF RoundDiv
<1>2. 2 * m + e \in Nat /\ 2 * e \in Nat \ {0}
  OBVIOUS
<1>3. x \in Nat /\ x * (2 * e) <= 2 * m + e /\ 2 * m + e < x * (2 * e) + 2 * e
  <2>1. \A a \in Nat, b \in Nat \ {0} :
          a \div b \in Nat /\ a = (a \div b) * b + (a % b) /\ a % b \in Nat /\ a % b < b
    OBVIOUS
  <2> DEFINE a == 2 * m + e   b == 2 * e
  <2> HIDE DEF a, b
  <2>2. x = a \div b /\ a \in Nat /\ b \in Nat \ {0}
    BY <1>1, <1>2 DEF a, b
  <2> HIDE DEF x
  <2>3. x \in Nat /\ a = x * b + (a % b) /\ a % b \in Nat /\ a % b < b /\ x * b \in Nat
    BY <2>1, <2>2, Products
  <2> DEFINE r == a % b
  <2>4. a = x * b + r /\ r \in Nat /\ r < b /\ x * b \in Nat /\ b \in Nat
    BY <2>2, <2>3
  <2> HIDE DEF r
  <2>5. x * b <= a /\ a < x * b + b
    BY <2>4
  <2> QED BY <2>3, <2>5 DEF a, b
<1> HIDE DEF x
<1>4. x * (2 * e) = 2 * (x * e)
  BY <1>3
<1> QED BY <1>3, <1>4 DEF x

LEMMA RoundDivExact ==
  ASSUME NEW w \in Nat, NEW e \in Nat \ {0}
  PROVE  RoundDiv(w * e, e) = w
<1>1. w * e \in Nat /\ w * (2 * e) \in Nat
  BY Products
<1>2. 2 * (w * e) + e = w * (2 * e) + e
  OBVIOUS
<1>3. 2 * (w * e) + e \in Nat /\ 2 * e \in Nat \ {0} /\ e < 2 * e
  BY <1>1
<1>4. (2 * (w * e) + e) \div (2 * e) = w
  BY <1>2, <1>3, DivModUnique
<1> QED BY <1>4 DEF RoundDiv

\* Keyframes from 0 on, in order, each on the grid that throughput can show.
OnGrid(keys) ==
  /\ keys # <<>> => keys[1].at = 0
  /\ \A i \in 2..Len(keys) : keys[i - 1].at < keys[i].at
  /\ \A i \in 1..Len(keys) : keys[i].at % Half = 0

LEMMA KeysAt ==
  ASSUME NEW keys, KeysOK(keys)
  PROVE  /\ Len(keys) \in Nat /\ DOMAIN keys = 1..Len(keys)
         /\ \A i \in 1..Len(keys) : keys[i].at \in Nat
<1>1. PICK S : keys \in Seq(S) /\ \A k \in S : k.at \in Nat
  BY DEF KeysOK, KeyOK
<1>2. \A i \in 1..Len(keys) : keys[i] \in S
  BY <1>1
<1> QED BY <1>1, <1>2

LEMMA AtMomentIs ==
  ASSUME NEW p, KeysOK(p.keys), NEW num \in Nat, NEW den \in Nat, NEW j \in 1..Len(p.keys),
         p.keys[j].at * den <= num, \A l \in j + 1..Len(p.keys) : num < p.keys[l].at * den
  PROVE  AtMoment(p, num, den) = p.keys[j].shape
<1>1. Len(p.keys) \in Nat /\ \A i \in 1..Len(p.keys) : p.keys[i].at \in Nat
  BY KeysAt
<1> DEFINE At(i) == p.keys[i].at * den
           Now(i) == At(i) <= num /\ \A l \in i + 1..Len(p.keys) : num < At(l)
<1>2. \A i \in 1..Len(p.keys) : At(i) \in Nat
  BY <1>1, Products
<1>3. Now(j)
  OBVIOUS
<1> HIDE DEF At
<1>4. ASSUME NEW i \in 1..Len(p.keys), Now(i) PROVE i = j
  <2>1. CASE i < j
    <3>1. j \in i + 1..Len(p.keys)
      BY <1>1, <2>1
    <3> QED BY <1>2, <1>3, <1>4, <3>1
  <2>2. CASE j < i
    <3>1. i \in j + 1..Len(p.keys)
      BY <1>1, <2>2
    <3> QED BY <1>2, <1>3, <1>4, <3>1
  <2> QED BY <1>1, <2>1, <2>2
<1>5. AtMoment(p, num, den) = p.keys[CHOOSE i \in 1..Len(p.keys) : Now(i)].shape
  BY DEF AtMoment, At
<1> HIDE DEF Now
<1>6. (CHOOSE i \in 1..Len(p.keys) : Now(i)) = j
  BY <1>3, <1>4
<1> QED BY <1>5, <1>6

LEMMA SomeKey ==
  ASSUME NEW p, KeysOK(p.keys), p.keys # <<>>, p.keys[1].at = 0, NEW num \in Nat, NEW den \in Nat
  PROVE  \E j \in 1..Len(p.keys) :
           p.keys[j].at * den <= num /\ \A l \in j + 1..Len(p.keys) : num < p.keys[l].at * den
<1> DEFINE len == Len(p.keys)
           At(i) == p.keys[i].at * den
           T == {m \in 0..(len - 1) : At(len - m) <= num}
<1>1. len \in Nat /\ len > 0 /\ \A i \in 1..len : p.keys[i].at \in Nat
  <2>1. PICK S : p.keys \in Seq(S)
    BY DEF KeysOK
  <2> QED BY <2>1, KeysAt
<1>2. \A i \in 1..len : At(i) \in Nat
  BY <1>1, Products
<1>3. At(1) = 0
  BY <1>1
<1> HIDE DEF At, len
<1>4. len - 1 \in T /\ T \in SUBSET Nat
  <2>1. len - (len - 1) = 1 /\ len - 1 \in 0..(len - 1)
    BY <1>1
  <2> QED BY <1>1, <1>3, <2>1
<1>5. PICK m \in T : \A k \in T : m <= k
  <2> HIDE DEF T
  <2> QED BY <1>4, LeastNat
<1>6. len - m \in 1..len /\ At(len - m) <= num
  BY <1>1, <1>5
<1>7. ASSUME NEW l \in (len - m) + 1..len PROVE num < At(l)
  <2>1. len - l \in 0..(len - 1) /\ len - l < m /\ len - (len - l) = l
    BY <1>1, <1>5, <1>7
  <2>2. len - l \notin T
    BY <1>5, <2>1
  <2>3. ~(At(l) <= num)
    BY <2>1, <2>2
  <2>4. l \in 1..len
    BY <1>1, <1>6
  <2> QED BY <1>2, <2>3, <2>4
<1> QED BY <1>6, <1>7 DEF At, len

\* Ascending lists the whole set, the smaller first.
LEMMA AscendingLists ==
  ASSUME NEW S, S \subseteq Nat, IsFiniteSet(S)
  PROVE  /\ \A i, j \in 1..Cardinality(S) : i < j => Ascending(S)[i] < Ascending(S)[j]
         /\ \A s \in S : \E i \in 1..Cardinality(S) : Ascending(S)[i] = s
<1> DEFINE Below(w) == {s \in S : s < w}
           A == Ascending(S)
<1>1. Cardinality(S) \in Nat
  BY FS_CardinalityType
<1>2. Ranked(S, Smaller)
  <2>1. Orders(Smaller, S)
    BY DEF Orders, Smaller
  <2> QED BY <2>1, Ranks
<1>3. \A w \in S : RankIn(w, S, Smaller) = Cardinality(Below(w))
  <2> TAKE w \in S
  <2>1. {v \in S : <<v, w>> \in Smaller} = Below(w)
    BY DEF Smaller
  <2> QED BY <2>1 DEF RankIn
<1>4. ASSUME NEW k \in 1..Cardinality(S)
      PROVE  A[k] \in S /\ Cardinality(Below(A[k])) = k - 1
  <2>1. k - 1 \in 0..(Cardinality(S) - 1)
    BY <1>1
  <2>2. PICK w \in S : Cardinality(Below(w)) = k - 1
    BY <1>2, <1>3, <2>1 DEF Ranked
  <2>3. A[k] = CHOOSE t \in S : Cardinality(Below(t)) = k - 1
    BY DEF Ascending
  <2> HIDE DEF A, Below
  <2> QED BY <2>2, <2>3
<1>5. \A w \in S : IsFiniteSet(Below(w)) /\ Cardinality(Below(w)) \in Nat
  BY FS_Subset, FS_CardinalityType
<1> HIDE DEF A
<1>6. ASSUME NEW i \in 1..Cardinality(S), NEW j \in 1..Cardinality(S), i < j
      PROVE  A[i] < A[j]
  <2>0. A[i] \in S /\ A[j] \in S /\ A[i] \in Nat /\ A[j] \in Nat
    BY <1>4
  <2> SUFFICES ASSUME A[j] <= A[i] PROVE FALSE
    BY <2>0
  <2>1. Below(A[j]) \subseteq Below(A[i])
    <3>1. \A s, x, y \in Nat : s < x /\ x <= y => s < y
      OBVIOUS
    <3>2. \A s \in S : s < A[j] => s < A[i]
      BY <2>0, <3>1
    <3> QED BY <3>2
  <2>2. Cardinality(Below(A[j])) <= Cardinality(Below(A[i]))
    <3> HIDE DEF Below
    <3> QED BY <1>4, <1>5, <2>1, FS_Subset
  <2> QED BY <1>1, <1>4, <1>6, <2>2
<1>7. ASSUME NEW s \in S PROVE \E i \in 1..Cardinality(S) : A[i] = s
  <2> DEFINE r == Cardinality(Below(s))
  <2>1. r \in 0..(Cardinality(S) - 1)
    BY <1>2, <1>3 DEF Ranked
  <2>2. r + 1 \in 1..Cardinality(S) /\ (r + 1) - 1 = r
    BY <1>1, <2>1
  <2>3. Cardinality(Below(A[r + 1])) = r /\ A[r + 1] \in S
    <3> HIDE DEF r, Below
    <3> QED BY <1>4, <2>2
  <2>4. A[r + 1] = s
    <3>1. \A v, w \in S : RankIn(v, S, Smaller) = RankIn(w, S, Smaller) => v = w
      BY <1>2 DEF Ranked
    <3>2. RankIn(A[r + 1], S, Smaller) = RankIn(s, S, Smaller)
      BY <1>3, <2>3
    <3> HIDE DEF Below, Smaller, r
    <3> QED BY <2>3, <3>1, <3>2
  <2> QED BY <2>2, <2>4
<1> QED BY <1>6, <1>7 DEF A

\* If whatever a source does by t it has done by an earlier s, then what is in force at s is
\* what is in force at t.
LEMMA SamePhase ==
  ASSUME NEW p, KeysOK(p.keys), p.keys # <<>>, p.keys[1].at = 0, DurSec(p) \in Nat \ {0},
         NEW total \in Nat \ {0}, NEW t \in Nat, t < total, NEW s \in Nat, s <= t,
         \A q \in 0..(Reps(total, DurSec(p)) - 1), j \in 1..Len(p.keys) :
           (q * DurSec(p) + p.keys[j].at) * total <= t * (Reps(total, DurSec(p)) * DurSec(p))
             => (q * DurSec(p) + p.keys[j].at) * total <= s * (Reps(total, DurSec(p)) * DurSec(p))
  PROVE  PhaseShape(p, total, s) = SourceAt(p, total, t)
<1> DEFINE d == DurSec(p)
           n == Reps(total, d)
           M == d * total
           num(x) == x * n * d
<1>1. n \in Nat \ {0} /\ d \in Nat \ {0}
  BY RepsType
<1>2. Len(p.keys) \in Nat /\ \A i \in 1..Len(p.keys) : p.keys[i].at \in Nat
  BY KeysAt
<1>3. SourceAt(p, total, t) = AtMoment(p, num(t) % M, total)
  BY DEF SourceAt
<1>4. PhaseShape(p, total, s) = AtMoment(p, num(s) % M, total)
  BY DEF PhaseShape
<1> HIDE DEF n, d
<1>5. M \in Nat \ {0} /\ \A x \in Nat : num(x) \in Nat /\ num(x) = x * (n * d)
  <2>1. M \in Nat \ {0} /\ n * d \in Nat
    BY <1>1, Products
  <2>2. \A x \in Nat : num(x) = x * (n * d)
    BY <1>1
  <2> QED BY <2>1, <2>2, Products
<1>6. PICK q \in Nat, r \in Nat : num(t) = q * M + r /\ r < M
  <2>1. num(t) \in Nat
    BY <1>5
  <2> HIDE DEF num, M
  <2> QED BY <1>5, <2>1, DivMod
<1>7. q \in 0..(n - 1)
  <2>1. num(t) < n * M
    <3>1. t + 1 <= total /\ t + 1 \in Nat /\ n * d \in Nat /\ n * d > 0
      BY <1>1, Products
    <3>2. (t + 1) * (n * d) <= total * (n * d)
      BY <3>1, TimesLess
    <3>3. (t + 1) * (n * d) = t * (n * d) + n * d /\ total * (n * d) = n * M
      BY <1>1
    <3>4. t * (n * d) \in Nat
      BY <3>1, Products
    <3> QED BY <1>5, <3>1, <3>2, <3>3, <3>4
  <2>2. CASE n <= q
    <3>1. n * M <= q * M
      BY <1>1, <1>5, <2>2, TimesLess
    <3>2. q * M \in Nat /\ n * M \in Nat /\ num(t) \in Nat
      BY <1>1, <1>5, Products
    <3> HIDE DEF num, M
    <3> QED BY <1>6, <2>1, <3>1, <3>2
  <2> QED BY <1>1, <2>2
<1>8. PICK j \in 1..Len(p.keys) :
        p.keys[j].at * total <= r /\ \A l \in j + 1..Len(p.keys) : r < p.keys[l].at * total
  BY SomeKey
<1> DEFINE a == p.keys[j].at
           x == a * total
<1>9. a \in Nat /\ x \in Nat /\ q * M \in Nat
  BY <1>2, <1>5, Products
<1>10. (q * d + a) * total = q * M + x
  BY <1>1, <1>9
<1>11. q * M + x <= num(s)
  <2>1. (q * d + a) * total <= t * (n * d)
    <3>1. x <= r
      BY <1>8
    <3>2. q * M + x <= num(t)
      <4> DEFINE Q == q * M
      <4> HIDE DEF num, Q, x
      <4> QED BY <1>6, <1>9, <3>1 DEF Q
    <3> QED BY <1>5, <1>10, <3>2
  <2>2. (q * d + a) * total <= s * (n * d)
    BY <1>7, <2>1 DEF n, d
  <2> QED BY <1>5, <1>10, <2>2
<1>12. num(s) <= num(t)
  BY <1>1, <1>5, Products, TimesLess
<1> DEFINE k == num(s) - q * M
<1>13. /\ k \in Nat /\ x <= k /\ k <= r /\ k < M
       /\ num(t) % M = r /\ num(s) % M = k
  <2>1. num(s) \in Nat /\ num(t) \in Nat /\ M \in Nat \ {0}
    BY <1>5
  <2>2. x <= r
    BY <1>8
  <2>3. num(t) = q * M + r /\ r < M /\ q * M + x <= num(s) /\ x \in Nat
    BY <1>6, <1>9, <1>11
  <2> DEFINE ns == num(s)  nt == num(t)
  <2>4. ns \in Nat /\ nt \in Nat /\ ns <= nt /\ nt = q * M + r /\ q * M + x <= ns /\ k = ns - q * M
    BY <1>12, <2>1, <2>3
  <2> HIDE DEF ns, nt, M, x, k
  <2>5. ns \in Nat /\ nt \in Nat /\ ns <= nt /\ nt = q * M + r /\ q * M + x <= ns
    BY <2>4
  <2>6. /\ ns - q * M \in Nat /\ x <= ns - q * M /\ ns - q * M <= r /\ ns - q * M < M
        /\ nt % M = r /\ ns % M = ns - q * M
    <3>1. M \in Nat \ {0} /\ q \in Nat /\ r \in Nat /\ r < M /\ x \in Nat
      BY <2>1, <2>3
    <3> QED BY ONLY <2>5, <3>1, WithinCycle
  <2> QED BY <2>4, <2>6 DEF ns, nt
<1> HIDE DEF num, M, k, x, a
<1>14. \A w \in Nat :
         p.keys[j].at * total <= w /\ (\A l \in j + 1..Len(p.keys) : w < p.keys[l].at * total)
           => AtMoment(p, w, total) = p.keys[j].shape
  <2> TAKE w \in Nat
  <2> HAVE p.keys[j].at * total <= w /\ (\A l \in j + 1..Len(p.keys) : w < p.keys[l].at * total)
  <2>1. KeysOK(p.keys) /\ w \in Nat /\ total \in Nat /\ j \in 1..Len(p.keys)
    OBVIOUS
  <2>2. p.keys[j].at * total <= w /\ \A l \in j + 1..Len(p.keys) : w < p.keys[l].at * total
    OBVIOUS
  <2> QED BY ONLY <2>1, <2>2, AtMomentIs
<1>15. AtMoment(p, r, total) = p.keys[j].shape
  <2>1. p.keys[j].at * total <= r /\ \A l \in j + 1..Len(p.keys) : r < p.keys[l].at * total
    BY <1>8
  <2> QED BY <1>6, <1>14, <2>1
<1>16. ASSUME NEW w \in Nat, w = k
       PROVE  AtMoment(p, w, total) = p.keys[j].shape
  <2>1. p.keys[j].at * total <= w
    BY <1>13, <1>16 DEF x, a
  <2>2. \A l \in j + 1..Len(p.keys) : w < p.keys[l].at * total
    <3> TAKE l \in j + 1..Len(p.keys)
    <3>1. p.keys[l].at \in Nat /\ r < p.keys[l].at * total
      BY <1>2, <1>8
    <3> DEFINE y == p.keys[l].at * total
    <3>2. y \in Nat /\ r < y
      BY <3>1, Products
    <3>3. w \in Nat /\ w <= r
      BY <1>13, <1>16
    <3> HIDE DEF y
    <3>4. w < y
      BY <3>2, <3>3
    <3> QED BY <3>4 DEF y
  <2> QED BY <1>14, <2>1, <2>2
<1> QED BY <1>3, <1>4, <1>13, <1>15, <1>16

\* A change of a source is laid exactly where its stretch puts it, ...
Exactly(total, n, d, q, at) == Laid(total, n, d, q, at) * (n * d) = (q * d + at) * total
\* ... as it is if the stretch puts it on a whole hundredth, ...
Whole(total, n, d, at) == (at * total) % (n * d) = 0
\* ... or is too short for a time off the grid to be rounded onto it.
Short(n, d) == n * d < 2 * Half * Half

Gridded(x) == x % Half = 0

LEMMA LaidWhole ==
  ASSUME NEW total \in Nat, NEW n \in Nat \ {0}, NEW d \in Nat \ {0}, NEW q \in Nat, NEW at \in Nat,
         Whole(total, n, d, at), Whole(total, n, d, d)
  PROVE  Exactly(total, n, d, q, at)
<1> DEFINE e == n * d
<1>1. e \in Nat \ {0} /\ at * total \in Nat /\ d * total \in Nat
  BY Products
<1>2. PICK u \in Nat : at * total = u * e
  <2>1. (at * total) % e = 0
    BY DEF Whole
  <2> QED BY <1>1, <2>1, Grid
<1>3. PICK v \in Nat : d * total = v * e
  <2>1. (d * total) % e = 0
    BY DEF Whole
  <2> QED BY <1>1, <2>1, Grid
<1>4. (q * d + at) * total = (q * v + u) * e
  <2>1. (q * d + at) * total = q * (d * total) + at * total
    OBVIOUS
  <2>2. q * (v * e) = (q * v) * e
    BY <1>1
  <2>3. (q * v + u) * e = (q * v) * e + u * e
    BY <1>1
  <2> HIDE DEF e
  <2> QED BY <1>2, <1>3, <2>1, <2>2, <2>3
<1>5. q * v + u \in Nat
  BY Products
<1> HIDE DEF e
<1>6. RoundDiv((q * v + u) * e, e) = q * v + u
  BY <1>1, <1>5, RoundDivExact
<1> QED BY <1>4, <1>6 DEF Exactly, Laid, e

LEMMA LaidNear ==
  ASSUME Half \in Nat \ {0}, NEW total \in Nat, NEW n \in Nat \ {0}, NEW d \in Nat \ {0},
         NEW q \in Nat, NEW at \in Nat, Gridded(total), Gridded(d), Gridded(at), Short(n, d),
         Gridded(Laid(total, n, d, q, at))
  PROVE  Exactly(total, n, d, q, at)
<1> DEFINE L == Laid(total, n, d, q, at)
           e == n * d
           m == (q * d + at) * total
           g == Half * Half
<1>1. L \in Nat
  BY LaidType
<1>2. PICK a \in Nat : at = a * Half
  BY Grid DEF Gridded
<1>3. PICK b \in Nat : d = b * Half
  BY Grid DEF Gridded
<1>4. PICK c \in Nat : total = c * Half
  BY Grid DEF Gridded
<1>5. PICK y \in Nat : L = y * Half
  BY <1>1, Grid DEF Gridded
<1> DEFINE Y == y * (n * b)
           X == (q * b + a) * c
<1>6. e \in Nat \ {0} /\ m \in Nat /\ g \in Nat \ {0} /\ X \in Nat /\ Y \in Nat
  <2>1. q * d \in Nat /\ q * b \in Nat /\ n * b \in Nat
    BY Products
  <2> QED BY <2>1, Products
<1>7. L * e = Y * g
  <2> HIDE DEF L
  <2>1. (y * Half) * (n * (b * Half)) = Y * g
    OBVIOUS
  <2> QED BY <1>3, <1>5, <2>1
<1>8. m = X * g
  <2>1. q * (b * Half) + a * Half = (q * b + a) * Half
    OBVIOUS
  <2>2. q * b + a \in Nat
    BY Products
  <2> DEFINE z == q * b + a
  <2> HIDE DEF z
  <2>3. (z * Half) * (c * Half) = (z * c) * (Half * Half)
    BY <2>2 DEF z
  <2> QED BY <1>2, <1>3, <1>4, <2>1, <2>3 DEF z
<1>9. e < 2 * g
  <2>1. e < 2 * Half * Half
    BY DEF Short
  <2>2. 2 * Half * Half = 2 * g
    OBVIOUS
  <2> QED BY <2>1, <2>2
<1>10. 2 * (L * e) <= 2 * m + e /\ 2 * m + e < 2 * (L * e) + 2 * e
  <2>1. L = RoundDiv(m, e)
    BY DEF Laid
  <2> HIDE DEF e, m, L
  <2> QED BY <1>6, <2>1, RoundDivNear
<1> HIDE DEF e, m, g, X, Y, L
<1>11. 2 * (Y * g) <= 2 * (X * g) + e /\ 2 * (X * g) < 2 * (Y * g) + e
  <2>1. Y * g \in Nat /\ X * g \in Nat
    BY <1>6, Products
  <2>2. 2 * (X * g) + e < 2 * (Y * g) + 2 * e
    BY <1>7, <1>8, <1>10
  <2> QED BY <1>6, <1>7, <1>8, <1>10, <2>1, <2>2
<1>12. CASE X + 1 <= Y
  <2>1. (X + 1) * g <= Y * g /\ (X + 1) * g = X * g + g
    BY <1>6, <1>12, TimesLess
  <2>2. Y * g \in Nat /\ X * g \in Nat
    BY <1>6, Products
  <2> QED BY <1>6, <1>9, <1>11, <2>1, <2>2
<1>13. CASE Y + 1 <= X
  <2>1. (Y + 1) * g <= X * g /\ (Y + 1) * g = Y * g + g
    BY <1>6, <1>13, TimesLess
  <2>2. Y * g \in Nat /\ X * g \in Nat
    BY <1>6, Products
  <2> QED BY <1>6, <1>9, <1>11, <2>1, <2>2
<1>14. CASE X = Y
  <2>1. L * e = m
    BY <1>7, <1>8, <1>14
  <2> QED BY <2>1 DEF Exactly, e, m, L
<1> QED BY <1>6, <1>12, <1>13, <1>14

\* Nothing of p falls between the moments throughput can show in a merge of length total.
Unrounded(p, total) ==
  LET d == DurSec(p)  n == Reps(total, d) IN
  Short(n, d) \/ \A k \in 1..Len(p.keys) : Whole(total, n, d, p.keys[k].at)

LEMMA LaidExactly ==
  ASSUME NEW p, KeysOK(p.keys), OnGrid(p.keys), Half \in Nat \ {0}, DurSec(p) \in Nat \ {0},
         NEW total \in Nat \ {0}, Gridded(total), Unrounded(p, total),
         NEW q \in Nat, NEW j \in 1..Len(p.keys), NEW n, NEW d, d = DurSec(p),
         n = Reps(total, d), Gridded(Laid(total, n, d, q, p.keys[j].at))
  PROVE  Exactly(total, n, d, q, p.keys[j].at)
<1> DEFINE at == p.keys[j].at
<1>1. n \in Nat \ {0} /\ d \in Nat \ {0} /\ total \in Nat
  BY RepsType
<1>2. at \in Nat /\ d = p.keys[Len(p.keys)].at /\ Len(p.keys) \in 1..Len(p.keys)
  <2>1. Len(p.keys) \in Nat /\ at \in Nat
    BY KeysAt
  <2>2. p.keys # <<>>
    <3>1. \E S : p.keys \in Seq(S)
      BY DEF KeysOK
    <3> QED BY <3>1
  <2> QED BY <2>1, <2>2 DEF DurSec, Last
<1>3. CASE \A k \in 1..Len(p.keys) : Whole(total, n, d, p.keys[k].at)
  <2>1. Whole(total, n, d, at) /\ Whole(total, n, d, d)
    BY <1>2, <1>3
  <2> HIDE DEF at
  <2>2. Exactly(total, n, d, q, at)
    BY <1>1, <1>2, <2>1, LaidWhole
  <2> QED BY <2>2 DEF at
<1>4. CASE Short(n, d)
  <2>1. Gridded(at) /\ Gridded(d)
    BY <1>2 DEF OnGrid, Gridded
  <2> QED BY <1>1, <1>2, <1>4, <2>1, LaidNear
<1> QED BY <1>3, <1>4 DEF Unrounded

\* A merge is at least as long as each of its sources.
LEMMA LengthCovers ==
  ASSUME NEW durs, Two(durs)
  PROVE  /\ MergeLength(durs) \in Nat \ {0}
         /\ durs[1] <= MergeLength(durs) /\ durs[2] <= MergeLength(durs)
<1>1. MergeLength(durs) \in MergeLengths(durs) /\ MergeLength(durs) \in Nat
  BY MergeHasALength
<1> DEFINE longest == Max(ToSet(durs))
<1>2. MergeLength(durs) >= longest
  <2> DEFINE U == UNION {{k * d : k \in 1..((3 * longest) \div (2 * d))} : d \in ToSet(durs)}
  <2>1. MergeLengths(durs) = {t \in U : t >= longest}
    BY DEF MergeLengths
  <2> HIDE DEF U, longest
  <2> QED BY <1>1, <2>1
<1>3. ToSet(durs) = {durs[1], durs[2]}
  BY DEF Two, ToSet
<1>4. longest \in ToSet(durs) /\ \A d \in ToSet(durs) : longest >= d
  <2>1. \E x \in ToSet(durs) : \A y \in ToSet(durs) : x >= y
    BY <1>3 DEF Two
  <2> QED BY <2>1 DEF Max
<1> HIDE DEF longest
<1>5. \A d \in {durs[1], durs[2]} : longest \in Nat \ {0} /\ d \in Nat /\ longest >= d
  BY <1>3, <1>4 DEF Two
<1>6. \A m, l, d \in Nat : m >= l /\ l >= d => d <= m
  OBVIOUS
<1> QED BY <1>1, <1>2, <1>5, <1>6

\* The keyframes of a merge: one at each merged time, in order, the last at its length.
LEMMA MergedKeys ==
  ASSUME NEW pats, DOMAIN pats = {1, 2}, Shaped(pats[1]), Shaped(pats[2]),
         DurSec(pats[1]) > 0, DurSec(pats[2]) > 0,
         NEW durs, durs = [i \in DOMAIN pats |-> DurSec(pats[i])],
         NEW total, total = MergeLength(durs), NEW T, T = MergedTimes(pats, total, durs)
  PROVE  /\ Two(durs) /\ total \in Nat \ {0}
         /\ T \subseteq 0..total /\ 0 \in T
         /\ DurSec(MergePatterns(pats)) = total
         /\ \A i, j \in 1..Len(MergePatterns(pats).keys) : i < j =>
              MergePatterns(pats).keys[i].at < MergePatterns(pats).keys[j].at
         /\ \A x \in T : \E i \in 1..Len(MergePatterns(pats).keys) : MergePatterns(pats).keys[i].at = x
         /\ \A k \in 1..Len(MergePatterns(pats).keys) :
              /\ MergePatterns(pats).keys[k].at \in T
              /\ MergePatterns(pats).keys[k].shape =
                   FillZeroFields([i \in DOMAIN pats |->
                     PhaseShape(pats[i], total, MergePatterns(pats).keys[k].at)])
<1> DEFINE times == Ascending(T)
           keys == MergePatterns(pats).keys
           N == Cardinality(T)
<1>1. Two(durs)
  <2>1. DurSec(pats[1]) \in Nat /\ DurSec(pats[2]) \in Nat
    BY LengthType DEF Shaped
  <2> QED BY <2>1 DEF Two
<1>2. total \in Nat \ {0}
  BY <1>1, LengthCovers
<1>3. T \subseteq Nat /\ IsFiniteSet(T)
  BY <1>1, <1>2, TimesType DEF Shaped
<1>4. T \subseteq 0..total /\ 0 \in T /\ total \in T
  <2> DEFINE U == UNION {Changes(pats[i], total, durs[i], 0..(Reps(total, durs[i]) - 1)) : i \in DOMAIN pats}
  <2>1. T = {0, total} \union {t \in U : 0 < t /\ t < total}
    BY DEF MergedTimes
  <2> HIDE DEF U
  <2> QED BY <1>2, <1>3, <2>1
<1>5. N \in Nat /\ times \in [1..N -> T]
  BY <1>3, AscendingPicks
<1>6. /\ \A i, j \in 1..N : i < j => times[i] < times[j]
      /\ \A s \in T : \E i \in 1..N : times[i] = s
  BY <1>3, AscendingLists
<1>7. keys = [k \in DOMAIN times |->
                [at |-> times[k],
                 shape |-> FillZeroFields([i \in DOMAIN pats |-> PhaseShape(pats[i], total, times[k])])]]
  BY DEF MergePatterns
<1>8. KeysOK(keys)
  BY MergedShape DEF Shaped
<1> HIDE DEF times, keys, N
<1>9. DOMAIN keys = 1..N /\ Len(keys) = N
  <2>1. DOMAIN keys = 1..N
    BY <1>5, <1>7
  <2>2. DOMAIN keys = 1..Len(keys) /\ Len(keys) \in Nat
    BY <1>8, KeysAt
  <2>3. \A a, b \in Nat : 1..a = 1..b => a = b
    <3> TAKE a, b \in Nat
    <3> HAVE 1..a = 1..b
    <3>1. CASE a < b
      <4>1. b \in 1..b /\ b \notin 1..a
        BY <3>1
      <4> QED BY <4>1
    <3>2. CASE b < a
      <4>1. a \in 1..a /\ a \notin 1..b
        BY <3>2
      <4> QED BY <4>1
    <3> QED BY <3>1, <3>2
  <2> QED BY <1>5, <2>1, <2>2, <2>3
<1>10. \A k \in 1..N :
         /\ keys[k].at = times[k] /\ keys[k].at \in T
         /\ keys[k].shape = FillZeroFields([i \in DOMAIN pats |-> PhaseShape(pats[i], total, keys[k].at)])
  BY <1>5, <1>7
<1>11. DurSec(MergePatterns(pats)) = total
  <2>1. PICK i \in 1..N : times[i] = total
    BY <1>4, <1>6
  <2>2. N \in 1..N /\ keys # <<>>
    <3>1. N \in 1..N
      BY <1>5, <2>1
    <3> QED BY <1>9, <3>1
  <2>3. DurSec(MergePatterns(pats)) = keys[N].at
    BY <1>9, <2>2 DEF DurSec, Last, keys
  <2>4. ~(i < N)
    <3> SUFFICES ASSUME i < N PROVE FALSE
      OBVIOUS
    <3>1. total < times[N] /\ times[N] \in 0..total
      BY <1>4, <1>5, <1>6, <2>1, <2>2
    <3> QED BY <1>2, <3>1
  <2>5. i = N
    BY <1>5, <2>4
  <2> QED BY <1>10, <2>1, <2>3, <2>5
<1>12. \A i, j \in 1..N : i < j => keys[i].at < keys[j].at
  BY <1>6, <1>10
<1>13. \A x \in T : \E i \in 1..N : keys[i].at = x
  <2> TAKE x \in T
  <2>1. PICK i \in 1..N : times[i] = x
    BY <1>6
  <2>2. keys[i].at = x
    BY <1>10, <2>1
  <2> QED BY <2>2
<1>14. /\ \A i, j \in 1..Len(keys) : i < j => keys[i].at < keys[j].at
       /\ \A x \in T : \E i \in 1..Len(keys) : keys[i].at = x
       /\ \A k \in 1..Len(keys) :
            /\ keys[k].at \in T
            /\ keys[k].shape = FillZeroFields([i \in DOMAIN pats |-> PhaseShape(pats[i], total, keys[k].at)])
  BY <1>9, <1>10, <1>12, <1>13
<1> QED BY <1>1, <1>2, <1>4, <1>11, <1>14 DEF keys

\* What a source has done by t of a merge, the merge has laid by t, ...
LEMMA LaidBy ==
  ASSUME NEW m \in Nat, NEW e \in Nat \ {0}, NEW t \in Nat, m <= t * e
  PROVE  RoundDiv(m, e) <= t
<1> DEFINE x == RoundDiv(m, e)
<1>1. x \in Nat /\ 2 * (x * e) <= 2 * m + e
  BY RoundDivNear
<1> HIDE DEF x
<1>2. x * e \in Nat /\ t * e \in Nat
  BY <1>1, Products
<1> SUFFICES ASSUME t + 1 <= x PROVE FALSE
  BY <1>1 DEF x
<1>3. (t + 1) * e <= x * e /\ (t + 1) * e = t * e + e
  BY <1>1, TimesLess
<1> DEFINE xe == x * e  te == t * e
<1>4. 2 * xe <= 2 * m + e /\ te + e <= xe /\ m <= te /\ xe \in Nat /\ te \in Nat
  BY <1>1, <1>2, <1>3
<1> HIDE DEF xe, te
<1> QED BY <1>4

\* The moment of a merge that a source's cycle q and keyframe j come round at.
LEMMA LaidAmongTimes ==
  ASSUME NEW pats, DOMAIN pats = {1, 2}, KeysOK(pats[1].keys), KeysOK(pats[2].keys),
         NEW durs, Two(durs), NEW total \in Nat \ {0}
  PROVE  \A i \in {1, 2} : \A q \in 0..(Reps(total, durs[i]) - 1), j \in 1..Len(pats[i].keys) :
           Laid(total, Reps(total, durs[i]), durs[i], q, pats[i].keys[j].at)
             \in {0} \union MergedTimes(pats, total, durs) \union {x \in Nat : x >= total}
<1> TAKE i \in {1, 2}
<1> TAKE q \in 0..(Reps(total, durs[i]) - 1), j \in 1..Len(pats[i].keys)
<1> DEFINE L == Laid(total, Reps(total, durs[i]), durs[i], q, pats[i].keys[j].at)
<1>1. DOMAIN pats[i].keys = 1..Len(pats[i].keys)
  BY KeysAt
<1>2. L \in Changes(pats[i], total, durs[i], 0..(Reps(total, durs[i]) - 1))
  BY <1>1 DEF Changes
<1>3. L \in Nat
  BY <1>2, ChangesType DEF Two
<1> DEFINE U == UNION {Changes(pats[h], total, durs[h], 0..(Reps(total, durs[h]) - 1)) : h \in DOMAIN pats}
<1>4. L \in U
  BY <1>2
<1>5. {t \in U : 0 < t /\ t < total} \subseteq MergedTimes(pats, total, durs)
  BY DEF MergedTimes
<1> HIDE DEF U
<1> HIDE DEF L
<1>6. L = 0 \/ L \in {t \in U : 0 < t /\ t < total} \/ L >= total
  BY <1>3, <1>4
<1> QED BY <1>3, <1>5, <1>6 DEF L

\* At every moment a merge plays what is in force in each source at its own pace.
LEMMA MergePlays ==
  ASSUME NEW pats, DOMAIN pats = {1, 2}, Half \in Nat \ {0},
         \A i \in {1, 2} : Shaped(pats[i]) /\ OnGrid(pats[i].keys),
         Layered(pats, MergePatterns(pats)),
         NEW total, total = DurSec(MergePatterns(pats)),
         \A i \in {1, 2} : Unrounded(pats[i], total),
         NEW t \in Nat, t < total
  PROVE  AtMoment(MergePatterns(pats), t, 1) =
           FillZeroFields([i \in DOMAIN pats |-> SourceAt(pats[i], total, t)])
<1> DEFINE M == MergePatterns(pats)
           durs == [i \in DOMAIN pats |-> DurSec(pats[i])]
           T == MergedTimes(pats, total, durs)
<1>1. DurSec(pats[1]) > 0 /\ DurSec(pats[2]) > 0
  BY DEF Layered
<1>2. total = MergeLength(durs)
  BY <1>1, MergedKeys
<1>3. /\ Two(durs) /\ total \in Nat \ {0}
      /\ T \subseteq 0..total /\ 0 \in T
      /\ \A i, j \in 1..Len(M.keys) : i < j => M.keys[i].at < M.keys[j].at
      /\ \A x \in T : \E i \in 1..Len(M.keys) : M.keys[i].at = x
      /\ \A k \in 1..Len(M.keys) :
           /\ M.keys[k].at \in T
           /\ M.keys[k].shape = FillZeroFields([i \in DOMAIN pats |-> PhaseShape(pats[i], total, M.keys[k].at)])
  BY <1>1, <1>2, MergedKeys
<1>4. KeysOK(M.keys) /\ \A i \in {1, 2} : KeysOK(pats[i].keys)
  BY <1>1, MergedShape DEF Shaped
<1>5. M.keys # <<>> /\ M.keys[1].at = 0 /\ \A i \in 1..Len(M.keys) : M.keys[i].at % Half = 0
  <2>1. Playable(M)
    BY DEF Layered
  <2>2. Len(M.keys) \in 2..MaxKeys /\ M.keys[1].at = 0 /\ \A i \in 1..Len(M.keys) : M.keys[i].at % Half = 0
    BY <2>1 DEF Playable
  <2>3. PICK S : M.keys \in Seq(S)
    BY <1>4 DEF KeysOK
  <2> QED BY <2>2, <2>3
<1>6. \A x \in T : x % Half = 0
  BY <1>3, <1>5
<1>7. \A i \in {1, 2} : durs[i] = DurSec(pats[i]) /\ durs[i] \in Nat \ {0}
  BY <1>3 DEF Two
<1> HIDE DEF M, durs, T
<1>8. total \in T
  <2>1. MergedTimes(pats, total, durs) = {0, total} \union MergedTimes(pats, total, durs)
    BY DEF MergedTimes
  <2> QED BY <2>1 DEF T
<1>9. Gridded(total) /\ Gridded(0)
  BY <1>3, <1>6, <1>8 DEF Gridded
<1>10. 1 \in Nat /\ total \in Nat \ {0} /\ Len(M.keys) \in Nat /\ \A i \in 1..Len(M.keys) : M.keys[i].at \in Nat
  BY <1>3, <1>4, KeysAt
<1>a. PICK one \in Nat : one = 1
  OBVIOUS
<1>b. \E k \in 1..Len(M.keys) :
         M.keys[k].at * one <= t /\ \A l \in k + 1..Len(M.keys) : t < M.keys[l].at * one
  <2>1. KeysOK(M.keys) /\ M.keys # <<>> /\ M.keys[1].at = 0
    BY <1>4, <1>5
  <2> QED BY <2>1, SomeKey
<1>11. PICK k \in 1..Len(M.keys) :
         M.keys[k].at * one <= t /\ \A l \in k + 1..Len(M.keys) : t < M.keys[l].at * one
  BY <1>b
<1>12. AtMoment(M, t, 1) = M.keys[k].shape
  <2>1. AtMoment(M, t, one) = M.keys[k].shape
    BY <1>4, <1>11, AtMomentIs
  <2> QED BY <1>a, <2>1
<1> DEFINE s == M.keys[k].at
<1>13. s \in Nat /\ s <= t /\ s \in T
  <2>1. s \in Nat /\ s \in T
    BY <1>3, <1>10
  <2>2. s * one <= t
    BY <1>11
  <2> HIDE DEF s
  <2> QED BY <1>a, <2>1, <2>2
<1>14. ASSUME NEW x \in T, x <= t PROVE x <= s
  <2>1. PICK i \in 1..Len(M.keys) : M.keys[i].at = x
    BY <1>3
  <2>2. CASE i \in k + 1..Len(M.keys)
    <3>1. t < x * one /\ x \in Nat
      BY <1>10, <1>11, <2>1, <2>2
    <3> QED BY <1>a, <1>14, <3>1
  <2>3. CASE i <= k
    <3>1. i < k => x < s
      BY <1>3, <2>1
    <3>2. i = k => x = s
      BY <2>1
    <3>3. x \in Nat
      BY <1>10, <2>1
    <3> QED BY <1>10, <1>13, <2>3, <3>1, <3>2, <3>3
  <2> QED BY <1>10, <2>2, <2>3
<1> HIDE DEF s
<1>15. ASSUME NEW i \in {1, 2} PROVE PhaseShape(pats[i], total, s) = SourceAt(pats[i], total, t)
  <2> DEFINE p == pats[i]
             d == DurSec(p)
             n == Reps(total, d)
  <2>1. /\ KeysOK(p.keys) /\ OnGrid(p.keys) /\ d \in Nat \ {0} /\ n \in Nat \ {0} /\ d = durs[i]
        /\ Unrounded(p, total)
    BY <1>4, <1>7, <1>10, RepsType
  <2>2. p.keys # <<>> /\ p.keys[1].at = 0
    <3>1. p.keys # <<>>
      BY <2>1 DEF DurSec
    <3> QED BY <2>1, <3>1 DEF OnGrid
  <2> HIDE DEF p, d, n
  <2>3. ASSUME NEW q \in 0..(n - 1), NEW j \in 1..Len(p.keys), (q * d + p.keys[j].at) * total <= t * (n * d)
        PROVE  (q * d + p.keys[j].at) * total <= s * (n * d)
    <3> DEFINE L == Laid(total, n, d, q, p.keys[j].at)
               m == (q * d + p.keys[j].at) * total
               e == n * d
    <3>1. p.keys[j].at \in Nat /\ q \in Nat
      BY <2>1, KeysAt
    <3>2. m \in Nat /\ e \in Nat \ {0}
      <4>1. q * d \in Nat
        BY <2>1, <3>1, Products
      <4>2. q * d + p.keys[j].at \in Nat /\ total \in Nat
        BY <1>10, <3>1, <4>1
      <4>3. m \in Nat
        BY <4>2, Products
      <4>4. n \in Nat \ {0} /\ d \in Nat \ {0}
        BY <2>1
      <4>5. e \in Nat \ {0}
        BY ONLY <4>4, Products DEF e
      <4> QED BY <4>3, <4>5
    <3>3. L \in Nat
      BY <1>10, <2>1, <3>1, LaidType
    <3>4. L <= t
      <4>1. m <= t * e
        BY <2>3
      <4> HIDE DEF m, e
      <4>2. RoundDiv(m, e) <= t
        BY <3>2, <4>1, LaidBy
      <4> QED BY <4>2 DEF Laid, m, e
    <3>5. L = 0 \/ L \in T
      <4>1. /\ DOMAIN pats = {1, 2} /\ KeysOK(pats[1].keys) /\ KeysOK(pats[2].keys) /\ Two(durs)
            /\ total \in Nat \ {0}
        BY <1>3, <1>4
      <4>2. q \in 0..(Reps(total, durs[i]) - 1) /\ j \in 1..Len(pats[i].keys)
        BY <2>1 DEF n, p, d
      <4>3. Laid(total, Reps(total, durs[i]), durs[i], q, pats[i].keys[j].at)
              \in {0} \union MergedTimes(pats, total, durs) \union {x \in Nat : x >= total}
        BY <4>1, <4>2, LaidAmongTimes
      <4>4. L \in {0} \union T \union {x \in Nat : x >= total}
        BY <2>1, <4>3 DEF n, p, d, T
      <4> HIDE DEF L
      <4>5. total \in Nat
        BY <1>10
      <4>6. \A x, y, z \in Nat : x <= y /\ y < z => ~(x >= z)
        OBVIOUS
      <4>7. ~(L >= total)
        BY <3>3, <3>4, <4>5, <4>6
      <4> QED BY <4>4, <4>7
    <3>6. L <= s
      <4> HIDE DEF L
      <4>1. CASE L = 0
        BY <1>13, <4>1
      <4>2. CASE L \in T
        BY <1>14, <3>4, <4>2
      <4> QED BY <3>5, <4>1, <4>2
    <3>7. Gridded(L)
      BY <1>6, <1>9, <3>5 DEF Gridded
    <3>8. Exactly(total, n, d, q, p.keys[j].at)
      BY <1>9, <1>10, <2>1, <3>1, <3>7, LaidExactly DEF d, n
    <3>9. m = L * e
      BY <3>8 DEF Exactly
    <3> HIDE DEF m, L, e
    <3>10. m <= s * e
      BY <1>13, <3>2, <3>3, <3>6, <3>9, TimesLess
    <3> QED BY <3>10 DEF m, e
  <2>4. PhaseShape(p, total, s) = SourceAt(p, total, t)
    BY <1>10, <1>13, <2>1, <2>2, <2>3, SamePhase DEF d, n
  <2> QED BY <2>4 DEF p
<1>16. [i \in DOMAIN pats |-> PhaseShape(pats[i], total, s)] = [i \in DOMAIN pats |-> SourceAt(pats[i], total, t)]
  BY <1>15
<1>17. M.keys[k].shape = FillZeroFields([i \in DOMAIN pats |-> PhaseShape(pats[i], total, s)])
  BY <1>3 DEF s
<1> QED BY <1>12, <1>16, <1>17 DEF M

\* The first of two to set an axis.
LEMMA FirstToSet ==
  ASSUME NEW shapes, DOMAIN shapes = {1, 2}, NEW a \in Axes
  PROVE  \/ FillZeroFields(shapes)[a] = shapes[1][a] /\ FillZeroFields(shapes)[a] # 0
         \/ FillZeroFields(shapes)[a] = shapes[2][a] /\ shapes[1][a] = 0
<1> DEFINE set == {i \in DOMAIN shapes : shapes[i][a] # 0}
           first == CHOOSE i \in set : \A j \in set : i <= j
<1>1. FillZeroFields(shapes)[a] = IF set = {} THEN 0 ELSE shapes[first][a]
  BY DEF FillZeroFields
<1>2. CASE shapes[1][a] # 0
  <2>1. 1 \in set /\ set \subseteq {1, 2}
    BY <1>2
  <2> HIDE DEF set
  <2>2. \A j \in set : 1 <= j
    BY <2>1
  <2>3. first \in set /\ first <= 1 /\ first \in {1, 2}
    BY <2>1, <2>2
  <2>4. first = 1
    BY <2>1, <2>3
  <2> QED BY <1>1, <1>2, <2>1, <2>4
<1>3. CASE shapes[1][a] = 0 /\ shapes[2][a] # 0
  <2>1. set = {2}
    BY <1>3
  <2> HIDE DEF set
  <2>2. first = 2
    BY <2>1
  <2> QED BY <1>1, <1>3, <2>1, <2>2
<1>4. CASE shapes[1][a] = 0 /\ shapes[2][a] = 0
  <2>1. set = {}
    BY <1>4
  <2> QED BY <1>1, <1>4, <2>1
<1> QED BY <1>2, <1>3, <1>4

\* An event laid in the last of a source's rounds, before its end, is laid before the end.
LEMMA LaidInTime ==
  ASSUME NEW total \in Nat \ {0}, NEW n \in Nat \ {0}, NEW d \in Nat \ {0}, n * d < 2 * total,
         NEW q \in Nat, q < n, NEW at \in Nat, at < d
  PROVE  Laid(total, n, d, q, at) < total
<1> DEFINE e == n * d
           w == q * d + at
           x == Laid(total, n, d, q, at)
<1>1. e \in Nat \ {0} /\ w \in Nat /\ x \in Nat
  <2>1. q * d \in Nat
    BY Products
  <2>2. w \in Nat /\ e \in Nat \ {0}
    BY <2>1, Products
  <2>3. x \in Nat
    BY LaidType
  <2> QED BY <2>2, <2>3
<1>2. w + 1 <= e
  <2>1. (q + 1) * d <= n * d /\ (q + 1) * d = q * d + d
    BY TimesLess
  <2>2. q * d \in Nat
    BY Products
  <2> QED BY <1>1, <2>1, <2>2
<1>3. 2 * (x * e) <= 2 * (w * total) + e
  <2>1. w * total \in Nat /\ x = RoundDiv(w * total, e)
    BY <1>1, Products DEF Laid
  <2> HIDE DEF e, w, x
  <2> QED BY <1>1, <2>1, RoundDivNear
<1>4. e < 2 * total
  OBVIOUS
<1> HIDE DEF e, w, x
<1>5. w * total + total <= e * total
  <2>1. (w + 1) * total <= e * total /\ (w + 1) * total = w * total + total
    BY <1>1, <1>2, TimesLess
  <2> QED BY <2>1
<1>6. w * total \in Nat /\ e * total \in Nat /\ x * e \in Nat
  BY <1>1, Products
<1> SUFFICES ASSUME total <= x PROVE FALSE
  BY <1>1 DEF x
<1>7. total * e <= x * e /\ total * e = e * total
  BY <1>1, TimesLess
<1> DEFINE we == w * total  ee == e * total  xx == x * e
<1>8. ee <= xx /\ 2 * xx <= 2 * we + e /\ we + total <= ee
  BY <1>3, <1>5, <1>7
<1>9. we \in Nat /\ ee \in Nat /\ xx \in Nat
  BY <1>6
<1> HIDE DEF we, ee, xx
<1> QED BY <1>1, <1>4, <1>8, <1>9

\* One after the end is laid after it, if the source goes round once.
LEMMA LaidTooLate ==
  ASSUME NEW total \in Nat \ {0}, NEW d \in Nat \ {0}, NEW at \in Nat, d <= at
  PROVE  total <= Laid(total, 1, d, 0, at)
<1> DEFINE x == Laid(total, 1, d, 0, at)
           m == at * total
<1>1. m \in Nat /\ x \in Nat
  BY Products, LaidType
<1>2. x = RoundDiv(m, d)
  <2>1. (0 * d + at) * total = m /\ 1 * d = d
    OBVIOUS
  <2> QED BY <2>1 DEF Laid
<1> HIDE DEF x
<1>3. 2 * m + d < 2 * (x * d) + 2 * d
  <2> HIDE DEF m
  <2> QED BY <1>1, <1>2, RoundDivNear
<1>4. d * total <= m
  BY TimesLess
<1> SUFFICES ASSUME x + 1 <= total PROVE FALSE
  BY <1>1 DEF x
<1>5. (x + 1) * d <= total * d /\ (x + 1) * d = x * d + d /\ total * d = d * total
  BY <1>1, TimesLess
<1>6. x * d \in Nat /\ d * total \in Nat
  BY <1>1, Products
<1> DEFINE dt == d * total  xd == x * d
<1>7. 2 * m + d < 2 * xd + 2 * d /\ dt <= m /\ xd + d <= dt
  BY <1>3, <1>4, <1>5
<1> HIDE DEF m, dt, xd
<1> QED BY <1>1, <1>6, <1>7 DEF dt, xd

\* A lane that a merge repeats as often as its source goes round: none of its events comes
\* after the source's end, unless the source goes round once, when those are dropped.
Punctual(lane, n, d) == n = 1 \/ \A i \in DOMAIN lane : lane[i].at < d

LEMMA RepeatedDue ==
  ASSUME NEW E, Timed(E), NEW lane \in Seq(E), NEW total \in Nat \ {0}, NEW d \in Nat \ {0}, d <= total,
         Punctual(lane, Reps(total, d), d)
  PROVE  /\ Repeated(lane, total, d) \in Seq(E)
         /\ Len(Repeated(lane, total, d)) = Reps(total, d) * Due(lane, d)
<1> DEFINE n == Reps(total, d)
           k == Len(lane)
           at(i) == lane[((i - 1) % k) + 1].at
           K == {i \in 1..(n * k) : Laid(total, n, d, (i - 1) \div k, at(i)) < total}
           D == {i \in DOMAIN lane : lane[i].at < d}
<1>1. n \in Nat \ {0} /\ total \in Nat
  BY RepsType
<1>2. k \in Nat /\ DOMAIN lane = 1..k /\ \A i \in 1..k : lane[i].at \in Nat
  <2>1. k \in Nat /\ DOMAIN lane = 1..k /\ \A i \in 1..k : lane[i] \in E
    OBVIOUS
  <2> HIDE DEF k
  <2> QED BY <2>1 DEF Timed
<1>3. Repeated(lane, total, d) \in Seq(E) /\ Len(Repeated(lane, total, d)) = Cardinality(K)
  <2>1. K = KeptOf(lane, total, d)
    BY DEF KeptOf
  <2> HIDE DEF K
  <2> QED BY <1>1, <2>1, RepeatedLen
<1>4. n * d <= total /\ n * d \in Nat
  <2>1. total \div d \in Nat /\ total \div d >= 1
    <3>1. \A x \in Nat, y \in Nat \ {0} : y <= x => x \div y \in Nat /\ x \div y >= 1
      OBVIOUS
    <3> QED BY <1>1, <3>1
  <2>2. n = total \div d
    BY <2>1 DEF Reps
  <2> HIDE DEF n
  <2>3. n <= total \div d
    BY <2>1, <2>2
  <2>4. n * d <= total
    BY <1>1, <2>3, DivTimes
  <2> QED BY <1>1, <2>4, Products
<1>5. n * d < 2 * total
  <2> DEFINE e == n * d
  <2>1. e <= total /\ e \in Nat /\ total > 0
    BY <1>1, <1>4
  <2> HIDE DEF e
  <2>2. e < 2 * total
    BY <1>1, <2>1
  <2> QED BY <2>2 DEF e
<1> HIDE DEF n, k
<1>6. CASE n = 1
  <2>1. 1..(n * k) = 1..k
    BY <1>2, <1>6
  <2>2. ASSUME NEW i \in 1..k
        PROVE  Laid(total, n, d, (i - 1) \div k, at(i)) < total <=> lane[i].at < d
    <3>1. (i - 1) \div k = 0 /\ (i - 1) % k = i - 1
      <4>1. i - 1 \in Nat /\ k \in Nat \ {0} /\ i - 1 < k
        BY <1>2
      <4>2. i - 1 = 0 * k + (i - 1)
        BY <1>2
      <4>3. 0 \in Nat
        OBVIOUS
      <4> DEFINE h == i - 1
      <4> HIDE DEF h
      <4>4. h \div k = 0 /\ h % k = h
        BY <4>1, <4>2, <4>3, DivModUnique DEF h
      <4> QED BY <4>4 DEF h
    <3>2. at(i) = lane[i].at
      <4>1. (i - 1) + 1 = i
        BY <1>2
      <4> QED BY <3>1, <4>1
    <3> DEFINE a == lane[i].at
               L == Laid(total, 1, d, 0, a)
    <3>3. a \in Nat
      BY <1>2
    <3> HIDE DEF a
    <3>4. a < d => L < total
      BY <1>1, <1>5, <1>6, <3>3, LaidInTime
    <3>5. ~(a < d) => total <= L
      <4>1. ~(a < d) => d <= a
        BY <3>3
      <4> QED BY <3>3, <4>1, LaidTooLate
    <3>6. L \in Nat
      <4>1. 1 \in Nat \ {0} /\ 0 \in Nat
        OBVIOUS
      <4> QED BY <1>1, <3>3, <4>1, LaidType
    <3> HIDE DEF L
    <3>7. L < total <=> a < d
      BY <1>1, <3>4, <3>5, <3>6
    <3> HIDE DEF at
    <3> QED BY <1>6, <3>1, <3>2, <3>7 DEF L, a
  <2>3. K = D
    <3> HIDE DEF at
    <3>1. \A i \in 1..k : i \in K <=> i \in D
      BY <1>2, <2>1, <2>2
    <3>2. K \subseteq 1..k /\ D \subseteq 1..k
      BY <1>2, <2>1
    <3> HIDE DEF K, D
    <3> QED BY <3>1, <3>2
  <2>4. Due(lane, d) = Cardinality(K)
    BY <2>3 DEF Due
  <2>5. Due(lane, d) \in Nat
    <3>1. IsFiniteSet(D)
      <4>1. IsFiniteSet(1..k) /\ D \subseteq 1..k
        BY <1>2, FS_Interval
      <4> HIDE DEF D
      <4> QED BY <4>1, FS_Subset
    <3> HIDE DEF D
    <3>2. Cardinality(D) \in Nat
      BY <3>1, FS_CardinalityType
    <3> QED BY <3>2 DEF Due, D
  <2> HIDE DEF K
  <2>6. n * Due(lane, d) = Due(lane, d)
    BY <1>6, <2>5
  <2> QED BY <1>3, <2>4, <2>6 DEF n
<1>7. CASE \A i \in DOMAIN lane : lane[i].at < d
  <2>1. D = 1..k
    BY <1>2, <1>7
  <2>2. K = 1..(n * k)
    <3>1. ASSUME NEW i \in 1..(n * k) PROVE Laid(total, n, d, (i - 1) \div k, at(i)) < total
      <4> DEFINE q == (i - 1) \div k
                 w == at(i)
      <4>1. ((i - 1) % k) + 1 \in 1..k /\ q \in Nat
        BY <1>1, <1>2, WithinLane
      <4>2. w \in Nat /\ w < d
        BY <1>2, <1>7, <4>1
      <4>3. q < n
        <5>1. n * k \in Nat /\ k # 0
          <6>1. n * k \in Nat
            BY <1>1, <1>2, Products
          <6>2. k = 0 => n * k = 0
            BY <1>1
          <6> QED BY <6>1, <6>2
        <5>2. i - 1 \in Nat /\ k \in Nat \ {0} /\ i - 1 < n * k /\ q <= (i - 1) \div k
          <6> DEFINE N == n * k
          <6>1. N \in Nat /\ i \in 1..N
            BY <5>1
          <6> HIDE DEF N
          <6>2. i - 1 \in Nat /\ i - 1 < N
            BY <6>1
          <6>3. q <= q /\ k \in Nat \ {0}
            BY <1>2, <4>1, <5>1
          <6> QED BY <6>2, <6>3 DEF N
        <5> HIDE DEF q
        <5>3. q * k <= i - 1
          BY <4>1, <5>2, DivTimes
        <5> SUFFICES ASSUME n <= q PROVE FALSE
          BY <1>1, <4>1
        <5>4. n * k <= q * k
          BY <1>1, <1>2, <4>1, TimesLess
        <5>5. q * k \in Nat
          BY <1>2, <4>1, Products
        <5> DEFINE qk == q * k  nk == n * k
        <5>6. qk <= i - 1 /\ nk <= qk /\ i - 1 < nk /\ qk \in Nat /\ nk \in Nat /\ i - 1 \in Nat
          BY <5>1, <5>2, <5>3, <5>4, <5>5
        <5> HIDE DEF qk, nk
        <5> QED BY <5>6
      <4> HIDE DEF q, w
      <4>4. Laid(total, n, d, q, w) < total
        BY <1>1, <1>5, <4>1, <4>2, <4>3, LaidInTime
      <4> QED BY <4>4 DEF q, w
    <3> QED BY <3>1
  <2>3. Cardinality(K) = n * k /\ Due(lane, d) = k
    <3>1. n * k \in Nat
      BY <1>1, <1>2, Products
    <3>2. \A m \in Nat : Cardinality(1..m) = m
      BY FS_Interval
    <3> HIDE DEF K, D
    <3>3. Cardinality(1..(n * k)) = n * k /\ Cardinality(1..k) = k
      BY <1>2, <3>1, <3>2
    <3> QED BY <2>1, <2>2, <3>3 DEF Due, D
  <2> HIDE DEF K
  <2> QED BY <1>3, <2>3 DEF n
<1> QED BY <1>3, <1>6, <1>7 DEF Punctual, n

\* So the lanes of a merge hold what is due of its sources', once in each of their rounds.
LEMMA MergedEvents ==
  ASSUME NEW E, Timed(E), NEW lanes, lanes \in [{1, 2} -> Seq(E)], NEW durs, Two(durs),
         NEW total \in Nat \ {0}, durs[1] <= total, durs[2] <= total,
         \A i \in {1, 2} : Punctual(lanes[i], Reps(total, durs[i]), durs[i])
  PROVE  /\ MergeLanes(lanes, total, durs) \in Seq(E)
         /\ Len(MergeLanes(lanes, total, durs))
              = Reps(total, durs[1]) * Due(lanes[1], durs[1]) + Reps(total, durs[2]) * Due(lanes[2], durs[2])
<1>1. ASSUME NEW i \in {1, 2}
      PROVE  /\ Repeated(lanes[i], total, durs[i]) \in Seq(E)
             /\ Len(Repeated(lanes[i], total, durs[i])) = Reps(total, durs[i]) * Due(lanes[i], durs[i])
  <2>1. durs[i] \in Nat \ {0} /\ durs[i] <= total /\ lanes[i] \in Seq(E)
    BY DEF Two
  <2> QED BY <2>1, RepeatedDue
<1> DEFINE r == [i \in DOMAIN lanes |-> Repeated(lanes[i], total, durs[i])]
<1>2. DOMAIN lanes = {1, 2}
  OBVIOUS
<1>3. r \in [{1, 2} -> Seq(E)] /\ r[1] = Repeated(lanes[1], total, durs[1]) /\ r[2] = Repeated(lanes[2], total, durs[2])
  BY <1>1, <1>2
<1>4. MergeLanes(lanes, total, durs) = FlattenSeq(r)
  BY DEF MergeLanes
<1> HIDE DEF r
<1>5. FlattenSeq(r) = r[1] \o r[2] /\ FlattenSeq(r) \in Seq(E)
  BY <1>3, TwoLanes
<1>6. Len(FlattenSeq(r)) = Len(r[1]) + Len(r[2])
  BY <1>3, <1>5
<1> QED BY <1>1, <1>3, <1>4, <1>5, <1>6

----------------------------------------------------------------------------
(* Stretching and renaming patterns leaves patterns.                       *)

LEMMA StretchedShape ==
  ASSUME NEW p, Shaped(p), NEW tenths \in Nat, Half \in Nat \ {0}
  PROVE  Shaped(StretchPattern(p, tenths))
<1> DEFINE at(i) == RoundDiv(p.keys[i].at * tenths, 10 * Half) * Half
           keys == [i \in DOMAIN p.keys |-> [p.keys[i] EXCEPT !.at = at(i)]]
<1>1. PICK S : p.keys \in Seq(S) /\ \A k \in S : KeyOK(k)
  BY DEF Shaped, KeysOK
<1>2. Len(p.keys) \in Nat /\ DOMAIN p.keys = 1..Len(p.keys)
  BY <1>1
<1>3. ASSUME NEW i \in DOMAIN p.keys
      PROVE  at(i) \in Nat
  <2>1. p.keys[i].at \in Nat
    BY <1>1 DEF KeyOK
  <2>2. p.keys[i].at * tenths \in Nat /\ 10 * Half \in Nat \ {0}
    BY <2>1, Products
  <2>3. RoundDiv(p.keys[i].at * tenths, 10 * Half) \in Nat
    BY <2>2, RoundDivType
  <2> QED BY <2>3, Products
<1>4. Stretched(p, tenths) = [p EXCEPT !.keys = keys]
  BY DEF Stretched
<1> HIDE DEF at
<1>5. \A i \in DOMAIN p.keys : KeyOK(keys[i])
  <2> TAKE i \in DOMAIN p.keys
  <2>1. p.keys[i] = [at |-> p.keys[i].at, shape |-> p.keys[i].shape]
    BY <1>1 DEF KeyOK
  <2>2. keys[i] = [at |-> at(i), shape |-> p.keys[i].shape]
    BY <2>1
  <2> QED BY <1>3, <2>2 DEF KeyOK
<1>6. DOMAIN keys = 1..Len(p.keys) /\ keys = [i \in 1..Len(p.keys) |-> keys[i]]
  BY <1>2
<1> HIDE DEF keys
<1>7. KeysOK(keys)
  BY <1>2, <1>5, <1>6, KeysOfTimes
<1>8. Stretched(p, tenths) = [keys |-> keys, links |-> p.links, radios |-> p.radios]
  BY <1>4 DEF Shaped
<1>9. Shaped(Stretched(p, tenths))
  BY <1>7, <1>8 DEF Shaped
<1> QED BY <1>9 DEF StretchPattern

LEMMA SequencesAreLanes ==
  ASSUME NEW T, NEW s \in Seq(T), NEW U, \A e \in T : e \in U
  PROVE  s \in Seq(U)
<1>1. Len(s) \in Nat /\ s \in [1..Len(s) -> T]
  OBVIOUS
<1>2. s \in [1..Len(s) -> U]
  BY <1>1
<1> QED BY <1>1, <1>2, FunctionIsSeq

LEMMA GivenShape ==
  ASSUME NEW p \in PatternsOf(ToSet(RadioOrder))
  PROVE  Shaped(p)
<1>1. /\ p = [keys |-> p.keys, links |-> p.links, radios |-> p.radios]
      /\ p.keys \in Seq(Keyframes) /\ p.radios \in Seq(RadioEvents(ToSet(RadioOrder)))
  BY DEF PatternsOf
<1>2. \A k \in Keyframes : KeyOK(k)
  BY DEF Keyframes, KeyOK
<1>3. \A e \in RadioEvents(ToSet(RadioOrder)) : e \in AnyEvent
  BY DEF RadioEvents, AnyEvent, AnyKind
<1>4. p.radios \in Seq(AnyEvent)
  BY <1>1, <1>3, SequencesAreLanes
<1> QED BY <1>1, <1>2, <1>4 DEF Shaped, KeysOK

LEMMA NamesAreKinds ==
  ASSUME NEW k \in AnyKind, k \in DOMAIN CurrentName
  PROVE  CurrentName[k] \in AnyKind
BY DEF CurrentName, OldNames, AnyKind, LinkKinds, RadioKinds

LEMMA NormalisedShape ==
  ASSUME NEW p, Shaped(p)
  PROVE  Shaped(NormalisePattern(p))
<1> DEFINE lane == Renamed(p.radios)
<1>1. p.radios \in Seq(AnyEvent) /\ Len(p.radios) \in Nat /\ DOMAIN p.radios = 1..Len(p.radios)
  BY DEF Shaped
<1>2. ASSUME NEW i \in 1..Len(p.radios)
      PROVE  lane[i] \in AnyEvent
  <2>1. p.radios[i] \in AnyEvent
    BY <1>1
  <2>2. p.radios[i].kind \in AnyKind
    BY <2>1 DEF AnyEvent
  <2> DEFINE k == IF p.radios[i].kind \in DOMAIN CurrentName THEN CurrentName[p.radios[i].kind]
                  ELSE p.radios[i].kind
  <2>3. k \in AnyKind
    BY <2>2, NamesAreKinds
  <2>4. lane[i] = [p.radios[i] EXCEPT !.kind = k]
    BY <1>1 DEF Renamed
  <2> HIDE DEF k, lane
  <2> QED BY <2>1, <2>3, <2>4 DEF AnyEvent
<1>3. lane \in [1..Len(p.radios) -> AnyEvent]
  BY <1>1, <1>2 DEF Renamed
<1> HIDE DEF lane
<1>4. lane \in Seq(AnyEvent)
  BY <1>1, <1>3, FunctionIsSeq
<1>5. NormalisePattern(p) = [keys |-> p.keys, links |-> Renamed(p.links), radios |-> lane]
  BY DEF NormalisePattern, lane
<1> QED BY <1>4, <1>5 DEF Shaped

----------------------------------------------------------------------------
(* Built-in patterns.                                                      *)

LEMMA WalkShape ==
  ASSUME NEW T, NEW shapes \in Seq(T), NEW dwell \in Nat
  PROVE  Shaped(Walk(shapes, dwell))
<1> DEFINE keys == [i \in DOMAIN shapes |-> [at |-> (i - 1) * dwell, shape |-> shapes[i]]]
<1>1. Len(shapes) \in Nat /\ DOMAIN shapes = 1..Len(shapes)
  OBVIOUS
<1>2. \A i \in 1..Len(shapes) : KeyOK(keys[i])
  <2> TAKE i \in 1..Len(shapes)
  <2>1. (i - 1) * dwell \in Nat
    BY <1>1, Products
  <2> QED BY <1>1, <2>1 DEF KeyOK
<1>3. DOMAIN keys = 1..Len(shapes) /\ keys = [i \in 1..Len(shapes) |-> keys[i]]
  BY <1>1
<1>4. Walk(shapes, dwell) = [keys |-> keys, links |-> <<>>, radios |-> <<>>]
  BY DEF Walk
<1> HIDE DEF keys
<1>5. KeysOK(keys)
  BY <1>1, <1>2, <1>3, KeysOfTimes
<1>6. <<>> \in Seq(AnyEvent)
  OBVIOUS
<1> QED BY <1>4, <1>5, <1>6 DEF Shaped

LEMMA CapsType ==
  ASSUME NEW rungs \in Seq(Rungs)
  PROVE  Caps(rungs) \in Seq(Nat) /\ Len(Caps(rungs)) = Len(rungs)
<1>1. Len(rungs) \in Nat /\ DOMAIN rungs = 1..Len(rungs) /\ \A i \in DOMAIN rungs : rungs[i] \in Rungs
  OBVIOUS
<1>2. \A r \in Rungs : CapFor(r) \in Nat
  BY RoundDivType DEF CapFor, Rungs
<1>3. \A x, y \in Nat : Max({x, y}) \in Nat
  <2> TAKE x \in Nat, y \in Nat
  <2>1. \E m \in {x, y} : \A n \in {x, y} : m >= n
    OBVIOUS
  <2> QED BY <2>1 DEF Max
<1>4. \A r \in Rungs : TopCapFor(r) \in Nat
  <2> TAKE r \in Rungs
  <2>1. r.cost * 3 \in Nat /\ 2 \in Nat \ {0}
    BY DEF Rungs
  <2>2. RoundDiv(r.cost * 3, 2) \in Nat
    BY <2>1, RoundDivType
  <2>3. CapFor(r) \in Nat
    BY <1>2
  <2> DEFINE x == CapFor(r)  y == RoundDiv(r.cost * 3, 2)
  <2> HIDE DEF x, y
  <2>4. Max({x, y}) \in Nat
    BY <1>3, <2>2, <2>3 DEF x, y
  <2> QED BY <2>4 DEF TopCapFor, x, y
<1>5. Caps(rungs) \in [1..Len(rungs) -> Nat]
  BY <1>1, <1>2, <1>4 DEF Caps
<1> QED BY <1>1, <1>5, FunctionIsSeq

LEMMA OutAndBackType ==
  ASSUME NEW T, NEW s \in Seq(T), Len(s) > 0
  PROVE  OutAndBack(s) \in Seq(T)
<1>1. Reverse(s) \in Seq(T) /\ Len(Reverse(s)) = Len(s)
  <2>1. Len(s) \in Nat /\ Reverse(s) \in [1..Len(s) -> T]
    BY DEF Reverse
  <2> QED BY <2>1, FunctionIsSeq
<1>2. Tail(Reverse(s)) \in Seq(T)
  BY <1>1
<1> QED BY <1>2 DEF OutAndBack

LEMMA LadderWalkType ==
  ASSUME NEW caps \in Seq(Nat), Len(caps) > 1, NEW n \in Walks
  PROVE  LadderWalk(n, caps) \in Seq(Nat)
<1> DEFINE down == Reverse(caps)
           top == Last(caps)
           shock == [i \in 1..(2 * Len(caps) - 1) |-> IF i % 2 = 1 THEN top ELSE down[(i \div 2) + 1]]
<1>1. Len(caps) \in Nat /\ caps \in [1..Len(caps) -> Nat]
  OBVIOUS
<1>2. down \in Seq(Nat) /\ Len(down) = Len(caps)
  <2>1. down \in [1..Len(caps) -> Nat]
    BY <1>1 DEF Reverse
  <2> QED BY <1>1, <2>1, FunctionIsSeq
<1>3. top \in Nat /\ caps[1] \in Nat /\ down[1] \in Nat
  BY <1>1, <1>2 DEF Last
<1> HIDE DEF down, top
<1>4. shock \in Seq(Nat)
  <2>1. ASSUME NEW i \in 1..(2 * Len(caps) - 1)
        PROVE  i % 2 = 1 \/ (i \div 2) + 1 \in 1..Len(caps)
    BY <1>1
  <2>2. \A k \in 1..Len(caps) : down[k] \in Nat
    BY <1>2
  <2>3. shock \in [1..(2 * Len(caps) - 1) -> Nat] /\ 2 * Len(caps) - 1 \in Nat
    BY <1>1, <1>3, <2>1, <2>2
  <2> QED BY <2>3, FunctionIsSeq
<1>5. /\ OutAndBack(caps) \in Seq(Nat) /\ OutAndBack(down) \in Seq(Nat)
      /\ Append(caps, caps[1]) \in Seq(Nat) /\ Append(down, down[1]) \in Seq(Nat)
      /\ <<caps[1], top, caps[1]>> \in Seq(Nat)
  BY <1>1, <1>2, <1>3, OutAndBackType
<1>6. CASE n = "pyramid"
  <2>1. LadderWalk(n, caps) = OutAndBack(caps)
    BY <1>6, Zenon DEF LadderWalk
  <2> QED BY <1>5, <2>1
<1>7. CASE n = "valley"
  <2>1. LadderWalk(n, caps) = OutAndBack(down)
    BY <1>7, Zenon DEF LadderWalk, down
  <2> QED BY <1>5, <2>1
<1>8. CASE n = "ramp_up"
  <2>1. LadderWalk(n, caps) = Append(caps, caps[1])
    BY <1>8, Zenon DEF LadderWalk
  <2> QED BY <1>5, <2>1
<1>9. CASE n = "ramp_down"
  <2>1. LadderWalk(n, caps) = Append(down, down[1])
    BY <1>9, Zenon DEF LadderWalk, down
  <2> QED BY <1>5, <2>1
<1>10. CASE n = "square_wave"
  <2>1. LadderWalk(n, caps) = <<caps[1], top, caps[1]>>
    BY <1>10, Zenon DEF LadderWalk, top
  <2> QED BY <1>5, <2>1
<1>11. CASE n = "transient_shock"
  <2>1. LadderWalk(n, caps) = shock
    BY <1>11, Zenon DEF LadderWalk, shock, down, top
  <2> QED BY <1>4, <2>1
<1> QED BY <1>6, <1>7, <1>8, <1>9, <1>10, <1>11 DEF Walks

LEMMA FixedShape ==
  ASSUME NEW a, NEW b, NEW c, NEW x \in Nat, NEW y \in Nat, NEW links, NEW p,
         \/ p = [keys |-> <<[at |-> 0, shape |-> a], [at |-> x, shape |-> b], [at |-> y, shape |-> c]>>,
                 links |-> links, radios |-> <<>>]
         \/ p = [keys |-> <<[at |-> 0, shape |-> a], [at |-> x, shape |-> b]>>,
                 links |-> links, radios |-> <<>>]
  PROVE  Shaped(p)
<1> DEFINE k1 == [at |-> 0, shape |-> a]  k2 == [at |-> x, shape |-> b]  k3 == [at |-> y, shape |-> c]
           S == {k1, k2, k3}
<1>1. KeyOK(k1) /\ KeyOK(k2) /\ KeyOK(k3)
  BY DEF KeyOK
<1>2. \A k \in S : KeyOK(k)
  BY <1>1
<1>3. p.keys = <<k1, k2, k3>> \/ p.keys = <<k1, k2>>
  OBVIOUS
<1>4. p = [keys |-> p.keys, links |-> p.links, radios |-> p.radios] /\ p.radios = <<>>
  OBVIOUS
<1>5. k1 \in S /\ k2 \in S /\ k3 \in S
  OBVIOUS
<1> HIDE DEF k1, k2, k3, S
<1>6. <<k1, k2, k3>> \in Seq(S) /\ <<k1, k2>> \in Seq(S)
  BY <1>5
<1>7. p.keys \in Seq(S)
  BY <1>3, <1>6
<1>8. <<>> \in Seq(AnyEvent)
  OBVIOUS
<1>9. KeysOK(p.keys)
  BY <1>2, <1>7 DEF KeysOK
<1> QED BY <1>4, <1>8, <1>9 DEF Shaped

LEMMA StepsType ==
  /\ \E T : OutAndBack(DelaySteps) \in Seq(T)
  /\ \E T : OutAndBack(ReorderSteps) \in Seq(T)
<1>1. ASSUME NEW n \in Nat \ {0}, NEW s, DOMAIN s = 1..n, s = [i \in 1..n |-> s[i]]
      PROVE  \E T : OutAndBack(s) \in Seq(T)
  <2> DEFINE T == {s[i] : i \in 1..n}
  <2>1. s \in [1..n -> T]
    BY <1>1
  <2> HIDE DEF T
  <2>2. s \in Seq(T) /\ Len(s) > 0
    BY <2>1, FunctionIsSeq
  <2> QED BY <2>2, OutAndBackType
<1>2. DOMAIN DelaySteps = 1..7 /\ DelaySteps = [i \in 1..7 |-> DelaySteps[i]]
  BY DEF DelaySteps
<1>3. DOMAIN ReorderSteps = 1..5 /\ ReorderSteps = [i \in 1..5 |-> ReorderSteps[i]]
  BY DEF ReorderSteps
<1>4. 7 \in Nat \ {0} /\ 5 \in Nat \ {0}
  OBVIOUS
<1> QED BY <1>1, <1>2, <1>3, <1>4

LEMMA LadderShape ==
  ASSUME NEW n \in Builtins, NEW rungs \in Seq(Rungs), Len(rungs) > 1, NEW dwell \in Nat
  PROVE  Shaped(LadderPattern(n, rungs, dwell))
<1>1. \A m \in DOMAIN Fixed : Shaped(Fixed[m])
  <2>1. ASSUME NEW x \in Nat, NEW y \in Nat PROVE Shaped(Blackhole(x, y))
    <3> DEFINE dark == [Clear EXCEPT !.loss = 100]  z == x + y
    <3>1. Blackhole(x, y) =
            [keys |-> <<[at |-> 0, shape |-> Clear], [at |-> x, shape |-> dark], [at |-> z, shape |-> Clear]>>,
             links |-> <<>>, radios |-> <<>>]
      BY DEF Blackhole
    <3>2. z \in Nat
      OBVIOUS
    <3> HIDE DEF dark, z
    <3> QED BY <3>1, <3>2, FixedShape
  <2>2. ASSUME NEW e, NEW x \in Nat PROVE Shaped(LinkPattern(e, x))
    <3>1. LinkPattern(e, x) = [keys |-> <<[at |-> 0, shape |-> Clear], [at |-> x, shape |-> Clear]>>,
                               links |-> <<e>>, radios |-> <<>>]
      BY DEF LinkPattern
    <3> QED BY <3>1, FixedShape
  <2>3. 5000 \in Nat /\ 1000 \in Nat /\ 6000 \in Nat
    OBVIOUS
  <2> QED BY <2>1, <2>2, <2>3 DEF Fixed
<1>2. \A m \in DOMAIN ClimbSteps : \E T : OutAndBack(ClimbSteps[m]) \in Seq(T)
  BY StepsType DEF ClimbSteps
<1>3. CASE n \in DOMAIN Fixed
  BY <1>1, <1>3 DEF LadderPattern
<1>4. CASE n \notin DOMAIN Fixed /\ n \in DOMAIN ClimbSteps
  BY <1>2, <1>4, WalkShape DEF LadderPattern
<1>5. CASE n \notin DOMAIN Fixed /\ n \notin DOMAIN ClimbSteps
  <2> DEFINE caps == Caps(rungs)
             steps == LadderWalk(n, caps)
             shapes == Climb("rate", steps)
  <2>1. LadderPattern(n, rungs, dwell) = Walk(shapes, dwell) /\ n \in Walks
    BY <1>5 DEF LadderPattern, Builtins
  <2>2. steps \in Seq(Nat)
    BY <2>1, CapsType, LadderWalkType
  <2> HIDE DEF steps
  <2>3. Len(steps) \in Nat /\ DOMAIN steps = 1..Len(steps)
    BY <2>2
  <2>4. DOMAIN shapes = 1..Len(steps) /\ shapes = [i \in 1..Len(steps) |-> shapes[i]]
    BY <2>3 DEF Climb
  <2> DEFINE T == {shapes[i] : i \in 1..Len(steps)}
  <2> HIDE DEF shapes
  <2>5. shapes \in [1..Len(steps) -> T]
    BY <2>4
  <2> HIDE DEF T
  <2>6. shapes \in Seq(T)
    BY <2>3, <2>5, FunctionIsSeq
  <2> QED BY <2>1, <2>6, WalkShape
<1> QED BY <1>3, <1>4, <1>5

----------------------------------------------------------------------------
(* What is done to patterns on the grid leaves them there.                 *)

\* Keyframes on the grid from 0 on, and a client's lane that a merge can lay in time.
Tidy(p) == OnGrid(p.keys) /\ p.links \in Seq(AnyLink)

LEMMA PlayableOnGrid == ASSUME NEW p, Playable(p) PROVE OnGrid(p.keys)
BY DEF Playable, OnGrid

LEMMA TidyGiven ==
  ASSUME NEW p \in Timelines, OnGrid(p.keys)
  PROVE  Tidy(p)
<1>1. p.links \in Seq(LinkEvents)
  BY DEF Timelines, PatternsOf
<1>2. \A e \in LinkEvents : e \in AnyLink
  BY DEF LinkEvents, AnyLink, AnyKind
<1>3. p.links \in Seq(AnyLink)
  BY <1>1, <1>2, SequencesAreLanes
<1> QED BY <1>3 DEF Tidy

LEMMA TidyNormal ==
  ASSUME NEW p, Tidy(p)
  PROVE  Tidy(NormalisePattern(p))
<1> DEFINE lane == Renamed(p.links)
<1>1. p.links \in Seq(AnyLink) /\ Len(p.links) \in Nat /\ DOMAIN p.links = 1..Len(p.links)
  BY DEF Tidy
<1>2. ASSUME NEW i \in 1..Len(p.links)
      PROVE  lane[i] \in AnyLink
  <2>1. p.links[i] \in AnyLink
    BY <1>1
  <2>2. p.links[i].kind \in AnyKind
    BY <2>1 DEF AnyLink
  <2> DEFINE k == IF p.links[i].kind \in DOMAIN CurrentName THEN CurrentName[p.links[i].kind]
                  ELSE p.links[i].kind
  <2>3. k \in AnyKind
    BY <2>2, NamesAreKinds
  <2>4. lane[i] = [p.links[i] EXCEPT !.kind = k]
    BY <1>1 DEF Renamed
  <2> HIDE DEF k, lane
  <2> QED BY <2>1, <2>3, <2>4 DEF AnyLink
<1>3. lane \in [1..Len(p.links) -> AnyLink]
  BY <1>1, <1>2 DEF Renamed
<1> HIDE DEF lane
<1>4. lane \in Seq(AnyLink)
  BY <1>1, <1>3, FunctionIsSeq
<1>5. NormalisePattern(p).keys = p.keys /\ NormalisePattern(p).links = lane
  BY DEF NormalisePattern, lane
<1> QED BY <1>4, <1>5 DEF Tidy

LEMMA TidyStretched ==
  ASSUME NEW p, Shaped(p), Tidy(p), NEW tenths, Stretchable(p, tenths), Half \in Nat \ {0}
  PROVE  Tidy(StretchPattern(p, tenths))
<1>1. CASE tenths = 10
  BY <1>1 DEF StretchPattern
<1>2. CASE tenths # 10
  <2> DEFINE q == Stretched(p, tenths)
             u(i) == RoundDiv(p.keys[i].at * tenths, 10 * Half)
  <2>1. tenths \in Nat /\ 10 * Half \in Nat \ {0}
    BY DEF Stretchable
  <2>2. Len(p.keys) \in Nat /\ DOMAIN p.keys = 1..Len(p.keys) /\ \A i \in 1..Len(p.keys) : p.keys[i].at \in Nat
    BY KeysAt DEF Shaped
  <2>3. q.links = p.links /\ q.keys = [i \in DOMAIN p.keys |-> [p.keys[i] EXCEPT !.at = u(i) * Half]]
    BY DEF Stretched, Shaped
  <2>4. \A i \in 1..Len(p.keys) : u(i) \in Nat
    <3> TAKE i \in 1..Len(p.keys)
    <3>1. p.keys[i].at * tenths \in Nat
      BY <2>1, <2>2, Products
    <3> QED BY <2>1, <3>1, RoundDivType
  <2>5. \A i \in 2..Len(q.keys) : q.keys[i - 1].at < q.keys[i].at
    BY <1>2 DEF Stretchable
  <2>6. Len(q.keys) = Len(p.keys)
    BY <2>2, <2>3
  <2>7. \A i \in 1..Len(p.keys) : q.keys[i].at = u(i) * Half
    <3> TAKE i \in 1..Len(p.keys)
    <3>1. p.keys[i] = [at |-> p.keys[i].at, shape |-> p.keys[i].shape]
      BY DEF Shaped, KeysOK, KeyOK
    <3> HIDE DEF q, u
    <3>2. q.keys[i] = [p.keys[i] EXCEPT !.at = u(i) * Half]
      BY <2>2, <2>3
    <3> QED BY <3>1, <3>2
  <2>8. p.keys # <<>> => u(1) = 0
    <3> SUFFICES ASSUME p.keys # <<>> PROVE u(1) = 0
      OBVIOUS
    <3>1. p.keys[1].at * tenths = 0
      BY <2>1 DEF Tidy, OnGrid
    <3>2. RoundDiv(0, 10 * Half) = 0
      <4>1. RoundDiv(0 * (10 * Half), 10 * Half) = 0
        BY <2>1, RoundDivExact
      <4> QED BY <2>1, <4>1
    <3> QED BY <3>1, <3>2
  <2> HIDE DEF q, u
  <2>9. \A i \in 1..Len(p.keys) : q.keys[i].at % Half = 0
    BY <2>4, <2>7, Grid
  <2>10. q.keys # <<>> => q.keys[1].at = 0
    <3>1. q.keys # <<>> => p.keys # <<>> /\ 1 \in 1..Len(p.keys)
      <4>1. p.keys = <<>> => q.keys = <<>>
        BY <2>3
      <4>2. \E S : p.keys \in Seq(S)
        BY DEF Shaped, KeysOK
      <4> QED BY <4>1, <4>2
    <3> QED BY <2>7, <2>8, <3>1
  <2>11. OnGrid(q.keys)
    BY <2>5, <2>6, <2>9, <2>10 DEF OnGrid
  <2> QED BY <1>2, <2>3, <2>11 DEF Tidy, StretchPattern, q
<1> QED BY <1>1, <1>2

\* What built-in patterns are held for.
GridAssumption ==
  /\ Dwell > 0 /\ Dwell % Half = 0 /\ 1000 % Half = 0
  /\ \A n \in Names : OldFile[n] = NoPattern \/ OnGrid(OldFile[n].keys)

LEMMA WalkTidy ==
  ASSUME NEW shapes, NEW dwell \in Nat, dwell > 0, Half \in Nat \ {0}, dwell % Half = 0,
         KeysOK(Walk(shapes, dwell).keys)
  PROVE  Tidy(Walk(shapes, dwell))
<1> DEFINE keys == Walk(shapes, dwell).keys
<1>1. keys = [i \in DOMAIN shapes |-> [at |-> (i - 1) * dwell, shape |-> shapes[i]]]
  BY DEF Walk
<1>2. Len(keys) \in Nat /\ DOMAIN keys = 1..Len(keys)
  BY KeysAt
<1>3. Walk(shapes, dwell).links = <<>>
  BY DEF Walk
<1> HIDE DEF keys
<1>4. \A i \in 1..Len(keys) : keys[i].at = (i - 1) * dwell
  BY <1>1, <1>2
<1>5. keys # <<>> => keys[1].at = 0
  <2>1. keys # <<>> => 1 \in 1..Len(keys)
    BY <1>2
  <2>2. (1 - 1) * dwell = 0
    OBVIOUS
  <2> QED BY <1>4, <2>1, <2>2
<1>6. ASSUME NEW i \in 2..Len(keys) PROVE keys[i - 1].at < keys[i].at
  <2>1. i \in 1..Len(keys) /\ i - 1 \in 1..Len(keys) /\ i \in Nat /\ i >= 2
    BY <1>2
  <2>2. keys[i].at = (i - 1) * dwell /\ keys[i - 1].at = ((i - 1) - 1) * dwell
    BY <1>4, <2>1
  <2>3. PICK w \in Nat : i = w + 2
    BY <2>1
  <2>4. (i - 1) * dwell = w * dwell + dwell /\ ((i - 1) - 1) * dwell = w * dwell
    BY <2>3
  <2>5. w * dwell \in Nat
    BY Products
  <2> QED BY <2>2, <2>4, <2>5
<1>7. ASSUME NEW i \in 1..Len(keys) PROVE keys[i].at % Half = 0
  <2>1. PICK a \in Nat : dwell = a * Half
    BY Grid
  <2>2. i - 1 \in Nat
    BY <1>2
  <2>3. (i - 1) * a \in Nat
    BY <2>2, Products
  <2>4. (((i - 1) * a) * Half) % Half = 0
    BY <2>3, Grid
  <2>5. ((i - 1) * a) * Half = (i - 1) * (a * Half)
    BY <2>2
  <2> QED BY <1>4, <2>1, <2>4, <2>5
<1>8. OnGrid(keys)
  BY <1>5, <1>6, <1>7 DEF OnGrid
<1>9. <<>> \in Seq(AnyLink)
  OBVIOUS
<1> QED BY <1>3, <1>8, <1>9 DEF Tidy, keys

LEMMA FixedTidy ==
  ASSUME Half \in Nat \ {0}, 1000 % Half = 0
  PROVE  \A m \in DOMAIN Fixed : Tidy(Fixed[m])
<1>1. PICK a \in Nat : 1000 = a * Half
  <2>1. 1000 \in Nat
    OBVIOUS
  <2> QED BY <2>1, Grid
<1>2. 0 % Half = 0 /\ 5000 % Half = 0 /\ 6000 % Half = 0
  <2>1. 0 \in Nat /\ 5 * a \in Nat /\ 6 * a \in Nat
    OBVIOUS
  <2>2. (0 * Half) % Half = 0 /\ ((5 * a) * Half) % Half = 0 /\ ((6 * a) * Half) % Half = 0
    BY <2>1, Grid
  <2>3. 0 * Half = 0 /\ (5 * a) * Half = 5 * (a * Half) /\ (6 * a) * Half = 6 * (a * Half)
    OBVIOUS
  <2>4. 5 * 1000 = 5000 /\ 6 * 1000 = 6000
    OBVIOUS
  <2> QED BY <1>1, <2>2, <2>3, <2>4
<1>3. Tidy(Blackhole(5000, 1000))
  <2> DEFINE keys == Blackhole(5000, 1000).keys
  <2>1. /\ Len(keys) = 3 /\ keys[1].at = 0 /\ keys[2].at = 5000 /\ keys[3].at = 6000
        /\ Blackhole(5000, 1000).links = <<>>
    BY DEF Blackhole
  <2> HIDE DEF keys
  <2>2. \A i \in 2..3 : keys[i - 1].at < keys[i].at
    <3>1. \A i \in 2..3 : i = 2 \/ i = 3
      OBVIOUS
    <3>2. keys[2 - 1].at < keys[2].at /\ keys[3 - 1].at < keys[3].at
      BY <2>1
    <3> QED BY <3>1, <3>2
  <2>3. \A i \in 1..3 : keys[i].at % Half = 0
    <3>1. \A i \in 1..3 : i = 1 \/ i = 2 \/ i = 3
      OBVIOUS
    <3> QED BY <1>2, <2>1, <3>1
  <2>4. OnGrid(keys)
    BY <2>1, <2>2, <2>3 DEF OnGrid
  <2>5. Blackhole(5000, 1000).links \in Seq(AnyLink)
    <3>0. <<>> \in Seq(AnyLink)
      OBVIOUS
    <3>1. PICK l \in Seq(AnyLink) : l = <<>>
      BY ONLY <3>0, Zenon
    <3>2. Blackhole(5000, 1000).links = l
      BY <2>1, <3>1
    <3> HIDE DEF keys
    <3> QED BY <3>2
  <2>6. OnGrid(Blackhole(5000, 1000).keys)
    BY <2>4 DEF keys
  <2> QED BY <2>5, <2>6 DEF Tidy
<1>4. ASSUME NEW e \in AnyLink PROVE Tidy(LinkPattern(e, 6000))
  <2> DEFINE keys == LinkPattern(e, 6000).keys
  <2>1. /\ Len(keys) = 2 /\ keys[1].at = 0 /\ keys[2].at = 6000
        /\ LinkPattern(e, 6000).links = <<e>>
    BY DEF LinkPattern
  <2> HIDE DEF keys
  <2>2. \A i \in 2..2 : keys[i - 1].at < keys[i].at
    <3>1. \A i \in 2..2 : i = 2
      OBVIOUS
    <3>2. keys[2 - 1].at < keys[2].at
      BY <2>1
    <3> QED BY <3>1, <3>2
  <2>3. \A i \in 1..2 : keys[i].at % Half = 0
    <3>1. \A i \in 1..2 : i = 1 \/ i = 2
      OBVIOUS
    <3> QED BY <1>2, <2>1, <3>1
  <2>4. OnGrid(keys)
    BY <2>1, <2>2, <2>3 DEF OnGrid
  <2>5. LinkPattern(e, 6000).links \in Seq(AnyLink)
    <3>0. <<e>> \in Seq(AnyLink)
      OBVIOUS
    <3>1. PICK l \in Seq(AnyLink) : l = <<e>>
      BY ONLY <3>0, Zenon
    <3>2. LinkPattern(e, 6000).links = l
      BY <2>1, <3>1
    <3> HIDE DEF keys
    <3> QED BY <3>2
  <2>6. OnGrid(LinkPattern(e, 6000).keys)
    BY <2>4 DEF keys
  <2> QED BY <2>5, <2>6 DEF Tidy
<1>5. /\ [kind |-> "deauth", at |-> 3000, dur |-> 0] \in AnyLink
      /\ [kind |-> "disassoc", at |-> 3000, dur |-> 0] \in AnyLink
      /\ [kind |-> "deadzone", at |-> 5000, dur |-> 1000] \in AnyLink
  BY DEF AnyLink, AnyKind, LinkKinds
<1> QED BY <1>3, <1>4, <1>5 DEF Fixed

LEMMA LadderTidy ==
  ASSUME GridAssumption, NEW n \in Builtins, NEW rungs \in Seq(Rungs), Len(rungs) > 1
  PROVE  Tidy(LadderPattern(n, rungs, Dwell))
<1>1. Dwell \in Nat /\ Dwell > 0 /\ Half \in Nat \ {0} /\ Dwell % Half = 0 /\ 1000 % Half = 0
  BY LibraryAssumption DEF GridAssumption
<1>2. CASE n \in DOMAIN Fixed
  BY <1>1, <1>2, FixedTidy DEF LadderPattern
<1>3. CASE n \notin DOMAIN Fixed
  <2> DEFINE shapes == IF n \in DOMAIN ClimbSteps THEN OutAndBack(ClimbSteps[n])
                       ELSE Climb("rate", LadderWalk(n, Caps(rungs)))
  <2>1. LadderPattern(n, rungs, Dwell) = Walk(shapes, Dwell)
    BY <1>3 DEF LadderPattern
  <2>2. KeysOK(LadderPattern(n, rungs, Dwell).keys)
    BY <1>1, LadderShape DEF Shaped
  <2> HIDE DEF shapes
  <2> QED BY <1>1, <2>1, <2>2, WalkTidy
<1> QED BY <1>2, <1>3

LEMMA DueType ==
  ASSUME NEW T, NEW lane \in Seq(T), NEW d
  PROVE  Due(lane, d) \in Nat
<1> DEFINE D == {i \in DOMAIN lane : lane[i].at < d}
<1>1. Len(lane) \in Nat /\ D \subseteq 1..Len(lane)
  OBVIOUS
<1>2. IsFiniteSet(1..Len(lane))
  BY <1>1, FS_Interval
<1> HIDE DEF D
<1>3. Cardinality(D) \in Nat
  BY <1>1, <1>2, FS_Subset, FS_CardinalityType
<1> QED BY <1>3 DEF Due, D

----------------------------------------------------------------------------
(* What the stores hold.                                                   *)

\* A pattern or none under each name; a ladder of rungs, at least two in the box's own store.
LibOK(l) ==
  /\ DOMAIN l = Names /\ l = [n \in Names |-> l[n]]
  /\ \A n \in Names : l[n] = NoPattern \/ Shaped(l[n])
LadderOK(l) == l = NoLadder \/ (l \in Seq(Rungs) /\ Len(l) > 1)
PolicyOK(p) ==
  /\ p = [slot |-> p.slot, swept |-> p.swept]
  /\ p.swept = NoLadder \/ p.swept \in Seq(Rungs)

Libs == LibOK(lib) /\ LibOK(libFile)
Lads == LadderOK(stored) /\ LadderOK(storedFile)
Pols == PolicyOK(pol) /\ PolicyOK(polFile)

\* What waits between two steps: a merge shown, an import of a valid document, and the box's
\* pattern, read and remapped to the radios there were.
Sheets == sheet = NoSheet \/ Shaped(sheet.pattern)
Imports ==
  import = NoImport \/
    \E doc \in {d \in Documents : ValidDocument(d)}, replace \in BOOLEAN :
    \E left \in SUBSET DOMAIN doc.patterns :
      import = [doc |-> doc, replace |-> replace, step |-> "patterns", left |-> left]
Readings ==
  reading = NoReading \/
    /\ Shaped(reading.from) /\ reading.have \subseteq ToSet(RadioOrder)
    /\ reading.to = Reconciled(reading.from, reading.have, RadioOrder)

\* All that a remapping needs: every way into the box's pattern leaves one that is Shaped.
Held ==
  /\ Libs /\ Lads /\ Pols
  /\ have \subseteq ToSet(RadioOrder) /\ Sheets /\ Imports /\ Readings

LEMMA UpgradedShape ==
  ASSUME NEW l, LibOK(l)
  PROVE  LibOK(Upgraded(l))
BY NormalisedShape DEF LibOK, Upgraded

LEMMA LibsWritten ==
  ASSUME Libs, NEW next, LibOK(next), NEW ok \in BOOLEAN, WriteNames(next, ok)
  PROVE  Libs'
BY DEF Libs, WriteNames

LEMMA LibsPut ==
  ASSUME Libs, NEW n \in Names, NEW p, p = NoPattern \/ Shaped(p),
         NEW ok \in BOOLEAN, PutPattern(n, p, ok)
  PROVE  Libs'
<1> DEFINE next == [lib EXCEPT ![n] = p]
<1>1. DOMAIN next = Names /\ next = [m \in Names |-> next[m]]
  BY DEF Libs, LibOK
<1>2. \A m \in Names : next[m] = IF m = n THEN p ELSE lib[m]
  BY DEF Libs, LibOK
<1>3. WriteNames(next, ok)
  BY DEF PutPattern
<1> HIDE DEF next
<1>4. LibOK(next)
  BY <1>1, <1>2 DEF Libs, LibOK
<1> QED BY <1>3, <1>4, LibsWritten

LEMMA LadsPut ==
  ASSUME Lads, NEW l, LadderOK(l), NEW ok \in BOOLEAN, PutLadder(l, ok)
  PROVE  Lads'
BY DEF Lads, PutLadder

LEMMA PolsPut ==
  ASSUME Pols, NEW p, PolicyOK(p), NEW ok \in BOOLEAN, PutPolicy(p, ok)
  PROVE  Pols'
BY DEF Pols, PutPolicy

LEMMA Kept ==
  /\ Libs /\ UNCHANGED patterns => Libs'
  /\ Lads /\ UNCHANGED ladders => Lads'
  /\ Pols /\ UNCHANGED policy => Pols'
  /\ Sheets /\ UNCHANGED sheet => Sheets'
  /\ Imports /\ UNCHANGED import => Imports'
  /\ Readings /\ UNCHANGED reading => Readings'
BY DEF Libs, patterns, Lads, ladders, Pols, policy, Sheets, Imports, Readings

LEMMA DefaultLadderOK == DefaultLadder \in Seq(Rungs) /\ Len(DefaultLadder) > 1
<1> DEFINE costs == <<40, 60, 90, 135, 203, 304, 456, 683>>
<1>1. \A i \in 1..8 : costs[i] \in Nat
  OBVIOUS
<1>2. DefaultLadder = [i \in 1..8 |-> [cost |-> costs[i], upAt |-> 0]]
  BY DEF DefaultLadder
<1> HIDE DEF costs
<1>3. DefaultLadder \in [1..8 -> Rungs] /\ 8 \in Nat
  BY <1>1, <1>2 DEF Rungs
<1>4. DefaultLadder \in Seq(Rungs) /\ Len(DefaultLadder) = 8
  BY <1>3, FunctionIsSeq
<1> QED BY <1>4

LEMMA WalkableLadder ==
  ASSUME Lads, Pols
  PROVE  GlobalLadder \in Seq(Rungs) /\ Len(GlobalLadder) > 1
<1>1. CASE stored # NoLadder
  BY <1>1 DEF GlobalLadder, Lads, LadderOK
<1>2. CASE stored = NoLadder /\ Walkable(pol.swept)
  <2>1. pol.swept \in Seq(Rungs) /\ Len(pol.swept) >= 2
    BY <1>2 DEF Walkable, Pols, PolicyOK
  <2>2. Len(pol.swept) > 1
    BY <2>1
  <2> QED BY <1>2, <2>1, <2>2 DEF GlobalLadder
<1>3. CASE stored = NoLadder /\ ~Walkable(pol.swept)
  BY <1>3, DefaultLadderOK DEF GlobalLadder
<1> QED BY <1>1, <1>2, <1>3

LEMMA NamedShape ==
  ASSUME Libs, Lads, Pols, NEW n \in Known
  PROVE  Shaped(Named(n))
<1>1. GlobalLadder \in Seq(Rungs) /\ Len(GlobalLadder) > 1
  BY WalkableLadder
<1>2. CASE n \in BuiltinNames
  <2>1. n \in Builtins /\ Dwell \in Nat
    BY <1>2, LibraryAssumption
  <2>2. Shaped(LadderPattern(n, GlobalLadder, Dwell))
    BY <1>1, <2>1, LadderShape
  <2> QED BY <1>2, <2>2 DEF Named, Builtin
<1>3. CASE n \notin BuiltinNames
  BY <1>3 DEF Known, Named, Libs, LibOK
<1> QED BY <1>2, <1>3

LEMMA StretchedNamed ==
  ASSUME Libs, Lads, Pols, NEW n \in Known, NEW tenths, Stretchable(Named(n), tenths)
  PROVE  Shaped(StretchPattern(Named(n), tenths))
<1>1. tenths \in Nat
  BY DEF Stretchable
<1>2. Half \in Nat \ {0}
  BY LibraryAssumption
<1> QED BY <1>1, <1>2, NamedShape, StretchedShape

\* What clients send, upgraded or not.
LEMMA Given ==
  /\ \A p \in Timelines : Shaped(p)
  /\ \A p \in Authored \union Radio : Shaped(p) /\ Shaped(NormalisePattern(p))
BY LibraryAssumption, GivenShape, NormalisedShape DEF Timelines

LEMMA NextHeld == ASSUME Held, [Next]_vars PROVE Held'
<1> USE Kept DEF Held
<1>1. ASSUME NEW ok \in BOOLEAN, NEW n \in Names, NEW p, Shaped(p), Save(n, p, ok) PROVE Held'
  <2>1. Libs'
    BY <1>1, LibsPut DEF Save
  <2> QED BY <1>1, <2>1 DEF Save, requests
<1>2. ASSUME NEW ok \in BOOLEAN, NEW n \in Names, SaveSheet(n, ok) PROVE Held'
  BY <1>1, <1>2 DEF SaveSheet, Sheets
<1>3. ASSUME NEW ok \in BOOLEAN, NEW n \in Names, Delete(n, ok) PROVE Held'
  <2>1. Libs'
    BY <1>3, LibsPut DEF Delete
  <2> QED BY <1>3, <2>1 DEF Delete, requests
<1>4. ASSUME NEW ok \in BOOLEAN, NEW n, NEW tenths, SelectPattern(n, tenths, ok) PROVE Held'
  <2>1. PolicyOK([pol EXCEPT !.slot = StretchPattern(Named(n), tenths)])
    BY DEF Pols, PolicyOK
  <2>2. Pols'
    BY <1>4, <2>1, PolsPut DEF SelectPattern
  <2> QED BY <1>4, <2>2 DEF SelectPattern, requests
<1>5. ASSUME NEW ok \in BOOLEAN, NEW p, PutSlot(p, ok) PROVE Held'
  <2>1. PolicyOK([pol EXCEPT !.slot = NormalisePattern(p)])
    BY DEF Pols, PolicyOK
  <2>2. Pols'
    BY <1>5, <2>1, PolsPut DEF PutSlot
  <2> QED BY <1>5, <2>2 DEF PutSlot, requests
<1>6. ASSUME NEW ok \in BOOLEAN, NEW p \in Radio, PutAdapterPattern(p, ok) PROVE Held'
  <2>1. Shaped(NormalisePattern(p)) /\ Adapter \in Names
    BY Given, LibraryAssumption
  <2>2. Libs'
    BY <1>6, <2>1, LibsPut DEF PutAdapterPattern
  <2> QED BY <1>6, <2>2 DEF PutAdapterPattern, requests
<1>7. ASSUME NEW ok \in BOOLEAN, NEW l \in Ladders, Sweep(l, ok) PROVE Held'
  <2>1. PICK one, other \in BOOLEAN :
          /\ ok = (one /\ other)
          /\ IF Walkable(l) THEN PutLadder(l, one) ELSE UNCHANGED ladders
          /\ PutPolicy([pol EXCEPT !.swept = l], other)
    BY <1>7 DEF Sweep
  <2>2. l \in Seq(Rungs)
    BY LibraryAssumption
  <2>3. Walkable(l) => LadderOK(l)
    BY <2>2 DEF Walkable, LadderOK
  <2>4. PolicyOK([pol EXCEPT !.swept = l])
    BY <2>2 DEF Pols, PolicyOK
  <2>5. Lads'
    BY <2>1, <2>3, LadsPut
  <2>6. Pols'
    BY <2>1, <2>4, PolsPut
  <2> QED BY <1>7, <2>5, <2>6 DEF Sweep, requests
<1>8. ASSUME NEW ok \in BOOLEAN, NEW l \in Ladders, TypeLadder(l, ok) PROVE Held'
  <2>1. PolicyOK([pol EXCEPT !.swept = l])
    BY LibraryAssumption DEF Pols, PolicyOK
  <2>2. Pols'
    BY <1>8, <2>1, PolsPut DEF TypeLadder
  <2> QED BY <1>8, <2>2 DEF TypeLadder, requests
<1>9. ASSUME NEW ok \in BOOLEAN, DeleteLadder(ok) PROVE Held'
  <2>1. PolicyOK([pol EXCEPT !.swept = NoLadder])
    BY DEF Pols, PolicyOK
  <2>2. Pols'
    BY <1>9, <2>1, PolsPut DEF DeleteLadder
  <2> QED BY <1>9, <2>2 DEF DeleteLadder, requests
<1>10. ASSUME NEW ok \in BOOLEAN, WriteAdapterPattern(ok) PROVE Held'
  <2>1. Shaped(reading.to) /\ Adapter \in Names
    BY <1>10, RemappedLanes, LibraryAssumption DEF WriteAdapterPattern, Readings
  <2>2. Libs'
    BY <1>10, <2>1, LibsPut DEF WriteAdapterPattern
  <2>3. Readings'
    BY <1>10 DEF WriteAdapterPattern, Readings
  <2> QED BY <1>10, <2>2, <2>3 DEF WriteAdapterPattern
<1>11. ASSUME NEW ok \in BOOLEAN, NEW doc \in Documents, NEW replace \in BOOLEAN,
              Import(doc, replace, ok)
       PROVE  Held'
  <2>1. PolicyOK(Blank)
    BY DEF PolicyOK, Blank
  <2>2. Pols'
    BY <1>11, <2>1, PolsPut DEF Import
  <2>3. Imports'
    BY <1>11 DEF Import, Imports
  <2> QED BY <1>11, <2>2, <2>3 DEF Import
<1>12. ASSUME NEW ok \in BOOLEAN, ImportPatterns(ok) PROVE Held'
  <2>1. PICK doc \in {d \in Documents : ValidDocument(d)}, replace \in BOOLEAN : \E left \in SUBSET DOMAIN doc.patterns :
          import = [doc |-> doc, replace |-> replace, step |-> "patterns", left |-> left]
    BY <1>12 DEF ImportPatterns, Imports, NoImport
  <2>2. PICK left \in SUBSET DOMAIN doc.patterns :
          import = [doc |-> doc, replace |-> replace, step |-> "patterns", left |-> left]
    BY <2>1
  <2> DEFINE next == [n \in Names |-> IF n \in left THEN doc.patterns[n] ELSE NoPattern]
  <2>3. \A n \in left : Shaped(doc.patterns[n])
    BY LibraryAssumption, Given
  <2>4. LibOK(next)
    BY <2>3 DEF LibOK
  <2>5. next = [n \in Names |-> IF n \in import.left THEN import.doc.patterns[n] ELSE NoPattern]
    BY <2>2
  <2> HIDE DEF next
  <2>6. Libs'
    BY <1>12, <2>4, <2>5, LibsWritten DEF ImportPatterns, ReplacePatterns
  <2>7. [import EXCEPT !.left = {}] = [doc |-> doc, replace |-> replace, step |-> "patterns", left |-> {}]
    BY <2>2
  <2>8. Imports'
    BY <1>12, <2>7 DEF ImportPatterns, Imports
  <2> QED BY <1>12, <2>6, <2>8 DEF ImportPatterns
<1>13. ASSUME NEW ok \in BOOLEAN, NEW n \in Names, ImportPattern(n, ok) PROVE Held'
  <2>1. PICK doc \in {d \in Documents : ValidDocument(d)}, replace \in BOOLEAN : \E left \in SUBSET DOMAIN doc.patterns :
          import = [doc |-> doc, replace |-> replace, step |-> "patterns", left |-> left]
    BY <1>13 DEF ImportPattern, Imports, NoImport
  <2>2. PICK left \in SUBSET DOMAIN doc.patterns :
          import = [doc |-> doc, replace |-> replace, step |-> "patterns", left |-> left]
    BY <2>1
  <2>3. n \in left /\ left \subseteq DOMAIN doc.patterns
    BY <1>13, <2>2 DEF ImportPattern
  <2>4. Shaped(doc.patterns[n])
    BY <2>3, LibraryAssumption, Given
  <2>5. Libs'
    BY <1>13, <2>2, <2>4, LibsPut DEF ImportPattern
  <2>6. [import EXCEPT !.left = @ \ {n}]
          = [doc |-> doc, replace |-> replace, step |-> "patterns", left |-> left \ {n}]
    BY <2>2
  <2>7. Imports'
    BY <1>13, <2>3, <2>6 DEF ImportPattern, Imports
  <2> QED BY <1>13, <2>5, <2>7 DEF ImportPattern
<1>14. ASSUME NEW ok \in BOOLEAN, ImportLadder(ok) PROVE Held'
  <2>1. PICK doc \in {d \in Documents : ValidDocument(d)}, replace \in BOOLEAN :
          \E left \in SUBSET DOMAIN doc.patterns :
            import = [doc |-> doc, replace |-> replace, step |-> "patterns", left |-> left]
    BY <1>14 DEF ImportLadder, Imports, NoImport
  <2>2. import.doc = doc
    BY <2>1
  <2>3. doc.ladder # NoLadder => LadderOK(doc.ladder)
    <3>1. doc.ladder # NoLadder => doc.ladder \in Seq(Rungs) /\ Len(doc.ladder) >= 2
      BY LibraryAssumption DEF ValidDocument, Walkable
    <3> QED BY <3>1 DEF LadderOK
  <2>4. Lads'
    BY <1>14, <2>2, <2>3, LadsPut DEF ImportLadder
  <2>5. Imports'
    BY <1>14 DEF ImportLadder, Imports
  <2> QED BY <1>14, <2>4, <2>5 DEF ImportLadder
<1>15. ASSUME NEW ok \in BOOLEAN, Restart(ok) PROVE Held'
  <2>1. Libs'
    BY <1>15, UpgradedShape DEF Restart, Libs
  <2>2. Lads' /\ Pols'
    BY <1>15 DEF Restart, Lads, Pols
  <2>3. Sheets' /\ Imports' /\ Readings'
    BY <1>15 DEF Restart, Sheets, Imports, Readings
  <2> QED BY <1>15, <2>1, <2>2, <2>3 DEF Restart
<1>16. ASSUME NEW a, NEW b, NEW tenths, MergePreview(a, b, tenths) PROVE Held'
  <2> DEFINE of == <<StretchPattern(Named(a), tenths), StretchPattern(Named(b), tenths)>>
  <2>1. Layered(of, MergePatterns(of)) /\ sheet' = [pattern |-> MergePatterns(of), of |-> of]
    BY <1>16 DEF MergePreview
  <2>2. Shaped(of[1]) /\ Shaped(of[2])
    BY <1>16, StretchedNamed DEF MergePreview
  <2>3. DOMAIN of = {1, 2}
    OBVIOUS
  <2> HIDE DEF of
  <2>4. DurSec(of[1]) > 0 /\ DurSec(of[2]) > 0
    BY <2>1, <2>3 DEF Layered
  <2>5. Shaped(MergePatterns(of))
    BY <2>2, <2>3, <2>4, MergedShape
  <2>6. Sheets'
    BY <2>1, <2>5 DEF Sheets
  <2> QED BY <1>16, <2>6 DEF MergePreview
<1>17. CASE ReadAdapterPattern
  <2>1. Shaped(lib[Adapter])
    BY <1>17, LibraryAssumption DEF ReadAdapterPattern, Libs, LibOK
  <2>2. Readings'
    BY <1>17, <2>1 DEF ReadAdapterPattern, Readings
  <2> QED BY <1>17, <2>2 DEF ReadAdapterPattern
<1>18. ASSUME NEW w \in ToSet(RadioOrder), Swap(w) PROVE Held'
  BY <1>18 DEF Swap, requests
<1>19. CASE UNCHANGED vars
  BY <1>19 DEF vars, patterns, ladders, policy
<1>20. ASSUME NEW ok \in BOOLEAN, NEW n \in Names, NEW p \in Authored, Save(n, p, ok) PROVE Held'
  BY <1>1, <1>20, Given
<1> QED BY <1>2, <1>3, <1>4, <1>5, <1>6, <1>7, <1>8, <1>9, <1>10, <1>11, <1>12, <1>13, <1>14,
           <1>15, <1>16, <1>17, <1>18, <1>19, <1>20 DEF Next

LEMMA InitHeld == ASSUME Init PROVE Held
<1>1. LibOK(OldFile)
  BY LibraryAssumption, Given DEF LibOK
<1>2. Libs
  BY <1>1, UpgradedShape DEF Init, Libs
<1>3. Lads /\ Pols
  BY DEF Init, Lads, Pols, LadderOK, PolicyOK, Blank
<1>4. Sheets /\ Imports /\ Readings
  BY DEF Init, Sheets, Imports, Readings
<1>5. have \subseteq ToSet(RadioOrder)
  BY DEF Init
<1> QED BY <1>2, <1>3, <1>4, <1>5 DEF Held

----------------------------------------------------------------------------
(* Merges are of patterns on the grid.                                     *)

LEMMA NamedTidy ==
  ASSUME GridAssumption, Libs, Lads, Pols, \A m \in Names : lib[m] = NoPattern \/ Tidy(lib[m]), NEW n \in Known
  PROVE  Tidy(Named(n))
<1>1. CASE n \in BuiltinNames
  <2>1. GlobalLadder \in Seq(Rungs) /\ Len(GlobalLadder) > 1 /\ n \in Builtins
    BY <1>1, WalkableLadder, LibraryAssumption
  <2> QED BY <1>1, <2>1, LadderTidy DEF Named, Builtin
<1>2. CASE n \notin BuiltinNames
  BY <1>2 DEF Known, Named
<1> QED BY <1>1, <1>2

LEMMA MergedLinks ==
  ASSUME NEW pats, DOMAIN pats = {1, 2}, \A i \in {1, 2} : Shaped(pats[i]) /\ Tidy(pats[i]) /\ DurSec(pats[i]) > 0
  PROVE  MergePatterns(pats).links \in Seq(AnyLink)
<1> DEFINE durs == [i \in DOMAIN pats |-> DurSec(pats[i])]
           total == MergeLength(durs)
           lanes == [i \in DOMAIN pats |-> pats[i].links]
           laid == [i \in DOMAIN lanes |-> Repeated(lanes[i], total, durs[i])]
<1>1. \A i \in {1, 2} : durs[i] \in Nat \ {0} /\ lanes[i] \in Seq(AnyLink)
  BY LengthType DEF Shaped, Tidy
<1>2. Two(durs) /\ DOMAIN lanes = {1, 2}
  BY <1>1 DEF Two
<1>3. total \in Nat
  BY <1>2, MergeHasALength
<1>4. MergePatterns(pats).links = FlattenSeq(laid)
  BY DEF MergePatterns, MergeLanes
<1> HIDE DEF lanes, durs, total
<1>5. \A i \in {1, 2} : Repeated(lanes[i], total, durs[i]) \in Seq(AnyLink)
  BY <1>1, <1>3, RepeatedLen, LanesAreTimed
<1>6. laid \in [{1, 2} -> Seq(AnyLink)]
  BY <1>2, <1>5
<1> HIDE DEF laid
<1> QED BY <1>4, <1>6, TwoLanes

\* A merge shown is made of patterns a merge can be made of, and is the one they make.
MadeOf(s) ==
  /\ s.pattern = MergePatterns(s.of) /\ Layered(s.of, s.pattern) /\ DOMAIN s.of = {1, 2}
  /\ \A i \in {1, 2} : Shaped(s.of[i]) /\ Tidy(s.of[i])

\* All that a merge needs: every way into the stores leaves patterns on the grid.
TidyLibs == \A n \in Names : (lib[n] = NoPattern \/ Tidy(lib[n])) /\ (libFile[n] = NoPattern \/ Tidy(libFile[n]))
TidyReading == reading = NoReading \/ Tidy(reading.to)
TidySheet == sheet = NoSheet \/ MadeOf(sheet)
TidyHeld == TidyLibs /\ TidyReading /\ TidySheet

LEMMA TidyWritten ==
  ASSUME TidyLibs, NEW next, \A n \in Names : next[n] = NoPattern \/ Tidy(next[n]),
         NEW ok \in BOOLEAN, WriteNames(next, ok)
  PROVE  TidyLibs'
BY DEF TidyLibs, WriteNames

LEMMA TidyPut ==
  ASSUME Libs, TidyLibs, NEW n \in Names, NEW p, p = NoPattern \/ Tidy(p),
         NEW ok \in BOOLEAN, PutPattern(n, p, ok)
  PROVE  TidyLibs'
<1> DEFINE next == [lib EXCEPT ![n] = p]
<1>1. \A m \in Names : next[m] = IF m = n THEN p ELSE lib[m]
  BY DEF Libs, LibOK
<1>2. WriteNames(next, ok)
  BY DEF PutPattern
<1> HIDE DEF next
<1>3. \A m \in Names : next[m] = NoPattern \/ Tidy(next[m])
  BY <1>1 DEF TidyLibs
<1> QED BY <1>2, <1>3, TidyWritten

LEMMA TidyKept ==
  /\ TidyLibs /\ UNCHANGED patterns => TidyLibs'
  /\ TidyReading /\ UNCHANGED reading => TidyReading'
  /\ TidySheet /\ UNCHANGED sheet => TidySheet'
BY DEF TidyLibs, patterns, TidyReading, TidySheet

\* What clients send and can be played.
LEMMA TidySent ==
  /\ \A p \in Timelines : Playable(p) => Tidy(p)
  /\ \A p \in Authored \union Radio :
       (Playable(p) => Tidy(p)) /\ (Playable(NormalisePattern(p)) => Tidy(NormalisePattern(p)))
<1>1. \A p \in Timelines : OnGrid(p.keys) => Tidy(p)
  BY TidyGiven
<1>2. \A p \in Timelines : Playable(p) => Tidy(p)
  BY <1>1, PlayableOnGrid
<1>3. \A p \in Timelines : Playable(NormalisePattern(p)) => Tidy(NormalisePattern(p))
  <2> TAKE p \in Timelines
  <2> HAVE Playable(NormalisePattern(p))
  <2>1. OnGrid(NormalisePattern(p).keys)
    BY PlayableOnGrid
  <2>2. NormalisePattern(p).keys = p.keys
    BY DEF NormalisePattern
  <2>3. Tidy(p)
    BY <1>1, <2>1, <2>2
  <2> QED BY <2>3, TidyNormal
<1> QED BY <1>2, <1>3, LibraryAssumption

LEMMA NextTidy == ASSUME GridAssumption, Held, TidyHeld, [Next]_vars PROVE TidyHeld'
<1> USE TidyKept DEF TidyHeld
<1>0. Libs /\ Lads /\ Pols /\ Sheets /\ Imports /\ Readings
  BY DEF Held
<1>1. ASSUME NEW ok \in BOOLEAN, NEW n \in Names, NEW p, Tidy(p), Save(n, p, ok) PROVE TidyHeld'
  <2>1. TidyLibs'
    BY <1>0, <1>1, TidyPut DEF Save
  <2> QED BY <1>1, <2>1 DEF Save, requests
<1>2. ASSUME NEW ok \in BOOLEAN, NEW n \in Names, SaveSheet(n, ok) PROVE TidyHeld'
  <2> DEFINE p == sheet.pattern
  <2>1. Save(n, p, ok) /\ MadeOf(sheet)
    BY <1>2 DEF SaveSheet, TidySheet
  <2>2. OnGrid(p.keys)
    BY <2>1, PlayableOnGrid DEF Save
  <2>3. \A i \in {1, 2} : DurSec(sheet.of[i]) > 0
    BY <2>1 DEF MadeOf, Layered
  <2>4. p.links \in Seq(AnyLink)
    BY <2>1, <2>3, MergedLinks DEF MadeOf
  <2>5. Tidy(p)
    BY <2>2, <2>4 DEF Tidy
  <2> QED BY <1>1, <2>1, <2>5
<1>3. ASSUME NEW ok \in BOOLEAN, NEW n \in Names, Delete(n, ok) PROVE TidyHeld'
  <2>1. TidyLibs'
    BY <1>0, <1>3, TidyPut DEF Delete
  <2> QED BY <1>3, <2>1 DEF Delete, requests
<1>4. ASSUME NEW ok \in BOOLEAN, NEW n, NEW tenths, SelectPattern(n, tenths, ok) PROVE TidyHeld'
  BY <1>4 DEF SelectPattern, requests
<1>5. ASSUME NEW ok \in BOOLEAN, NEW p, PutSlot(p, ok) PROVE TidyHeld'
  BY <1>5 DEF PutSlot, requests
<1>6. ASSUME NEW ok \in BOOLEAN, NEW p \in Radio, PutAdapterPattern(p, ok) PROVE TidyHeld'
  <2>1. Tidy(NormalisePattern(p)) /\ Adapter \in Names
    BY <1>6, TidySent, LibraryAssumption DEF PutAdapterPattern
  <2>2. TidyLibs'
    BY <1>0, <1>6, <2>1, TidyPut DEF PutAdapterPattern
  <2> QED BY <1>6, <2>2 DEF PutAdapterPattern, requests
<1>7. ASSUME NEW ok \in BOOLEAN, NEW l \in Ladders, Sweep(l, ok) PROVE TidyHeld'
  BY <1>7 DEF Sweep, requests
<1>8. ASSUME NEW ok \in BOOLEAN, NEW l \in Ladders, TypeLadder(l, ok) PROVE TidyHeld'
  BY <1>8 DEF TypeLadder, requests
<1>9. ASSUME NEW ok \in BOOLEAN, DeleteLadder(ok) PROVE TidyHeld'
  BY <1>9 DEF DeleteLadder, requests
<1>10. ASSUME NEW ok \in BOOLEAN, WriteAdapterPattern(ok) PROVE TidyHeld'
  <2>1. Tidy(reading.to) /\ Adapter \in Names
    BY <1>10, LibraryAssumption DEF WriteAdapterPattern, TidyReading
  <2>2. TidyLibs'
    BY <1>0, <1>10, <2>1, TidyPut DEF WriteAdapterPattern
  <2>3. TidyReading'
    BY <1>10 DEF WriteAdapterPattern, TidyReading
  <2> QED BY <1>10, <2>2, <2>3 DEF WriteAdapterPattern
<1>11. ASSUME NEW ok \in BOOLEAN, NEW doc \in Documents, NEW replace \in BOOLEAN,
              Import(doc, replace, ok)
       PROVE  TidyHeld'
  BY <1>11 DEF Import
<1>12. ASSUME NEW ok \in BOOLEAN, ImportPatterns(ok) PROVE TidyHeld'
  <2>1. PICK doc \in {d \in Documents : ValidDocument(d)}, replace \in BOOLEAN : \E left \in SUBSET DOMAIN doc.patterns :
          import = [doc |-> doc, replace |-> replace, step |-> "patterns", left |-> left]
    BY <1>0, <1>12 DEF ImportPatterns, Imports, NoImport
  <2>2. PICK left \in SUBSET DOMAIN doc.patterns :
          import = [doc |-> doc, replace |-> replace, step |-> "patterns", left |-> left]
    BY <2>1
  <2> DEFINE next == [n \in Names |-> IF n \in left THEN doc.patterns[n] ELSE NoPattern]
  <2>3. \A n \in left : Tidy(doc.patterns[n])
    BY TidySent, LibraryAssumption DEF ValidDocument
  <2>4. \A n \in Names : next[n] = NoPattern \/ Tidy(next[n])
    BY <2>3
  <2>5. next = [n \in Names |-> IF n \in import.left THEN import.doc.patterns[n] ELSE NoPattern]
    BY <2>2
  <2> HIDE DEF next
  <2>6. TidyLibs'
    BY <1>12, <2>4, <2>5, TidyWritten DEF ImportPatterns, ReplacePatterns
  <2> QED BY <1>12, <2>6 DEF ImportPatterns
<1>13. ASSUME NEW ok \in BOOLEAN, NEW n \in Names, ImportPattern(n, ok) PROVE TidyHeld'
  <2>1. PICK doc \in {d \in Documents : ValidDocument(d)}, replace \in BOOLEAN : \E left \in SUBSET DOMAIN doc.patterns :
          import = [doc |-> doc, replace |-> replace, step |-> "patterns", left |-> left]
    BY <1>0, <1>13 DEF ImportPattern, Imports, NoImport
  <2>2. PICK left \in SUBSET DOMAIN doc.patterns :
          import = [doc |-> doc, replace |-> replace, step |-> "patterns", left |-> left]
    BY <2>1
  <2>3. n \in left /\ left \subseteq DOMAIN doc.patterns
    BY <1>13, <2>2 DEF ImportPattern
  <2>4. Tidy(doc.patterns[n])
    BY <2>3, TidySent, LibraryAssumption DEF ValidDocument
  <2>5. TidyLibs'
    BY <1>0, <1>13, <2>2, <2>4, TidyPut DEF ImportPattern
  <2> QED BY <1>13, <2>5 DEF ImportPattern
<1>14. ASSUME NEW ok \in BOOLEAN, ImportLadder(ok) PROVE TidyHeld'
  BY <1>14 DEF ImportLadder
<1>15. ASSUME NEW ok \in BOOLEAN, Restart(ok) PROVE TidyHeld'
  <2>1. \A n \in Names : Upgraded(libFile)[n] = NoPattern \/ Tidy(Upgraded(libFile)[n])
    BY TidyNormal DEF TidyLibs, Upgraded
  <2>2. TidyLibs'
    BY <1>15, <2>1 DEF Restart, TidyLibs
  <2>3. TidyReading' /\ TidySheet'
    BY <1>15 DEF Restart, TidyReading, TidySheet
  <2> QED BY <1>15, <2>2, <2>3 DEF Restart
<1>16. ASSUME NEW a, NEW b, NEW tenths, MergePreview(a, b, tenths) PROVE TidyHeld'
  <2> DEFINE of == <<StretchPattern(Named(a), tenths), StretchPattern(Named(b), tenths)>>
  <2>1. Layered(of, MergePatterns(of)) /\ sheet' = [pattern |-> MergePatterns(of), of |-> of]
    BY <1>16 DEF MergePreview
  <2>2. \A n \in Known : Stretchable(Named(n), tenths) =>
          Shaped(StretchPattern(Named(n), tenths)) /\ Tidy(StretchPattern(Named(n), tenths))
    <3> TAKE n \in Known
    <3> HAVE Stretchable(Named(n), tenths)
    <3>1. Shaped(Named(n)) /\ Tidy(Named(n))
      BY <1>0, NamedShape, NamedTidy DEF TidyLibs
    <3> QED BY <1>0, <3>1, StretchedNamed, TidyStretched, LibraryAssumption
  <2>3. Shaped(of[1]) /\ Shaped(of[2]) /\ Tidy(of[1]) /\ Tidy(of[2])
    BY <1>16, <2>2 DEF MergePreview
  <2>4. DOMAIN of = {1, 2}
    OBVIOUS
  <2> HIDE DEF of
  <2>5. MadeOf([pattern |-> MergePatterns(of), of |-> of])
    BY <2>1, <2>3, <2>4 DEF MadeOf
  <2>6. TidySheet'
    BY <2>1, <2>5 DEF TidySheet
  <2> QED BY <1>16, <2>6 DEF MergePreview
<1>17. CASE ReadAdapterPattern
  <2> DEFINE next == Reconciled(lib[Adapter], have, RadioOrder)
  <2>1. Tidy(lib[Adapter]) /\ Shaped(lib[Adapter])
    BY <1>0, <1>17, LibraryAssumption DEF ReadAdapterPattern, TidyLibs, Libs, LibOK
  <2>2. next.keys = lib[Adapter].keys /\ next.links = lib[Adapter].links
    BY <2>1 DEF Reconciled, Shaped
  <2>3. Tidy(next)
    BY <2>1, <2>2 DEF Tidy
  <2>4. reading'.to = next
    BY <1>17 DEF ReadAdapterPattern
  <2> HIDE DEF next
  <2>5. TidyReading'
    BY <2>3, <2>4 DEF TidyReading
  <2> QED BY <1>17, <2>5 DEF ReadAdapterPattern
<1>18. ASSUME NEW w \in ToSet(RadioOrder), Swap(w) PROVE TidyHeld'
  BY <1>18 DEF Swap, requests
<1>19. CASE UNCHANGED vars
  BY <1>19 DEF vars, patterns
<1>20. ASSUME NEW ok \in BOOLEAN, NEW n \in Names, NEW p \in Authored, Save(n, p, ok) PROVE TidyHeld'
  <2>1. Tidy(p)
    BY <1>20, TidySent DEF Save
  <2> QED BY <1>1, <1>20, <2>1
<1> QED BY <1>2, <1>3, <1>4, <1>5, <1>6, <1>7, <1>8, <1>9, <1>10, <1>11, <1>12, <1>13, <1>14,
           <1>15, <1>16, <1>17, <1>18, <1>19, <1>20 DEF Next

LEMMA InitTidy == ASSUME GridAssumption, Init PROVE TidyHeld
<1>1. \A n \in Names : OldFile[n] = NoPattern \/ Tidy(OldFile[n])
  BY TidyGiven, LibraryAssumption DEF GridAssumption
<1>2. \A n \in Names : Upgraded(OldFile)[n] = NoPattern \/ Tidy(Upgraded(OldFile)[n])
  BY <1>1, TidyNormal DEF Upgraded
<1> QED BY <1>1, <1>2 DEF Init, TidyHeld, TidyLibs, TidyReading, TidySheet

\* Nothing of the merge shown had to be rounded, and no event of a source that goes round more
\* than once comes after the source's end.
SheetIsExact ==
  LET total == DurSec(sheet.pattern) IN
  \A i \in {1, 2} :
    LET p == sheet.of[i] d == DurSec(p) n == Reps(total, d) IN
    Unrounded(p, total) /\ Punctual(p.links, n, d) /\ Punctual(p.radios, n, d)

LEMMA SheetSound == ASSUME TidyHeld, sheet = NoSheet \/ SheetIsExact, Half \in Nat \ {0} PROVE SheetPlaysItsSources
<1> SUFFICES ASSUME sheet # NoSheet PROVE SheetPlaysItsSources
  BY DEF SheetPlaysItsSources
<1> DEFINE pats == sheet.of
           M == sheet.pattern
           total == DurSec(M)
           durs == [i \in DOMAIN pats |-> DurSec(pats[i])]
<1>1. /\ M = MergePatterns(pats) /\ Layered(pats, M) /\ DOMAIN pats = {1, 2}
      /\ \A i \in {1, 2} : Shaped(pats[i]) /\ Tidy(pats[i])
  BY DEF TidyHeld, TidySheet, MadeOf
<1>2. \A i \in {1, 2} :
         /\ Unrounded(pats[i], total)
         /\ Punctual(pats[i].links, Reps(total, DurSec(pats[i])), DurSec(pats[i]))
         /\ Punctual(pats[i].radios, Reps(total, DurSec(pats[i])), DurSec(pats[i]))
  BY DEF SheetIsExact
<1>3. DurSec(pats[1]) > 0 /\ DurSec(pats[2]) > 0
  BY <1>1 DEF Layered
<1> HIDE DEF pats, M
<1>4. total = MergeLength(durs) /\ Two(durs) /\ total \in Nat \ {0}
  BY <1>1, <1>3, MergedKeys
<1>5. durs[1] <= total /\ durs[2] <= total /\ durs[1] = DurSec(pats[1]) /\ durs[2] = DurSec(pats[2])
  BY <1>1, <1>4, LengthCovers
<1> DEFINE InForce(i, t) == SourceAt(pats[i], total, t)
           Events(p) == Reps(total, DurSec(p)) * (Due(p.links, DurSec(p)) + Due(p.radios, DurSec(p)))
<1> HIDE DEF total
<1>6. ASSUME NEW t \in Nat, t < total, NEW a \in Axes
      PROVE  \/ AtMoment(M, t, 1)[a] = InForce(1, t)[a] /\ AtMoment(M, t, 1)[a] # 0
             \/ AtMoment(M, t, 1)[a] = InForce(2, t)[a] /\ InForce(1, t)[a] = 0
  <2> DEFINE shapes == [i \in DOMAIN pats |-> SourceAt(pats[i], total, t)]
  <2>1. AtMoment(M, t, 1) = FillZeroFields(shapes)
    BY <1>1, <1>2, <1>6, MergePlays DEF Tidy, total
  <2>2. DOMAIN shapes = {1, 2} /\ shapes[1] = InForce(1, t) /\ shapes[2] = InForce(2, t)
    BY <1>1
  <2> HIDE DEF shapes
  <2> QED BY <2>1, <2>2, FirstToSet
<1>7. \A m \in 0..((total \div Half) - 1) : m * Half \in Nat /\ m * Half < total
  <2> TAKE m \in 0..((total \div Half) - 1)
  <2> DEFINE q == total \div Half
  <2>1. q \in Nat
    BY <1>4
  <2> HIDE DEF q
  <2>2. m \in Nat /\ m + 1 <= q
    BY <2>1 DEF q
  <2>3. (m + 1) * Half <= total
    BY <1>4, <2>2, DivTimes DEF q
  <2>4. (m + 1) * Half = m * Half + Half /\ m * Half \in Nat
    BY <2>2, Products
  <2> QED BY <1>4, <2>3, <2>4
<1>8. Len(M.links) + Len(M.radios) = Events(pats[1]) + Events(pats[2])
  <2> DEFINE links == [i \in DOMAIN pats |-> pats[i].links]
             radios == [i \in DOMAIN pats |-> pats[i].radios]
             n(i) == Reps(total, durs[i])
  <2>1. M.links = MergeLanes(links, total, durs) /\ M.radios = MergeLanes(radios, total, durs)
    BY <1>1, <1>4 DEF MergePatterns
  <2>2. links \in [{1, 2} -> Seq(AnyLink)] /\ radios \in [{1, 2} -> Seq(AnyEvent)]
    BY <1>1 DEF Shaped, Tidy
  <2>3. links[1] = pats[1].links /\ links[2] = pats[2].links /\ radios[1] = pats[1].radios /\ radios[2] = pats[2].radios
    BY <1>1
  <2> HIDE DEF links, radios, durs
  <2>4. \A i \in {1, 2} : Punctual(links[i], n(i), durs[i]) /\ Punctual(radios[i], n(i), durs[i])
    BY <1>2, <1>5, <2>3
  <2>5. Len(MergeLanes(links, total, durs)) = n(1) * Due(links[1], durs[1]) + n(2) * Due(links[2], durs[2])
    BY <1>4, <1>5, <2>2, <2>4, MergedEvents, LanesAreTimed
  <2>6. Len(MergeLanes(radios, total, durs)) = n(1) * Due(radios[1], durs[1]) + n(2) * Due(radios[2], durs[2])
    BY <1>4, <1>5, <2>2, <2>4, MergedEvents, LanesAreTimed
  <2>7. /\ Due(links[1], durs[1]) \in Nat /\ Due(links[2], durs[2]) \in Nat
        /\ Due(radios[1], durs[1]) \in Nat /\ Due(radios[2], durs[2]) \in Nat
    BY <2>2, DueType
  <2>8. n(1) \in Nat /\ n(2) \in Nat
    BY <1>4, RepsType DEF Two
  <2>9. \A x, y, u, v, w, z \in Nat :
          (x * u + y * v) + (x * w + y * z) = x * (u + w) + y * (v + z)
    OBVIOUS
  <2> DEFINE u == Due(links[1], durs[1])   v == Due(links[2], durs[2])
             w == Due(radios[1], durs[1])  z == Due(radios[2], durs[2])
  <2>10. Len(M.links) + Len(M.radios) = (n(1) * u + n(2) * v) + (n(1) * w + n(2) * z)
    BY <2>1, <2>5, <2>6
  <2>11. Events(pats[1]) + Events(pats[2]) = n(1) * (u + w) + n(2) * (v + z)
    BY <1>5, <2>3
  <2>12. u \in Nat /\ v \in Nat /\ w \in Nat /\ z \in Nat
    BY <2>7
  <2> HIDE DEF u, v, w, z, n, Events
  <2>13. (n(1) * u + n(2) * v) + (n(1) * w + n(2) * z) = n(1) * (u + w) + n(2) * (v + z)
    BY ONLY <2>8, <2>9, <2>12
  <2> QED BY <2>10, <2>11, <2>13
<1> QED BY <1>6, <1>7, <1>8 DEF SheetPlaysItsSources, total, M, pats

----------------------------------------------------------------------------
(* The theorems.                                                           *)

\* Under every name the memory and the disk hold what was acknowledged last or something
\* tried since, whichever writes failed, whatever was imported, merged or remapped, and
\* whenever the daemon was started again (save, ReplaceAll).
THEOREM NothingAcknowledgedIsLost == Spec => []AccountedFor
<1>1. Accounts => AccountedFor
  BY DEF Accounts
<1> QED BY <1>1, Accounted, PTL

\* As long as no write has failed, a restart changes nothing but old names: the ladder and
\* the policy on disk are those in memory, and each pattern in memory is the one on disk, or
\* what a start makes of it.
THEOREM RestartKeepsEverything ==
  Spec => [](spent.failures = 0 =>
               /\ stored = storedFile /\ pol = polFile
               /\ \A n \in Names : lib[n] \in {libFile[n], Upgraded(libFile)[n]})
<1>1. Accounts => Durable
  BY DEF Accounts
<1> QED BY <1>1, Accounted, PTL DEF Durable

\* Remapping the box's pattern to the radios that are there keeps the lanes of different
\* radios apart, leaves the lanes of radios that are there alone, and orphans none while a
\* radio is idle, for every pattern that was saved, merged, imported or read from an older
\* build's file (reconcileAdapterPattern).
THEOREM RemapsApart == Spec => []LanesStayApart
<1>1. Init => Held
  BY InitHeld
<1>2. Held /\ [Next]_vars => Held'
  BY NextHeld
<1>3. Held => LanesStayApart
  <2> SUFFICES ASSUME Held, reading # NoReading
               PROVE  LET was == reading.from.radios  is == reading.to.radios IN
    /\ \A i, j \in DOMAIN was : (was[i].iface = was[j].iface) <=> (is[i].iface = is[j].iface)
    /\ \A i \in DOMAIN was : was[i].iface \in reading.have => is[i] = was[i]
    /\ OrphanedRadios(reading.to, reading.have) # {} => reading.have \subseteq PatternRadios(reading.to)
    BY DEF LanesStayApart
  <2>1. /\ Shaped(reading.from) /\ reading.have \subseteq ToSet(RadioOrder)
        /\ reading.to = Reconciled(reading.from, reading.have, RadioOrder)
    BY DEF Held, Readings
  <2> QED BY <2>1, RemappedLanes
<1> QED BY <1>1, <1>2, <1>3, PTL DEF Spec

\* With a dwell on the grid and so the keyframes of an older build's file, a merge shown plays
\* at every moment throughput can show the first of its sources to set each axis, and does what
\* a source's timeline does once in each of its rounds, whatever the sources were generated,
\* saved, imported, stretched or merged from, unless a change of a source that takes long fell
\* between two such moments and was rounded onto one, or an event of a source that goes round
\* more than once comes after the source's end (MergePatterns, round2).
THEOREM MergesPlayTheirSources ==
  ASSUME GridAssumption
  PROVE  Spec => [](sheet = NoSheet \/ SheetIsExact => SheetPlaysItsSources)
<1>1. Init => Held /\ TidyHeld
  BY InitHeld, InitTidy
<1>2. (Held /\ TidyHeld) /\ [Next]_vars => (Held /\ TidyHeld)'
  <2> SUFFICES ASSUME Held, TidyHeld, [Next]_vars PROVE Held' /\ TidyHeld'
    OBVIOUS
  <2> QED BY NextHeld, NextTidy
<1>3. (Held /\ TidyHeld) => (sheet = NoSheet \/ SheetIsExact => SheetPlaysItsSources)
  <2>1. Half \in Nat \ {0}
    BY LibraryAssumption
  <2> QED BY <2>1, SheetSound
<1> QED BY <1>1, <1>2, <1>3, PTL DEF Spec
=============================================================================
