----------------------------- MODULE ListFacts -----------------------------
(***************************************************************************)
(* Facts about numbers, sequences and SenderList for the proofs about the  *)
(* modules that have lists.                                                *)
(***************************************************************************)
EXTENDS SenderList, TLAPS, FiniteSetTheorems

ST == INSTANCE SequenceTheorems
WF == INSTANCE WellFoundedInduction

-----------------------------------------------------------------------------
(* Facts about numbers and sequences. *)

(* A non-empty set of naturals has a least element, so a CHOOSE of the     *)
(* first index (next_proc, proc_list_remove) has a value.                  *)
LEMMA LeastNat ==
  ASSUME NEW T, T \subseteq Nat, T # {}
  PROVE  \E x \in T : \A y \in T : x <= y
<1> DEFINE R == {ss \in Nat \X Nat : ss[1] < ss[2]}
<1>1. WF!IsWellFoundedOn(R, Nat)
  BY WF!NatLessThanWellFounded DEF WF!OpToRel
<1>2. PICK x \in T : \A y \in T : ~ (<<y, x>> \in R)
  BY <1>1, WF!WFMin
<1>3. ASSUME NEW y \in T PROVE x <= y
  <2>1. x \in Nat /\ y \in Nat
    OBVIOUS
  <2>2. ~ (y < x)
    BY <1>2, <2>1
  <2> QED
    BY <2>1, <2>2
<1> QED
  BY <1>3

(* Induction over the turns of a loop, for a set of turns.                 *)
LEMMA EveryTurn ==
  ASSUME NEW N \in Nat, NEW T, 0 \in T, \A k \in 1 .. N : k - 1 \in T => k \in T
  PROVE  0 .. N \subseteq T
<1> DEFINE Missing == {k \in 0 .. N : k \notin T}
<1>1. SUFFICES ASSUME Missing # {} PROVE FALSE
  OBVIOUS
<1>2. Missing \subseteq Nat
  OBVIOUS
<1>3. PICK k \in Missing : \A j \in Missing : k <= j
  <2> HIDE DEF Missing
  <2> QED
    BY <1>1, <1>2, LeastNat
<1>4. k \in 1 .. N /\ k - 1 \in 0 .. N /\ ~ (k <= k - 1)
  BY <1>3
<1> QED
  BY <1>3, <1>4

(* f is what a loop of N turns has after each: s0 before the first, and    *)
(* then what step, a turn, makes of its number and the value before it.    *)
Runs(f, N, S, s0, step) ==
  f \in [0 .. N -> S] /\ f[0] = s0 /\ \A k \in 1 .. N : f[k] = step[<<k, f[k - 1]>>]

(* A loop has a value after each turn.                                     *)
LEMMA LoopUpTo ==
  ASSUME NEW N \in Nat, NEW S, NEW s0 \in S, NEW step \in [(1 .. N) \X S -> S]
  PROVE  \E f : Runs(f, N, S, s0, step)
<1> DEFINE T == {n \in Nat : \E f : Runs(f, n, S, s0, step)}
<1>1. 0 \in T
  <2>1. Runs([k \in 0 .. 0 |-> s0], 0, S, s0, step)
    BY DEF Runs
  <2> QED
    BY <2>1
<1>2. ASSUME NEW n \in 1 .. N, n - 1 \in T PROVE n \in T
  <2>1. PICK g : Runs(g, n - 1, S, s0, step)
    BY <1>2
  <2> DEFINE f == [k \in 0 .. n |-> IF k = n THEN step[<<n, g[n - 1]>>] ELSE g[k]]
  <2>2. n \in Nat /\ n - 1 \in 0 .. n - 1 /\ n # 0 /\ \A k \in 0 .. n : k # n => k \in 0 .. n - 1
    OBVIOUS
  <2>3. f \in [0 .. n -> S]
    BY <2>1, <2>2 DEF Runs
  <2>4. f[0] = s0
    BY <2>1, <2>2 DEF Runs
  <2>5. ASSUME NEW k \in 1 .. n PROVE f[k] = step[<<k, f[k - 1]>>]
    <3>1. k - 1 \in 0 .. n /\ k \in 0 .. n /\ k - 1 # n
      OBVIOUS
    <3>2. f[k - 1] = g[k - 1]
      BY <3>1
    <3>3. CASE k = n
      BY <3>1, <3>2, <3>3
    <3>4. CASE k # n
      <4>1. f[k] = g[k] /\ k \in 1 .. n - 1
        BY <3>1, <3>4
      <4> QED
        BY <2>1, <3>2, <4>1 DEF Runs
    <3> QED
      BY <3>3, <3>4
  <2> HIDE DEF f
  <2>6. Runs(f, n, S, s0, step)
    BY <2>3, <2>4, <2>5 DEF Runs
  <2> QED
    BY <2>2, <2>6
<1>3. N \in T
  <2> HIDE DEF T
  <2>1. 0 .. N \subseteq T
    BY <1>1, <1>2, EveryTurn
  <2> QED
    BY <2>1
<1> QED
  BY <1>3

(* The same without a bound on the number of turns.                        *)
RunsOn(f, S, s0, step) ==
  f \in [Nat -> S] /\ f[0] = s0 /\ \A k \in Nat \ {0} : f[k] = step[<<k, f[k - 1]>>]

LEMMA LoopExists ==
  ASSUME NEW S, NEW s0 \in S, NEW step \in [Nat \X S -> S]
  PROVE  \E f : RunsOn(f, S, s0, step)
<1> DEFINE turns(n) == [x \in (1 .. n) \X S |-> step[x]]
           G(n) == CHOOSE g : Runs(g, n, S, s0, turns(n))
           f == [n \in Nat |-> G(n)[n]]
<1>1. ASSUME NEW n \in Nat
      PROVE  /\ G(n) \in [0 .. n -> S] /\ G(n)[0] = s0
             /\ \A k \in 1 .. n : G(n)[k] = step[<<k, G(n)[k - 1]>>]
  <2> DEFINE g == G(n)
             turn == turns(n)
  <2>1. turn \in [(1 .. n) \X S -> S]
    OBVIOUS
  <2>2. \A k \in 1 .. n, v \in S : turn[<<k, v>>] = step[<<k, v>>]
    OBVIOUS
  <2> HIDE DEF turns
  <2>3. Runs(g, n, S, s0, turn)
    <3> HIDE DEF turn
    <3>1. \E h : Runs(h, n, S, s0, turn)
      BY <2>1, LoopUpTo, Zenon
    <3> QED
      BY <3>1 DEF turn
  <2> HIDE DEF turn, g
  <2>4. ASSUME NEW k \in 1 .. n PROVE g[k] = step[<<k, g[k - 1]>>]
    <3>1. k - 1 \in 0 .. n
      OBVIOUS
    <3>2. g[k - 1] \in S
      BY <2>3, <3>1 DEF Runs
    <3> QED
      BY <2>2, <2>3, <3>2 DEF Runs
  <2>5. g \in [0 .. n -> S] /\ g[0] = s0
    BY <2>3 DEF Runs
  <2> QED
    BY <2>4, <2>5 DEF g
<1>2. ASSUME NEW n \in Nat, n # 0 PROVE G(n - 1)[n - 1] = G(n)[n - 1]
  <2> DEFINE a == G(n - 1)
             b == G(n)
             T == {k \in Nat : a[k] = b[k]}
  <2>1. n - 1 \in Nat /\ n - 1 \in 0 .. n - 1
    BY <1>2
  <2>2. /\ a[0] = b[0]
        /\ \A k \in 1 .. n - 1 : a[k] = step[<<k, a[k - 1]>>]
        /\ \A k \in 1 .. n : b[k] = step[<<k, b[k - 1]>>]
    <3> HIDE DEF G
    <3> QED
      BY <1>1, <2>1
  <2> HIDE DEF a, b
  <2>3. 0 \in T
    BY <2>2
  <2>4. ASSUME NEW k \in 1 .. n - 1, k - 1 \in T PROVE k \in T
    <3>1. k \in 1 .. n /\ k \in Nat
      OBVIOUS
    <3> QED
      BY <2>2, <2>4, <3>1
  <2> HIDE DEF T
  <2>5. 0 .. n - 1 \subseteq T
    BY <2>1, <2>3, <2>4, EveryTurn
  <2>6. n - 1 \in T
    BY <2>1, <2>5
  <2> QED
    BY <2>6 DEF T, a, b
<1>3. ASSUME NEW n \in Nat PROVE f[n] = IF n = 0 THEN s0 ELSE step[<<n, f[n - 1]>>]
  <2>1. /\ f[n] = G(n)[n] /\ G(n)[0] = s0
        /\ \A k \in 1 .. n : G(n)[k] = step[<<k, G(n)[k - 1]>>]
    <3> HIDE DEF G
    <3> QED
      BY <1>1
  <2> HIDE DEF G
  <2>2. CASE n = 0
    BY <2>1, <2>2
  <2>3. CASE n # 0
    <3>1. n \in 1 .. n /\ n - 1 \in Nat
      BY <2>3
    <3>2. f[n - 1] = G(n - 1)[n - 1]
      BY <3>1
    <3>3. f[n] = step[<<n, G(n)[n - 1]>>]
      BY <2>1, <3>1
    <3> HIDE DEF f, G
    <3> QED
      BY <1>2, <2>3, <3>2, <3>3
  <2> QED
    BY <2>2, <2>3
<1>4. ASSUME NEW n \in Nat PROVE f[n] \in S
  <2>1. f[n] = G(n)[n]
    OBVIOUS
  <2> HIDE DEF f, G
  <2>2. G(n) \in [0 .. n -> S] /\ n \in 0 .. n
    BY <1>1
  <2> QED
    BY <2>1, <2>2
<1>5. f \in [Nat -> S]
  <2>1. f = [n \in Nat |-> f[n]]
    OBVIOUS
  <2> HIDE DEF f
  <2> QED
    BY <1>4, <2>1
<1>6. \A k \in Nat \ {0} : f[k] = step[<<k, f[k - 1]>>]
  <2> HIDE DEF f
  <2> QED
    BY <1>3
<1>7. f[0] = s0
  <2>1. 0 \in Nat
    OBVIOUS
  <2> HIDE DEF f
  <2> QED
    BY <1>3, <2>1
<1> HIDE DEF f
<1> QED
  BY <1>5, <1>6, <1>7 DEF RunsOn

(* What unlinking the i-th node does to a queue. *)
LEMMA RemoveAtFacts ==
  ASSUME NEW S, NEW s \in Seq(S), NEW i \in 1 .. Len(s)
  PROVE  /\ RemoveAt(s, i) \in Seq(S)
         /\ Len(RemoveAt(s, i)) = Len(s) - 1
         /\ \A j \in 1 .. Len(s) - 1 :
              RemoveAt(s, i)[j] = IF j < i THEN s[j] ELSE s[j + 1]
<1> DEFINE a == SubSeq(s, 1, i - 1)
           b == SubSeq(s, i + 1, Len(s))
<1>1. /\ a \in Seq(S) /\ Len(a) = i - 1
      /\ \A j \in 1 .. i - 1 : a[j] = s[j]
  OBVIOUS
<1>2. /\ b \in Seq(S) /\ Len(b) = Len(s) - i
      /\ \A j \in 1 .. Len(s) - i : b[j] = s[j + i]
  OBVIOUS
<1>3. RemoveAt(s, i) = a \o b
  BY DEF RemoveAt
<1> HIDE DEF a, b
<1>4. /\ a \o b \in Seq(S)
      /\ Len(a \o b) = Len(a) + Len(b)
      /\ \A j \in 1 .. Len(a) + Len(b) :
           (a \o b)[j] = IF j <= Len(a) THEN a[j] ELSE b[j - Len(a)]
  BY <1>1, <1>2, ST!ConcatProperties
<1>5. Len(a \o b) = Len(s) - 1
  BY <1>1, <1>2, <1>4
<1>6. ASSUME NEW j \in 1 .. Len(s) - 1
      PROVE  (a \o b)[j] = IF j < i THEN s[j] ELSE s[j + 1]
  <2>1. CASE j < i
    BY <1>1, <1>2, <1>4, <2>1
  <2>2. CASE ~ (j < i)
    <3>1. (a \o b)[j] = b[j - (i - 1)]
      BY <1>1, <1>2, <1>4, <2>2
    <3>2. b[j - (i - 1)] = s[j + 1]
      BY <1>2, <2>2
    <3> QED
      BY <2>2, <3>1, <3>2
  <2> QED
    BY <2>1, <2>2
<1> QED
  BY <1>3, <1>4, <1>5, <1>6

(* What appending a node does to a queue. *)
LEMMA AppendFacts ==
  ASSUME NEW S, NEW s \in Seq(S), NEW e \in S
  PROVE  /\ Append(s, e) \in Seq(S)
         /\ Len(Append(s, e)) = Len(s) + 1
         /\ \A j \in 1 .. Len(s) : Append(s, e)[j] = s[j]
         /\ Append(s, e)[Len(s) + 1] = e
  BY ST!AppendProperties

(* proc_list_remove finds a node whenever the list has one, and it finds   *)
(* the one of pid if pid is in the list.                                   *)
LEMMA PickedFacts ==
  ASSUME NEW S, NEW list \in Seq(S), list # <<>>, NEW pid
  PROVE  /\ Picked(list, pid) \in 1 .. Len(list)
         /\ (\E i \in 1 .. Len(list) : list[i] = pid) => list[Picked(list, pid)] = pid
<1> DEFINE I == {i \in 1 .. Len(list) : list[i] = pid}
<1>1. CASE I = {}
  BY <1>1 DEF Picked
<1>2. CASE I # {}
  <2>1. Picked(list, pid) = Min(I)
    BY <1>2 DEF Picked, SelectInSeq
  <2>2. Min(I) \in I
    <3>1. I \subseteq Nat
      OBVIOUS
    <3> HIDE DEF I
    <3>2. \E x \in I : \A y \in I : x <= y
      BY <1>2, <3>1, LeastNat
    <3> QED
      BY <3>2 DEF Min
  <2> QED
    BY <2>1, <2>2
<1> QED
  BY <1>1, <1>2
=============================================================================
