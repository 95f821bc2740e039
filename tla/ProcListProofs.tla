--------------------------- MODULE ProcListProofs ---------------------------
(***************************************************************************)
(* Proofs about ProcList for every number of processes and nodes: the      *)
(* pointers of kern/proc.c stay lists under interrupted removals, and they *)
(* implement SenderQueues.                                                 *)
(***************************************************************************)
EXTENDS ProcList, ListFacts

-----------------------------------------------------------------------------
(* Chains of pointers.                                                     *)

(* From head the links of next lead through the nodes s, each once, and    *)
(* end.                                                                    *)
Links(head, next, s) ==
  /\ s \in Seq(Node)
  /\ \A i, j \in 1 .. Len(s) : s[i] = s[j] => i = j
  /\ head = IF Len(s) = 0 THEN nil ELSE s[1]
  /\ \A i \in 1 .. Len(s) : next[s[i]] = IF i < Len(s) THEN s[i + 1] ELSE nil

LEMMA NilIsNoNode == nil \notin Node /\ nil \notin Pid /\ Node \subseteq Nat
<1>1. nil \notin Int /\ Pid \subseteq Nat /\ MAX_PROC_LISTS \in Nat
  BY ProcListAssumption
<1>2. Node \subseteq Nat
  BY <1>1 DEF Node
<1>3. \A i \in Nat : i # nil
  BY <1>1
<1> HIDE DEF Node
<1> QED
  BY <1>1, <1>2, <1>3

(* As many nodes as the pool has are the most a list can have.             *)
LEMMA LinksShort ==
  ASSUME NEW s \in Seq(Node), \A i, j \in 1 .. Len(s) : s[i] = s[j] => i = j
  PROVE  Len(s) <= MAX_PROC_LISTS
<1> DEFINE f == [i \in 1 .. Len(s) |-> s[i]]
<1>1. f \in Injection(1 .. Len(s), Node)
  BY DEF Injection, IsInjective
<1>2. MAX_PROC_LISTS \in Nat
  BY ProcListAssumption
<1>3. IsFiniteSet(Node) /\ Cardinality(Node) = MAX_PROC_LISTS
  BY <1>2, FS_Interval DEF Node
<1>4. Cardinality(1 .. Len(s)) = Len(s)
  BY FS_Interval, SMTT(30)
<1> QED
  BY <1>1, <1>3, <1>4, FS_Injection

(* Following the pointers finds what is linked.                            *)
LEMMA ChainIs ==
  ASSUME NEW head, NEW next, NEW s, Links(head, next, s)
  PROVE  ChainFrom(head, next) = s
<1> DEFINE Step(f) == [k \in Nat |-> IF k = 0 THEN head
                                     ELSE IF f[k - 1] = nil THEN nil ELSE next[f[k - 1]]]
           a(k) == IF k < Len(s) THEN s[k + 1] ELSE nil
           A == [k \in Nat |-> a(k)]
           node == CHOOSE f : f = Step(f)
           met == {k \in 0 .. MAX_PROC_LISTS : node[k] # nil}
<1>1. ChainFrom(head, next) = [k \in 1 .. Cardinality(met) |-> node[k - 1]]
  BY DEF ChainFrom
<1>2. /\ s \in Seq(Node) /\ Len(s) \in Nat /\ Len(s) <= MAX_PROC_LISTS /\ MAX_PROC_LISTS \in Nat
      /\ \A i \in 1 .. Len(s) : s[i] # nil
  BY LinksShort, NilIsNoNode, ProcListAssumption DEF Links
<1>3. ASSUME NEW k \in Nat
      PROVE  a(k) = IF k = 0 THEN head ELSE IF a(k - 1) = nil THEN nil ELSE next[a(k - 1)]
  <2>1. CASE k = 0
    BY <1>2, <2>1 DEF Links
  <2>2. CASE k # 0 /\ k <= Len(s)
    <3>1. k \in 1 .. Len(s) /\ k - 1 < Len(s) /\ (k - 1) + 1 = k
      BY <1>2, <2>2
    <3>2. next[s[k]] = IF k < Len(s) THEN s[k + 1] ELSE nil
      BY <3>1 DEF Links
    <3> QED
      BY <1>2, <2>2, <3>1, <3>2
  <2>3. CASE k # 0 /\ k > Len(s)
    <3>1. ~ (k < Len(s)) /\ ~ (k - 1 < Len(s))
      BY <1>2, <2>3
    <3> QED
      BY <2>3, <3>1
  <2> QED
    BY <1>2, <2>1, <2>2, <2>3
<1> HIDE DEF a
<1>4. A = Step(A)
  <2>1. ASSUME NEW k \in Nat
        PROVE  a(k) = IF k = 0 THEN head ELSE IF A[k - 1] = nil THEN nil ELSE next[A[k - 1]]
    <3>1. k # 0 => k - 1 \in Nat
      OBVIOUS
    <3> QED
      BY <1>3, <3>1
  <2> QED
    BY <2>1
<1>5. node = Step(node)
  BY <1>4
<1> HIDE DEF node
<1> DEFINE T == {k \in Nat : node[k] = a(k)}
<1>6. 0 .. MAX_PROC_LISTS \subseteq T
  <2>1. 0 \in T
    BY <1>3, <1>5
  <2>2. ASSUME NEW k \in 1 .. MAX_PROC_LISTS, k - 1 \in T PROVE k \in T
    <3>1. k \in Nat /\ k # 0
      BY <1>2
    <3>2. node[k] = IF node[k - 1] = nil THEN nil ELSE next[node[k - 1]]
      BY <1>5, <3>1
    <3> QED
      BY <1>3, <2>2, <3>1, <3>2
  <2> HIDE DEF T
  <2> QED
    BY <1>2, <2>1, <2>2, EveryTurn
<1>7. met = 0 .. Len(s) - 1
  <2>1. \A k \in 0 .. MAX_PROC_LISTS : node[k] # nil <=> k < Len(s)
    <3>1. \A k \in 0 .. MAX_PROC_LISTS : a(k) # nil <=> k < Len(s)
      BY <1>2 DEF a
    <3> QED
      BY <1>6, <3>1
  <2> QED
    BY <1>2, <2>1
<1>8. Cardinality(met) = Len(s)
  <2>1. Len(s) - 1 \in Int /\ 0 \in Int /\ (0 > Len(s) - 1 => Len(s) = 0) /\ Len(s) - 1 - 0 + 1 = Len(s)
    BY <1>2
  <2>2. Cardinality(0 .. Len(s) - 1) = Len(s)
    BY <2>1, FS_Interval
  <2> HIDE DEF met
  <2> QED
    BY <1>7, <2>2
<1>9. \A k \in 1 .. Len(s) : node[k - 1] = s[k]
  <2>1. ASSUME NEW k \in 1 .. Len(s) PROVE node[k - 1] = s[k]
    <3>1. k - 1 \in 0 .. MAX_PROC_LISTS /\ k - 1 < Len(s) /\ (k - 1) + 1 = k
      BY <1>2
    <3>2. node[k - 1] = a(k - 1)
      BY <1>6, <3>1
    <3> QED
      BY <3>1, <3>2 DEF a
  <2> QED
    BY <2>1
<1> HIDE DEF met
<1>10. ChainFrom(head, next) = [k \in 1 .. Len(s) |-> s[k]]
  BY <1>1, <1>8, <1>9
<1> QED
  BY <1>2, <1>10

-----------------------------------------------------------------------------
(* What a store does to a chain. *)

LEMMA LinksKept ==
  ASSUME NEW h, NEW f, NEW g, NEW s, Links(h, f, s),
         \A i \in 1 .. Len(s) : g[s[i]] = f[s[i]]
  PROVE  Links(h, g, s)
  BY DEF Links

(* proc_list_add. *)
LEMMA LinksAppend ==
  ASSUME NEW h, NEW f \in [Node -> Link], NEW s, Links(h, f, s), NEW i \in Node,
         \A j \in 1 .. Len(s) : s[j] # i
  PROVE  Links(IF Len(s) = 0 THEN i ELSE h,
               IF Len(s) = 0 THEN [f EXCEPT ![i] = nil]
               ELSE [[f EXCEPT ![i] = nil] EXCEPT ![s[Len(s)]] = i],
               Append(s, i))
<1> DEFINE t == Append(s, i)
           m == Len(s)
           c == [f EXCEPT ![i] = nil]
           g == IF m = 0 THEN c ELSE [c EXCEPT ![s[m]] = i]
<1>1. /\ s \in Seq(Node) /\ m \in Nat
      /\ \A j, k \in 1 .. m : s[j] = s[k] => j = k
      /\ \A j \in 1 .. m : s[j] \in Node
      /\ \A j \in 1 .. m : f[s[j]] = IF j < m THEN s[j + 1] ELSE nil
  BY DEF Links
<1>2. /\ t \in Seq(Node) /\ Len(t) = m + 1
      /\ \A j \in 1 .. m : t[j] = s[j]
      /\ t[m + 1] = i
  BY <1>1, AppendFacts
<1> HIDE DEF t
<1>3. \A j, k \in 1 .. m + 1 : t[j] = t[k] => j = k
  BY <1>1, <1>2
<1>4. \A x \in Node : c[x] = IF x = i THEN nil ELSE f[x]
  OBVIOUS
<1>5. \A x \in Node : g[x] = IF m # 0 /\ x = s[m] THEN i ELSE IF x = i THEN nil ELSE f[x]
  BY <1>1, <1>4
<1> HIDE DEF g, c
<1>6. ASSUME NEW j \in 1 .. m + 1
      PROVE  g[t[j]] = IF j < m + 1 THEN t[j + 1] ELSE nil
  <2>1. CASE j < m
    <3>1. j \in 1 .. m /\ j + 1 \in 1 .. m /\ m \in 1 .. m
      BY <1>1, <2>1
    <3>2. t[j] = s[j] /\ s[j] \in Node /\ s[j] # i /\ s[j] # s[m] /\ t[j + 1] = s[j + 1]
      BY <1>1, <1>2, <2>1, <3>1
    <3>3. f[s[j]] = s[j + 1]
      BY <1>1, <2>1, <3>1
    <3> QED
      BY <1>1, <1>5, <2>1, <3>2, <3>3
  <2>2. CASE j = m
    <3>1. m \in 1 .. m /\ t[m] = s[m] /\ s[m] \in Node /\ m # 0
      BY <1>1, <1>2, <2>2
    <3> QED
      BY <1>1, <1>2, <1>5, <2>2, <3>1
  <2>3. CASE j = m + 1
    <3>1. m # 0 => m \in 1 .. m
      BY <1>1
    <3>2. t[m + 1] = i /\ (m # 0 => s[m] # i)
      BY <1>2, <3>1
    <3> QED
      BY <1>1, <1>5, <2>3, <3>2
  <2> QED
    BY <1>1, <2>1, <2>2, <2>3
<1>7. (IF m = 0 THEN i ELSE h) = t[1]
  BY <1>1, <1>2 DEF Links
<1>8. Links(IF m = 0 THEN i ELSE h, g, t)
  BY <1>1, <1>2, <1>3, <1>6, <1>7 DEF Links
<1> QED
  BY <1>8 DEF t, g, c
(* proc_list_remove, when *l and what n links to are as they were found.   *)
LEMMA LinksRemove ==
  ASSUME NEW h, NEW f \in [Node -> Link], NEW s, Links(h, f, s), NEW k \in 1 .. Len(s)
  PROVE  Links(IF k = 1 THEN f[s[k]] ELSE h,
               IF k = 1 THEN f ELSE [f EXCEPT ![s[k - 1]] = f[s[k]]],
               RemoveAt(s, k))
<1> DEFINE t == RemoveAt(s, k)
           m == Len(s)
           g == IF k = 1 THEN f ELSE [f EXCEPT ![s[k - 1]] = f[s[k]]]
<1>1. /\ s \in Seq(Node) /\ m \in Nat
      /\ \A i, j \in 1 .. m : s[i] = s[j] => i = j
      /\ \A j \in 1 .. m : s[j] \in Node
      /\ \A j \in 1 .. m : f[s[j]] = IF j < m THEN s[j + 1] ELSE nil
  BY DEF Links
<1>2. /\ t \in Seq(Node) /\ Len(t) = m - 1
      /\ \A j \in 1 .. m - 1 : t[j] = IF j < k THEN s[j] ELSE s[j + 1]
  BY <1>1, RemoveAtFacts
<1> HIDE DEF t
<1>3. ASSUME NEW i \in 1 .. m - 1, NEW j \in 1 .. m - 1, t[i] = t[j] PROVE i = j
  <2>1. i \in 1 .. m /\ j \in 1 .. m /\ i + 1 \in 1 .. m /\ j + 1 \in 1 .. m
    BY <1>1
  <2>2. (IF i < k THEN s[i] ELSE s[i + 1]) = (IF j < k THEN s[j] ELSE s[j + 1])
    BY <1>2, <1>3
  <2>3. (IF i < k THEN i ELSE i + 1) = (IF j < k THEN j ELSE j + 1)
    BY <1>1, <2>1, <2>2
  <2> QED
    BY <1>1, <2>3
<1>4. \A x \in Node : g[x] = IF k # 1 /\ x = s[k - 1] THEN f[s[k]] ELSE f[x]
  OBVIOUS
<1> HIDE DEF g
<1>5. ASSUME NEW j \in 1 .. m - 1
      PROVE  g[t[j]] = IF j < m - 1 THEN t[j + 1] ELSE nil
  <2>1. CASE j + 1 < k
    <3>1. /\ j \in 1 .. m /\ j + 1 \in 1 .. m - 1 /\ k - 1 \in 1 .. m /\ j # k - 1
          /\ j < k /\ j < m - 1 /\ j < m
      BY <1>1, <2>1
    <3>2. t[j] = s[j] /\ t[j + 1] = s[j + 1] /\ s[j] \in Node /\ s[j] # s[k - 1]
      BY <1>1, <1>2, <2>1, <3>1
    <3> QED
      BY <1>1, <1>4, <3>1, <3>2
  <2>2. CASE j + 1 = k
    <3>1. j \in 1 .. m /\ k - 1 = j /\ k # 1 /\ j < k
      BY <1>1, <2>2
    <3>2. t[j] = s[j] /\ s[j] \in Node
      BY <1>1, <1>2, <3>1
    <3>3. g[t[j]] = IF k < m THEN s[k + 1] ELSE nil
      BY <1>1, <1>4, <3>1, <3>2
    <3>4. k < m => j + 1 \in 1 .. m - 1 /\ t[j + 1] = s[k + 1]
      <4>1. k < m => k \in 1 .. m - 1 /\ ~ (k < k)
        BY <1>1
      <4> QED
        BY <1>2, <2>2, <4>1
    <3> QED
      BY <1>1, <2>2, <3>3, <3>4
  <2>3. CASE j + 1 > k
    <3>1. /\ j + 1 \in 1 .. m /\ ~ (j < k)
          /\ k # 1 => k - 1 \in 1 .. m /\ j + 1 # k - 1
      BY <1>1, <2>3
    <3>2. t[j] = s[j + 1] /\ s[j + 1] \in Node /\ (k # 1 => s[j + 1] # s[k - 1])
      BY <1>1, <1>2, <3>1
    <3>3. g[t[j]] = IF j + 1 < m THEN s[(j + 1) + 1] ELSE nil
      BY <1>1, <1>4, <3>1, <3>2
    <3>4. j < m - 1 => t[j + 1] = s[(j + 1) + 1]
      <4>1. j < m - 1 => j + 1 \in 1 .. m - 1 /\ ~ (j + 1 < k)
        BY <1>1, <2>3
      <4> QED
        BY <1>2, <4>1
    <3> QED
      BY <1>1, <3>3, <3>4
  <2> QED
    BY <1>1, <2>1, <2>2, <2>3
<1>6. (IF k = 1 THEN f[s[k]] ELSE h) = IF m - 1 = 0 THEN nil ELSE t[1]
  <2>0. m \in Nat /\ m # 0
    BY <1>1
  <2>1. CASE k = 1
    <3>1. f[s[1]] = IF 1 < m THEN s[2] ELSE nil
      BY <1>1, <2>1
    <3>2. m - 1 # 0 => 1 \in 1 .. m - 1 /\ 1 < m /\ ~ (1 < k)
      <4> HIDE DEF m
      <4> QED
        BY <2>0, <2>1
    <3>3. m - 1 = 0 => ~ (1 < m)
      <4> HIDE DEF m
      <4> QED
        BY <2>0
    <3> QED
      BY <1>1, <1>2, <2>1, <3>1, <3>2, <3>3
  <2>2. CASE k # 1
    <3>1. m - 1 # 0 /\ m # 0 /\ 1 \in 1 .. m - 1 /\ 1 < k
      BY <1>1, <2>2
    <3> QED
      BY <1>2, <2>2, <3>1 DEF Links
  <2> QED
    BY <2>1, <2>2
<1>7. Links(IF k = 1 THEN f[s[k]] ELSE h, g, t)
  BY <1>2, <1>3, <1>5, <1>6 DEF Links
<1> QED
  BY <1>7 DEF t, g

(* proc_list_remove, when a node has been linked to n since n->next was    *)
(* loaded: it is cut off.                                                  *)
LEMMA LinksCut ==
  ASSUME NEW h, NEW f \in [Node -> Link], NEW s, Links(h, f, s), NEW k \in 1 .. Len(s)
  PROVE  Links(IF k = 1 THEN nil ELSE h,
               IF k = 1 THEN f ELSE [f EXCEPT ![s[k - 1]] = nil],
               SubSeq(s, 1, k - 1))
<1> DEFINE t == SubSeq(s, 1, k - 1)
           m == Len(s)
           g == IF k = 1 THEN f ELSE [f EXCEPT ![s[k - 1]] = nil]
<1>1. /\ s \in Seq(Node) /\ m \in Nat
      /\ \A i, j \in 1 .. m : s[i] = s[j] => i = j
      /\ \A j \in 1 .. m : s[j] \in Node
      /\ \A j \in 1 .. m : f[s[j]] = IF j < m THEN s[j + 1] ELSE nil
  BY DEF Links
<1>2. t \in Seq(Node) /\ Len(t) = k - 1 /\ \A j \in 1 .. k - 1 : t[j] = s[j]
  BY <1>1
<1> HIDE DEF t
<1>3. \A x \in Node : g[x] = IF k # 1 /\ x = s[k - 1] THEN nil ELSE f[x]
  OBVIOUS
<1> HIDE DEF g
<1>4. ASSUME NEW i \in 1 .. k - 1, NEW j \in 1 .. k - 1, t[i] = t[j] PROVE i = j
  BY <1>1, <1>2, <1>4, SMTT(30)
<1>5. ASSUME NEW j \in 1 .. k - 1
      PROVE  g[t[j]] = IF j < k - 1 THEN t[j + 1] ELSE nil
  <2>1. /\ j \in 1 .. m /\ k - 1 \in 1 .. m /\ k # 1 /\ j < m
        /\ j < k - 1 => j + 1 \in 1 .. k - 1
    BY <1>1
  <2>2. t[j] = s[j] /\ s[j] \in Node /\ (s[j] = s[k - 1] <=> j = k - 1)
    BY <1>1, <1>2, <2>1
  <2> QED
    BY <1>1, <1>2, <1>3, <2>1, <2>2
<1>6. (IF k = 1 THEN nil ELSE h) = IF k - 1 = 0 THEN nil ELSE t[1]
  <2>1. k # 1 => 1 \in 1 .. k - 1 /\ m # 0 /\ k - 1 # 0
    BY <1>1
  <2> QED
    BY <1>2, <2>1 DEF Links
<1>7. Links(IF k = 1 THEN nil ELSE h, g, t)
  BY <1>2, <1>4, <1>5, <1>6 DEF Links
<1> QED
  BY <1>7 DEF t, g
-----------------------------------------------------------------------------
(* The inductive invariant.                                                *)

chains == [q \in Pid |-> Chain(q)]

Linked == \A q \in Pid : Links(waiting[q], lnext, chains[q])

Apart ==
  \A q, r \in Pid : \A i \in 1 .. Len(chains[q]), j \in 1 .. Len(chains[r]) :
    chains[q][i] = chains[r][j] => q = r

Claimed == \A q \in Pid : \A i \in 1 .. Len(chains[q]) : lproc[chains[q][i]] # nil

(* A claimed node has a blocked sender, and every blocked sender one node. *)
OneEach ==
  /\ \A i \in Node : lproc[i] # nil => where[lproc[i]] = "sent"
  /\ \A i, j \in Node : lproc[i] = lproc[j] /\ lproc[i] # nil => i = j
  /\ \A p \in Pid : where[p] = "sent" => \E i \in Node : lproc[i] = p

(* The locals of an interrupted proc_list_remove: n is in the list, l just *)
(* before it, and the next of n that was loaded is right or was, when n    *)
(* was the last node.                                                      *)
Finding == {"walk", "load", "cas"}

FoundAt(p, i) ==
  /\ n[p] = chains[p][i]
  /\ l[p] = IF i = 1 THEN nil ELSE chains[p][i - 1]
  /\ where[p] = "cas" =>
       nx[p] = nil \/ (i < Len(chains[p]) /\ nx[p] = chains[p][i + 1])

AtHand ==
  \A p \in Pid : where[p] \in Finding => \E i \in 1 .. Len(chains[p]) : FoundAt(p, i)

(* A node that has been unlinked and not yet given back is nobody else's.  *)
InHand ==
  \A p \in Pid : where[p] = "free" =>
    /\ n[p] \in Node /\ lproc[n[p]] # nil
    /\ \A q \in Pid : \A i \in 1 .. Len(chains[q]) : chains[q][i] # n[p]
    /\ \A r \in Pid : where[r] = "free" /\ n[r] = n[p] => r = p

ListInv ==
  /\ TypeOK
  /\ Linked
  /\ Apart
  /\ Claimed
  /\ OneEach
  /\ AtHand
  /\ InHand

-----------------------------------------------------------------------------
(* How the chains change.                                                  *)

(* A store into one list leaves the others.                                *)
LEMMA OneListChanges ==
  ASSUME Linked, NEW w, NEW f, NEW q \in Pid, NEW t, Links(w[q], f, t),
         \A r \in Pid \ {q} : w[r] = waiting[r],
         \A r \in Pid \ {q} : \A j \in 1 .. Len(chains[r]) : f[chains[r][j]] = lnext[chains[r][j]]
  PROVE  /\ [r \in Pid |-> ChainFrom(w[r], f)] = [chains EXCEPT ![q] = t]
         /\ \A r \in Pid : Links(w[r], f, [chains EXCEPT ![q] = t][r])
<1> DEFINE C == [chains EXCEPT ![q] = t]
<1>0. C = [r \in Pid |-> C[r]]
  BY DEF chains
<1>1. \A r \in Pid : C[r] = IF r = q THEN t ELSE chains[r]
  BY DEF chains
<1> HIDE DEF C
<1>2. ASSUME NEW r \in Pid PROVE Links(w[r], f, C[r])
  <2>1. CASE r = q
    BY <1>1, <2>1
  <2>2. CASE r # q
    <3>1. Links(waiting[r], lnext, chains[r])
      BY DEF Linked
    <3>2. Links(waiting[r], f, chains[r])
      BY <2>2, <3>1, LinksKept
    <3> QED
      BY <1>1, <2>2, <3>2
  <2> QED
    BY <2>1, <2>2
<1>3. [r \in Pid |-> ChainFrom(w[r], f)] = C
  <2>1. \A r \in Pid : ChainFrom(w[r], f) = C[r]
    BY <1>2, ChainIs
  <2> QED
    BY <1>0, <2>1
<1> QED
  BY <1>2, <1>3 DEF C

LEMMA ChainFacts ==
  ASSUME Linked, NEW q \in Pid
  PROVE  /\ chains[q] \in Seq(Node) /\ Len(chains[q]) \in Nat
         /\ Len(chains[q]) <= MAX_PROC_LISTS
         /\ \A i \in 1 .. Len(chains[q]) : chains[q][i] \in Node /\ chains[q][i] # nil
         /\ \A i, j \in 1 .. Len(chains[q]) : chains[q][i] = chains[q][j] => i = j
         /\ waiting[q] = IF Len(chains[q]) = 0 THEN nil ELSE chains[q][1]
         /\ \A i \in 1 .. Len(chains[q]) :
              lnext[chains[q][i]] = IF i < Len(chains[q]) THEN chains[q][i + 1] ELSE nil
<1>1. Links(waiting[q], lnext, chains[q])
  BY DEF Linked
<1>2. chains[q] \in Seq(Node) /\ \A i, j \in 1 .. Len(chains[q]) : chains[q][i] = chains[q][j] => i = j
  BY <1>1 DEF Links
<1>3. Len(chains[q]) <= MAX_PROC_LISTS
  BY <1>2, LinksShort
<1>4. \A i \in 1 .. Len(chains[q]) : chains[q][i] \in Node /\ chains[q][i] # nil
  BY <1>2, NilIsNoNode
<1> QED
  BY <1>1, <1>2, <1>3, <1>4 DEF Links

(* What has been found stays where it is while a list grows at its end.    *)
LEMMA FoundKept ==
  ASSUME NEW p \in Pid, Len(chains[p]) \in Nat, Len(chains'[p]) \in Nat,
         NEW i \in 1 .. Len(chains[p]), FoundAt(p, i),
         where'[p] = where[p], n'[p] = n[p], l'[p] = l[p], nx'[p] = nx[p],
         Len(chains[p]) <= Len(chains'[p]),
         \A j \in 1 .. Len(chains[p]) : chains'[p][j] = chains[p][j]
  PROVE  i \in 1 .. Len(chains'[p]) /\ FoundAt(p, i)'
<1>1. /\ i \in 1 .. Len(chains'[p])
      /\ i # 1 => i - 1 \in 1 .. Len(chains[p])
      /\ i < Len(chains[p]) => i + 1 \in 1 .. Len(chains[p]) /\ i < Len(chains'[p])
  OBVIOUS
<1>2. n'[p] = chains'[p][i] /\ l'[p] = IF i = 1 THEN nil ELSE chains'[p][i - 1]
  BY <1>1 DEF FoundAt
<1>3. where'[p] = "cas" =>
        nx'[p] = nil \/ (i < Len(chains'[p]) /\ nx'[p] = chains'[p][i + 1])
  BY <1>1 DEF FoundAt
<1> QED
  BY <1>1, <1>2, <1>3 DEF FoundAt
-----------------------------------------------------------------------------
(* The steps that store into no list.                                      *)

LEMMA QuietStep ==
  ASSUME ListInv, TypeOK', UNCHANGED <<nodes, waiting>>, NEW p \in Pid,
         \A r \in Pid \ {p} : /\ where'[r] = where[r] /\ n'[r] = n[r]
                              /\ l'[r] = l[r] /\ nx'[r] = nx[r],
         where[p] # "sent", where'[p] \notin {"sent", "free"},
         where'[p] \in Finding => \E i \in 1 .. Len(chains[p]) : FoundAt(p, i)'
  PROVE  ListInv' /\ chains' = chains
<1>1. chains' = chains /\ lproc' = lproc
  BY DEF chains, Chain, nodes
<1>2. Linked' /\ Apart' /\ Claimed'
  BY <1>1 DEF ListInv, Linked, Apart, Claimed, nodes
<1>3. OneEach'
  <2>1. \A r \in Pid : where[r] = "sent" <=> where'[r] = "sent"
    OBVIOUS
  <2>2. \A i \in Node : lproc[i] # nil => lproc[i] \in Pid
    BY DEF ListInv, TypeOK
  <2> QED
    BY <1>1, <2>1, <2>2 DEF ListInv, OneEach
<1>4. AtHand'
  <2>1. ASSUME NEW r \in Pid, where'[r] \in Finding
        PROVE  \E i \in 1 .. Len(chains'[r]) : FoundAt(r, i)'
    <3>1. CASE r = p
      BY <1>1, <2>1, <3>1
    <3>2. CASE r # p
      <4>1. PICK i \in 1 .. Len(chains[r]) : FoundAt(r, i)
        BY <2>1, <3>2 DEF ListInv, AtHand
      <4>2. Len(chains[r]) \in Nat
        BY ChainFacts DEF ListInv
      <4> QED
        BY <1>1, <3>2, <4>1, <4>2, FoundKept
    <3> QED
      BY <3>1, <3>2
  <2> QED
    BY <2>1 DEF AtHand
<1>5. InHand'
  BY <1>1 DEF ListInv, InHand
<1> QED
  BY <1>1, <1>2, <1>3, <1>4, <1>5 DEF ListInv

LEMMA AnswerStep ==
  ASSUME ListInv, NEW p \in Pid, answer(p)
  PROVE  ListInv' /\ chains' = chains
<1>1. /\ where \in [Pid -> Where] /\ where[p] = "taken"
      /\ where' = [where EXCEPT ![p] = "user"] /\ UNCHANGED <<nodes, waiting, local>>
  BY DEF answer, ListInv, TypeOK
<1>2. TypeOK'
  BY <1>1 DEF ListInv, TypeOK, nodes, local, Where
<1>3. UNCHANGED <<nodes, waiting, l, n, nx>>
  BY <1>1 DEF local
<1> QED
  BY <1>1, <1>2, <1>3, QuietStep DEF Finding

LEMMA FirstStep ==
  ASSUME ListInv, NEW p \in Pid, remove_first(p)
  PROVE  ListInv' /\ chains' = chains
<1>1. /\ where \in [Pid -> Where] /\ where[p] = "first" /\ waiting[p] # nil
      /\ where' = [where EXCEPT ![p] = "walk"]
      /\ l' = [l EXCEPT ![p] = nil] /\ n' = [n EXCEPT ![p] = waiting[p]]
      /\ UNCHANGED <<nodes, waiting, nx>>
  BY DEF remove_first, ListInv, TypeOK
<1>2. TypeOK'
  BY <1>1 DEF ListInv, TypeOK, nodes, Where, Removing, Link
<1>3. /\ l \in [Pid -> Link] /\ n \in [Pid -> Link]
      /\ l'[p] = nil /\ n'[p] = waiting[p] /\ where'[p] = "walk"
  BY <1>1 DEF ListInv, TypeOK
<1>4. chains' = chains
  BY <1>1 DEF chains, Chain, nodes
<1>5. Len(chains[p]) \in Nat /\ Len(chains[p]) # 0 /\ waiting[p] = chains[p][1]
  BY <1>1, ChainFacts DEF ListInv
<1>6. 1 \in 1 .. Len(chains[p]) /\ FoundAt(p, 1)'
  BY <1>3, <1>4, <1>5 DEF FoundAt
<1>7. \A r \in Pid \ {p} : /\ where'[r] = where[r] /\ n'[r] = n[r]
                           /\ l'[r] = l[r] /\ nx'[r] = nx[r]
  BY <1>1, <1>3
<1> QED
  BY <1>1, <1>2, <1>3, <1>6, <1>7, QuietStep

LEMMA WalkStep ==
  ASSUME ListInv, NEW p \in Pid, remove_walk(p)
  PROVE  ListInv' /\ chains' = chains
<1>1. /\ where \in [Pid -> Where] /\ l \in [Pid -> Link] /\ n \in [Pid -> Link]
      /\ where[p] = "walk" /\ UNCHANGED <<nodes, waiting, nx>>
  BY DEF remove_walk, ListInv, TypeOK
<1>2. chains' = chains
  BY <1>1 DEF chains, Chain, nodes
<1>3. PICK i \in 1 .. Len(chains[p]) : FoundAt(p, i)
  BY <1>1 DEF ListInv, AtHand, Finding
<1>4. /\ Len(chains[p]) \in Nat /\ n[p] = chains[p][i] /\ n[p] \in Node
      /\ lnext[n[p]] = IF i < Len(chains[p]) THEN chains[p][i + 1] ELSE nil
      /\ \A j \in 1 .. Len(chains[p]) : chains[p][j] \in Node /\ chains[p][j] # nil
  BY <1>3, ChainFacts DEF ListInv, FoundAt
<1>5. CASE lnext[n[p]] = nil
  <2>1. where' = [where EXCEPT ![p] = "load"] /\ UNCHANGED <<l, n>>
    BY <1>5 DEF remove_walk
  <2>2. TypeOK'
    BY <1>1, <2>1 DEF ListInv, TypeOK, nodes, Where, Removing
  <2>3. where'[p] = "load" /\ \A r \in Pid \ {p} : where'[r] = where[r]
    BY <1>1, <2>1
  <2>4. FoundAt(p, i)'
    BY <1>2, <1>3, <2>1, <2>3 DEF FoundAt
  <2> QED
    BY <1>1, <2>1, <2>2, <2>3, <2>4, QuietStep
<1>6. CASE lnext[n[p]] # nil
  <2>1. UNCHANGED where /\ l' = [l EXCEPT ![p] = n[p]] /\ n' = [n EXCEPT ![p] = lnext[n[p]]]
    BY <1>6 DEF remove_walk, Advance
  <2>2. i + 1 \in 1 .. Len(chains[p]) /\ lnext[n[p]] = chains[p][i + 1] /\ (i + 1) - 1 = i /\ i + 1 # 1
    BY <1>4, <1>6
  <2>3. n[p] \in Link /\ lnext[n[p]] \in Link
    BY <1>4, <2>2 DEF Link
  <2>4. TypeOK'
    BY <1>1, <2>1, <2>3 DEF ListInv, TypeOK, nodes
  <2>5. /\ l'[p] = n[p] /\ n'[p] = lnext[n[p]]
        /\ \A r \in Pid \ {p} : l'[r] = l[r] /\ n'[r] = n[r]
    BY <1>1, <2>1
  <2>6. FoundAt(p, i + 1)'
    BY <1>1, <1>2, <1>4, <2>1, <2>2, <2>5 DEF FoundAt
  <2> QED
    BY <1>1, <2>1, <2>2, <2>4, <2>5, <2>6, QuietStep
<1> QED
  BY <1>5, <1>6

LEMMA LoadStep ==
  ASSUME ListInv, NEW p \in Pid, remove_load(p)
  PROVE  ListInv' /\ chains' = chains
<1>1. /\ where \in [Pid -> Where] /\ nx \in [Pid -> Link] /\ where[p] = "load"
      /\ nx' = [nx EXCEPT ![p] = lnext[n[p]]] /\ where' = [where EXCEPT ![p] = "cas"]
      /\ UNCHANGED <<nodes, waiting, l, n>>
  BY DEF remove_load, ListInv, TypeOK
<1>2. chains' = chains
  BY <1>1 DEF chains, Chain, nodes
<1>3. PICK i \in 1 .. Len(chains[p]) : FoundAt(p, i)
  BY <1>1 DEF ListInv, AtHand, Finding
<1>4. /\ Len(chains[p]) \in Nat /\ n[p] = chains[p][i] /\ n[p] \in Node
      /\ lnext[n[p]] = IF i < Len(chains[p]) THEN chains[p][i + 1] ELSE nil
      /\ \A j \in 1 .. Len(chains[p]) : chains[p][j] \in Node
  BY <1>3, ChainFacts DEF ListInv, FoundAt
<1>5. lnext[n[p]] \in Link
  <2>1. i < Len(chains[p]) => i + 1 \in 1 .. Len(chains[p])
    BY <1>4
  <2> QED
    BY <1>4, <2>1 DEF Link
<1>6. TypeOK'
  BY <1>1, <1>5 DEF ListInv, TypeOK, nodes, Where, Removing
<1>7. /\ where'[p] = "cas" /\ nx'[p] = lnext[n[p]]
      /\ \A r \in Pid \ {p} : where'[r] = where[r] /\ nx'[r] = nx[r]
  BY <1>1
<1>8. FoundAt(p, i)'
  BY <1>1, <1>2, <1>3, <1>4, <1>7 DEF FoundAt
<1> QED
  BY <1>1, <1>6, <1>7, <1>8, QuietStep

LEMMA CasFails ==
  ASSUME ListInv, NEW p \in Pid, where[p] = "cas",
         where' = [where EXCEPT ![p] = "first"], UNCHANGED <<nodes, waiting, local>>
  PROVE  ListInv' /\ chains' = chains
<1>1. where \in [Pid -> Where]
  BY DEF ListInv, TypeOK
<1>2. TypeOK'
  BY <1>1 DEF ListInv, TypeOK, nodes, local, Where, Removing
<1>3. UNCHANGED <<nodes, waiting, l, n, nx>>
  BY DEF local
<1> QED
  BY <1>1, <1>2, <1>3, QuietStep DEF Finding

-----------------------------------------------------------------------------
(* send: the first free node goes to the end of the list of q.             *)

LEMMA SendStep ==
  ASSUME ListInv, NEW p \in Pid, NEW q \in Pid, send(p, q)
  PROVE  /\ ListInv'
         /\ \E i \in Node :
              /\ lproc[i] = nil
              /\ lproc' = [lproc EXCEPT ![i] = p]
              /\ chains' = [chains EXCEPT ![q] = Append(chains[q], i)]
<1> DEFINE i == CHOOSE i \in FreeNodes : \A j \in FreeNodes : i <= j
           m == Len(chains[q])
<1>1. i \in Node /\ lproc[i] = nil
  <2>1. FreeNodes \subseteq Nat /\ FreeNodes # {}
    BY NilIsNoNode DEF FreeNodes, send
  <2>2. \E j \in FreeNodes : \A k \in FreeNodes : j <= k
    BY <2>1, LeastNat
  <2>3. i \in FreeNodes
    BY <2>2
  <2> QED
    BY <2>3 DEF FreeNodes
<1>2. /\ where[p] = "user"
      /\ lproc' = [lproc EXCEPT ![i] = p]
      /\ where' = [where EXCEPT ![p] = "sent"]
      /\ UNCHANGED <<l, n, nx>>
      /\ IF waiting[q] = nil
         THEN waiting' = [waiting EXCEPT ![q] = i] /\ lnext' = Cleared(i)
         ELSE lnext' = [Cleared(i) EXCEPT ![End(q)] = i] /\ UNCHANGED waiting
  BY DEF send, local
<1> HIDE DEF i
<1>3. /\ lproc \in [Node -> Pid \cup {nil}] /\ lnext \in [Node -> Link]
      /\ waiting \in [Pid -> Link] /\ where \in [Pid -> Where]
      /\ l \in [Pid -> Link] /\ n \in [Pid -> Link] /\ nx \in [Pid -> Link]
  BY DEF ListInv, TypeOK
<1>4. /\ m \in Nat /\ chains[q] \in Seq(Node)
      /\ waiting[q] = nil <=> m = 0
      /\ m # 0 => chains[q][m] \in Node
  <2>1. m # 0 => 1 \in 1 .. m /\ m \in 1 .. m
    BY ChainFacts DEF ListInv
  <2> QED
    BY <2>1, ChainFacts DEF ListInv
<1>5. End(q) = chains[q][m]
  BY DEF End, chains, Last
<1>6. \A r \in Pid : \A j \in 1 .. Len(chains[r]) : chains[r][j] # i /\ chains[r][j] \in Node
  BY <1>1, ChainFacts DEF ListInv, Claimed
<1>7. /\ waiting' = IF m = 0 THEN [waiting EXCEPT ![q] = i] ELSE waiting
      /\ lnext' = IF m = 0 THEN [lnext EXCEPT ![i] = nil]
                  ELSE [[lnext EXCEPT ![i] = nil] EXCEPT ![chains[q][m]] = i]
  BY <1>2, <1>4, <1>5 DEF Cleared
<1>8. Links(waiting'[q], lnext', Append(chains[q], i))
  <2>1. Links(waiting[q], lnext, chains[q])
    BY DEF ListInv, Linked
  <2>2. waiting'[q] = IF m = 0 THEN i ELSE waiting[q]
    BY <1>3, <1>7
  <2> QED
    BY <1>1, <1>3, <1>6, <1>7, <2>1, <2>2, LinksAppend
<1>9. \A r \in Pid \ {q} : \A j \in 1 .. Len(chains[r]) : lnext'[chains[r][j]] = lnext[chains[r][j]]
  <2>1. ASSUME NEW r \in Pid \ {q}, NEW j \in 1 .. Len(chains[r])
        PROVE  lnext'[chains[r][j]] = lnext[chains[r][j]]
    <3>1. m # 0 => m \in 1 .. m
      BY <1>4
    <3>2. m # 0 => chains[r][j] # chains[q][m]
      BY <3>1 DEF ListInv, Apart
    <3> QED
      BY <1>1, <1>3, <1>4, <1>6, <1>7, <3>2
  <2> QED
    BY <2>1
<1>10. /\ chains' = [chains EXCEPT ![q] = Append(chains[q], i)]
       /\ Linked'
  <2>1. \A r \in Pid \ {q} : waiting'[r] = waiting[r]
    BY <1>3, <1>7
  <2>2. /\ [r \in Pid |-> ChainFrom(waiting'[r], lnext')] = [chains EXCEPT ![q] = Append(chains[q], i)]
        /\ \A r \in Pid : Links(waiting'[r], lnext', [chains EXCEPT ![q] = Append(chains[q], i)][r])
    BY <1>8, <1>9, <2>1, OneListChanges DEF ListInv
  <2>3. chains' = [chains EXCEPT ![q] = Append(chains[q], i)]
    BY <2>2 DEF chains, Chain
  <2> QED
    BY <2>2, <2>3 DEF Linked
<1>11. ASSUME NEW r \in Pid
       PROVE  /\ Len(chains[r]) \in Nat /\ Len(chains'[r]) \in Nat
              /\ Len(chains[r]) <= Len(chains'[r])
              /\ \A j \in 1 .. Len(chains[r]) : chains'[r][j] = chains[r][j]
              /\ \A j \in 1 .. Len(chains'[r]) :
                   \/ r = q /\ j = m + 1 /\ chains'[r][j] = i
                   \/ j \in 1 .. Len(chains[r]) /\ chains'[r][j] = chains[r][j]
  <2>1. Len(chains[r]) \in Nat
    BY ChainFacts DEF ListInv
  <2>2. CASE r # q
    <3>1. chains'[r] = chains[r]
      BY <1>10, <2>2 DEF chains
    <3> QED
      BY <2>1, <3>1
  <2>3. CASE r = q
    <3>1. chains'[r] = Append(chains[q], i)
      BY <1>10, <2>3 DEF chains
    <3>2. /\ Len(Append(chains[q], i)) = m + 1
          /\ \A j \in 1 .. m : Append(chains[q], i)[j] = chains[q][j]
          /\ Append(chains[q], i)[m + 1] = i
      BY <1>1, <1>4, AppendFacts
    <3>3. \A j \in 1 .. m + 1 : j = m + 1 \/ j \in 1 .. m
      BY <1>4
    <3> QED
      BY <1>4, <2>3, <3>1, <3>2, <3>3
  <2> QED
    BY <2>2, <2>3
<1>12. Apart'
  <2>1. ASSUME NEW r1 \in Pid, NEW r2 \in Pid,
               NEW j1 \in 1 .. Len(chains'[r1]), NEW j2 \in 1 .. Len(chains'[r2]),
               chains'[r1][j1] = chains'[r2][j2]
        PROVE  r1 = r2
    BY <1>6, <1>11, <2>1, SMTT(30) DEF ListInv, Apart
  <2> QED
    BY <2>1 DEF Apart
<1>13. /\ p # nil /\ lproc'[i] = p
       /\ \A j \in Node \ {i} : lproc'[j] = lproc[j]
       /\ \A j \in Node : lproc[j] # nil => lproc[j] \in Pid /\ lproc[j] # p
       /\ where'[p] = "sent" /\ \A r \in Pid \ {p} : where'[r] = where[r]
  BY <1>1, <1>2, <1>3, NilIsNoNode DEF ListInv, OneEach
<1>14. Claimed'
  <2>1. ASSUME NEW r \in Pid, NEW j \in 1 .. Len(chains'[r]) PROVE lproc'[chains'[r][j]] # nil
    <3>1. CASE r = q /\ j = m + 1 /\ chains'[r][j] = i
      BY <1>13, <3>1
    <3>2. CASE j \in 1 .. Len(chains[r]) /\ chains'[r][j] = chains[r][j]
      <4>1. chains[r][j] \in Node \ {i} /\ lproc[chains[r][j]] # nil
        BY <1>6, <3>2 DEF ListInv, Claimed
      <4> QED
        BY <1>13, <3>2, <4>1
    <3> QED
      BY <1>11, <3>1, <3>2
  <2> QED
    BY <2>1 DEF Claimed
<1>15. OneEach'
  <2>1. \A j \in Node : lproc'[j] # nil => where'[lproc'[j]] = "sent"
    BY <1>13 DEF ListInv, OneEach
  <2>2. \A j, k \in Node : lproc'[j] = lproc'[k] /\ lproc'[j] # nil => j = k
    BY <1>1, <1>13 DEF ListInv, OneEach
  <2>3. \A r \in Pid : where'[r] = "sent" => \E j \in Node : lproc'[j] = r
    <3>1. ASSUME NEW r \in Pid, r # p, where'[r] = "sent" PROVE \E j \in Node : lproc'[j] = r
      <4>1. PICK j \in Node : lproc[j] = r
        BY <1>13, <3>1 DEF ListInv, OneEach
      <4> QED
        BY <1>1, <1>13, <4>1, NilIsNoNode
    <3> QED
      BY <1>1, <1>13, <3>1
  <2> QED
    BY <2>1, <2>2, <2>3 DEF OneEach
<1>16. AtHand'
  <2>1. ASSUME NEW r \in Pid, where'[r] \in Finding
        PROVE  \E j \in 1 .. Len(chains'[r]) : FoundAt(r, j)'
    <3>1. where'[r] = where[r]
      BY <1>13, <2>1 DEF Finding
    <3>2. PICK j \in 1 .. Len(chains[r]) : FoundAt(r, j)
      BY <2>1, <3>1 DEF ListInv, AtHand
    <3> QED
      BY <1>2, <1>11, <3>1, <3>2, FoundKept
  <2> QED
    BY <2>1 DEF AtHand
<1>17. InHand'
  <2>1. ASSUME NEW r \in Pid, where'[r] = "free"
        PROVE  /\ where[r] = "free" /\ n'[r] = n[r] /\ n[r] \in Node /\ lproc[n[r]] # nil
               /\ n[r] # i
    BY <1>1, <1>2, <1>13, <2>1 DEF ListInv, InHand
  <2>2. ASSUME NEW r \in Pid, where'[r] = "free", NEW s \in Pid, NEW j \in 1 .. Len(chains'[s])
        PROVE  chains'[s][j] # n'[r]
    BY <1>11, <2>1, <2>2 DEF ListInv, InHand
  <2>3. \A r, s \in Pid : where'[r] = "free" /\ where'[s] = "free" /\ n'[s] = n'[r] => s = r
    BY <2>1 DEF ListInv, InHand
  <2>4. \A r \in Pid : where'[r] = "free" => n'[r] \in Node /\ lproc'[n'[r]] # nil
    BY <1>13, <2>1
  <2> QED
    BY <2>2, <2>3, <2>4 DEF InHand
<1>18. TypeOK'
  <2>1. lproc' \in [Node -> Pid \cup {nil}] /\ where' \in [Pid -> Where]
    BY <1>1, <1>2, <1>3 DEF Where
  <2>2. i \in Link /\ nil \in Link
    BY <1>1 DEF Link
  <2>3. waiting' \in [Pid -> Link] /\ lnext' \in [Node -> Link]
    BY <1>3, <1>4, <1>7, <2>2
  <2> QED
    BY <1>2, <1>3, <2>1, <2>3 DEF TypeOK
<1>19. ListInv'
  BY <1>10, <1>12, <1>14, <1>15, <1>16, <1>17, <1>18 DEF ListInv
<1> QED
  BY <1>1, <1>2, <1>10, <1>19

-----------------------------------------------------------------------------
(* The steps that unlink nodes. *)

(* Whether n->next was right or nil, what is left is part of the list.     *)
LEMMA ShrinkStep ==
  ASSUME ListInv, NEW q \in Pid, NEW k \in 1 .. Len(chains[q]), NEW t,
         t = RemoveAt(chains[q], k) \/ t = SubSeq(chains[q], 1, k - 1),
         Links(waiting'[q], lnext', t),
         \A r \in Pid \ {q} : waiting'[r] = waiting[r],
         \A x \in Node : lnext'[x] = lnext[x] \/ (k # 1 /\ x = chains[q][k - 1])
  PROVE  /\ chains' = [chains EXCEPT ![q] = t]
         /\ Linked' /\ Apart'
         /\ \A r \in Pid : \A j \in 1 .. Len(chains'[r]) :
              /\ chains'[r][j] # chains[q][k]
              /\ \E i \in 1 .. Len(chains[r]) : chains'[r][j] = chains[r][i]
<1> DEFINE m == Len(chains[q])
<1>1. chains[q] \in Seq(Node) /\ m \in Nat
  BY ChainFacts DEF ListInv
<1>2. /\ t \in Seq(Node) /\ Len(t) \in Nat
      /\ \A j \in 1 .. Len(t) : \E i \in 1 .. m : i # k /\ t[j] = chains[q][i]
  <2>1. CASE t = RemoveAt(chains[q], k)
    <3>1. /\ t \in Seq(Node) /\ Len(t) = m - 1
          /\ \A j \in 1 .. m - 1 : t[j] = IF j < k THEN chains[q][j] ELSE chains[q][j + 1]
      BY <1>1, <2>1, RemoveAtFacts
    <3>2. ASSUME NEW j \in 1 .. Len(t) PROVE \E i \in 1 .. m : i # k /\ t[j] = chains[q][i]
      <4>1. j \in 1 .. m - 1
        BY <3>1
      <4>2. /\ j < k => j \in 1 .. m /\ j # k
            /\ ~ (j < k) => j + 1 \in 1 .. m /\ j + 1 # k
        <5> HIDE DEF m
        <5> QED
          BY <1>1, <4>1
      <4> QED
        BY <3>1, <4>1, <4>2
    <3>3. Len(t) \in Nat
      BY <3>1
    <3> QED
      BY <3>1, <3>2, <3>3
  <2>2. CASE t = SubSeq(chains[q], 1, k - 1)
    <3>1. /\ t \in Seq(Node) /\ Len(t) = k - 1
          /\ \A j \in 1 .. k - 1 : t[j] = chains[q][j]
      BY <1>1, <2>2
    <3>2. \A j \in 1 .. k - 1 : j \in 1 .. m /\ j # k
      BY <1>1
    <3>3. Len(t) \in Nat
      BY <3>1
    <3> QED
      BY <3>1, <3>2, <3>3
  <2> QED
    BY <2>1, <2>2
<1>3. \A r \in Pid \ {q} : \A j \in 1 .. Len(chains[r]) : lnext'[chains[r][j]] = lnext[chains[r][j]]
  <2>1. ASSUME NEW r \in Pid \ {q}, NEW j \in 1 .. Len(chains[r])
        PROVE  lnext'[chains[r][j]] = lnext[chains[r][j]]
    <3>1. k # 1 => k - 1 \in 1 .. m
      BY <1>1
    <3>2. k # 1 => chains[r][j] # chains[q][k - 1]
      BY <3>1 DEF ListInv, Apart
    <3>3. chains[r][j] \in Node
      BY ChainFacts DEF ListInv
    <3> QED
      BY <3>2, <3>3
  <2> QED
    BY <2>1
<1>4. chains' = [chains EXCEPT ![q] = t] /\ Linked'
  <2>1. /\ [r \in Pid |-> ChainFrom(waiting'[r], lnext')] = [chains EXCEPT ![q] = t]
        /\ \A r \in Pid : Links(waiting'[r], lnext', [chains EXCEPT ![q] = t][r])
    BY <1>3, OneListChanges DEF ListInv
  <2>2. chains' = [chains EXCEPT ![q] = t]
    BY <2>1 DEF chains, Chain
  <2> QED
    BY <2>1, <2>2 DEF Linked
<1>5. ASSUME NEW r \in Pid, NEW j \in 1 .. Len(chains'[r])
      PROVE  /\ chains'[r][j] # chains[q][k]
             /\ \E i \in 1 .. Len(chains[r]) : chains'[r][j] = chains[r][i]
  <2>1. CASE r = q
    <3>1. chains'[r] = t
      BY <1>4, <2>1 DEF chains
    <3>2. PICK i \in 1 .. m : i # k /\ t[j] = chains[q][i]
      BY <1>2, <3>1
    <3>3. chains[q][i] # chains[q][k]
      BY <3>2, ChainFacts DEF ListInv
    <3> QED
      BY <2>1, <3>1, <3>2, <3>3
  <2>2. CASE r # q
    <3>1. chains'[r] = chains[r]
      BY <1>4, <2>2 DEF chains
    <3>2. chains[r][j] # chains[q][k]
      BY <2>2, <3>1 DEF ListInv, Apart
    <3> QED
      BY <3>1, <3>2
  <2> QED
    BY <2>1, <2>2
<1>6. Apart'
  <2>1. ASSUME NEW r1 \in Pid, NEW r2 \in Pid,
               NEW j1 \in 1 .. Len(chains'[r1]), NEW j2 \in 1 .. Len(chains'[r2]),
               chains'[r1][j1] = chains'[r2][j2]
        PROVE  r1 = r2
    <3>1. PICK i1 \in 1 .. Len(chains[r1]) : chains'[r1][j1] = chains[r1][i1]
      BY <1>5
    <3>2. PICK i2 \in 1 .. Len(chains[r2]) : chains'[r2][j2] = chains[r2][i2]
      BY <1>5
    <3>3. chains[r1][i1] = chains[r2][i2]
      BY <2>1, <3>1, <3>2
    <3>4. Apart
      BY DEF ListInv
    <3> QED
      BY <3>3, <3>4 DEF Apart
  <2> QED
    BY <2>1 DEF Apart
<1> QED
  BY <1>4, <1>5, <1>6

(* The removals that others are in the middle of are in other lists.       *)
LEMMA OthersFind ==
  ASSUME ListInv, NEW q \in Pid, NEW t, chains' = [chains EXCEPT ![q] = t],
         where'[q] \notin Finding, UNCHANGED local,
         \A r \in Pid \ {q} : where'[r] \in Finding => where'[r] = where[r]
  PROVE  AtHand'
<1>0. l' = l /\ n' = n /\ nx' = nx
  BY DEF local
<1>1. ASSUME NEW r \in Pid, where'[r] \in Finding
      PROVE  \E j \in 1 .. Len(chains'[r]) : FoundAt(r, j)'
  <2>1. r # q /\ where'[r] = where[r]
    BY <1>1
  <2>2. chains'[r] = chains[r] /\ Len(chains[r]) \in Nat
    BY <2>1, ChainFacts DEF ListInv, chains
  <2>3. PICK j \in 1 .. Len(chains[r]) : FoundAt(r, j)
    BY <1>1, <2>1 DEF ListInv, AtHand
  <2> QED
    BY <1>0, <2>1, <2>2, <2>3, FoundKept
<1> QED
  BY <1>1 DEF AtHand

(* The receive of a user program takes the node and gives it back.         *)
LEMMA RecvStep ==
  ASSUME ListInv, NEW q \in Pid, NEW pid, recv(q, pid)
  PROVE  /\ ListInv'
         /\ where[q] = "user"
         /\ \E k \in 1 .. Len(chains[q]) :
              /\ k = Picked(Senders(q), pid)
              /\ lproc' = [lproc EXCEPT ![chains[q][k]] = nil]
              /\ where' = [where EXCEPT ![lproc[chains[q][k]]] = "taken"]
              /\ chains' = [chains EXCEPT ![q] = RemoveAt(chains[q], k)]
<1> DEFINE c == chains[q]
           k == Picked(Senders(q), pid)
           s == lproc[c[k]]
<1>1. /\ lproc \in [Node -> Pid \cup {nil}] /\ lnext \in [Node -> Link]
      /\ waiting \in [Pid -> Link] /\ where \in [Pid -> Where]
      /\ l \in [Pid -> Link] /\ n \in [Pid -> Link] /\ nx \in [Pid -> Link]
  BY DEF ListInv, TypeOK
<1>2. /\ Len(c) \in Nat /\ Len(c) # 0
      /\ \A i \in 1 .. Len(c) : c[i] \in Node /\ lproc[c[i]] \in Pid /\ lproc[c[i]] # nil
  <2>1. waiting[q] # nil
    BY DEF recv
  <2>2. \A i \in 1 .. Len(c) : c[i] \in Node /\ lproc[c[i]] # nil
    BY ChainFacts DEF ListInv, Claimed
  <2>3. Len(c) \in Nat /\ Len(c) # 0
    BY <2>1, ChainFacts DEF ListInv
  <2> QED
    BY <1>1, <2>2, <2>3
<1>3. k \in 1 .. Len(c)
  <2>1. Senders(q) = [i \in 1 .. Len(c) |-> lproc[c[i]]]
    <3>1. c \in Seq(Node) /\ c = Chain(q)
      BY ChainFacts DEF ListInv, chains
    <3> QED
      BY <3>1 DEF Senders
  <2>2. Senders(q) \in Seq(Pid) /\ Len(Senders(q)) = Len(c) /\ Senders(q) # <<>>
    BY <1>2, <2>1
  <2> QED
    BY <2>2, PickedFacts
<1>4. /\ where[q] = "user"
      /\ Store(q, IF k = 1 THEN nil ELSE c[k - 1], lnext[c[k]])
      /\ lproc' = [lproc EXCEPT ![c[k]] = nil]
      /\ where' = [where EXCEPT ![s] = "taken"]
      /\ UNCHANGED local
  BY DEF recv, Released, chains
<1> HIDE DEF k
<1>5. c[k] \in Node /\ s \in Pid /\ s # nil /\ where[s] = "sent"
  BY <1>2, <1>3 DEF ListInv, OneEach
<1>6. k # 1 => c[k - 1] \in Node /\ c[k - 1] # nil
  <2>1. k # 1 => k - 1 \in 1 .. Len(c)
    BY <1>2, <1>3
  <2> QED
    BY <1>2, <2>1, NilIsNoNode
<1>7. lnext[c[k]] \in Link
  BY <1>1, <1>5
<1>8. /\ waiting' = IF k = 1 THEN [waiting EXCEPT ![q] = lnext[c[k]]] ELSE waiting
      /\ lnext' = IF k = 1 THEN lnext ELSE [lnext EXCEPT ![c[k - 1]] = lnext[c[k]]]
  BY <1>4, <1>6 DEF Store
<1>9. Links(waiting'[q], lnext', RemoveAt(c, k))
  <2>1. Links(waiting[q], lnext, c)
    BY DEF ListInv, Linked
  <2>2. waiting'[q] = IF k = 1 THEN lnext[c[k]] ELSE waiting[q]
    BY <1>1, <1>8
  <2> QED
    BY <1>1, <1>3, <1>8, <2>1, <2>2, LinksRemove
<1>10. /\ chains' = [chains EXCEPT ![q] = RemoveAt(c, k)]
       /\ Linked' /\ Apart'
       /\ \A r \in Pid : \A j \in 1 .. Len(chains'[r]) :
            /\ chains'[r][j] # c[k]
            /\ \E i \in 1 .. Len(chains[r]) : chains'[r][j] = chains[r][i]
  <2>1. \A r \in Pid \ {q} : waiting'[r] = waiting[r]
    BY <1>1, <1>8
  <2>2. \A x \in Node : lnext'[x] = lnext[x] \/ (k # 1 /\ x = c[k - 1])
    BY <1>1, <1>8
  <2> QED
    BY <1>3, <1>9, <2>1, <2>2, ShrinkStep
<1>11. /\ lproc'[c[k]] = nil
       /\ \A x \in Node \ {c[k]} : lproc'[x] = lproc[x]
       /\ where'[s] = "taken" /\ \A r \in Pid \ {s} : where'[r] = where[r]
  BY <1>1, <1>4, <1>5
<1> HIDE DEF s
<1>12. Claimed'
  <2>1. ASSUME NEW r \in Pid, NEW j \in 1 .. Len(chains'[r]) PROVE lproc'[chains'[r][j]] # nil
    <3>1. PICK i \in 1 .. Len(chains[r]) : chains'[r][j] = chains[r][i]
      BY <1>10
    <3>2. chains[r][i] \in Node /\ lproc[chains[r][i]] # nil /\ chains[r][i] # c[k]
      BY <1>10, <3>1, ChainFacts DEF ListInv, Claimed
    <3> QED
      BY <1>11, <3>1, <3>2
  <2> QED
    BY <2>1 DEF Claimed
<1>13. OneEach'
  <2>0. s = lproc[c[k]]
    BY DEF s
  <2>1. \A j \in Node : lproc'[j] # nil => lproc[j] = lproc'[j] /\ j # c[k]
    BY <1>11
  <2>2. ASSUME NEW j \in Node, lproc'[j] # nil PROVE where'[lproc'[j]] = "sent"
    <3>1. lproc[j] = lproc'[j] /\ j # c[k] /\ lproc[j] \in Pid
      BY <1>1, <2>1, <2>2
    <3>2. lproc[j] # s /\ where[lproc[j]] = "sent"
      BY <1>5, <2>0, <2>2, <3>1 DEF ListInv, OneEach
    <3> QED
      BY <1>11, <3>1, <3>2
  <2>3. \A j, i \in Node : lproc'[j] = lproc'[i] /\ lproc'[j] # nil => j = i
    BY <2>1 DEF ListInv, OneEach
  <2>4. ASSUME NEW r \in Pid, where'[r] = "sent" PROVE \E j \in Node : lproc'[j] = r
    <3>1. r # s /\ where[r] = "sent"
      BY <1>11, <2>4
    <3>2. PICK j \in Node : lproc[j] = r
      BY <3>1 DEF ListInv, OneEach
    <3> QED
      BY <1>11, <2>0, <3>1, <3>2
  <2> QED
    BY <2>2, <2>3, <2>4 DEF OneEach
<1>14. AtHand'
  <2>1. where'[q] \notin Finding /\ \A r \in Pid \ {q} : where'[r] \in Finding => where'[r] = where[r]
    BY <1>4, <1>11 DEF Finding
  <2> QED
    BY <1>4, <1>10, <2>1, OthersFind
<1>15. InHand'
  <2>1. ASSUME NEW r \in Pid, where'[r] = "free"
        PROVE  where[r] = "free" /\ n'[r] = n[r] /\ n[r] \in Node /\ lproc[n[r]] # nil /\ n[r] # c[k]
    <3>1. where[r] = "free"
      BY <1>11, <2>1
    <3> QED
      BY <1>3, <1>4, <3>1 DEF ListInv, InHand, local
  <2>2. ASSUME NEW r \in Pid, where'[r] = "free", NEW u \in Pid, NEW j \in 1 .. Len(chains'[u])
        PROVE  chains'[u][j] # n'[r]
    <3>1. PICK i \in 1 .. Len(chains[u]) : chains'[u][j] = chains[u][i]
      BY <1>10
    <3> QED
      BY <2>1, <2>2, <3>1 DEF ListInv, InHand
  <2>3. \A r, u \in Pid : where'[r] = "free" /\ where'[u] = "free" /\ n'[u] = n'[r] => u = r
    BY <2>1 DEF ListInv, InHand
  <2>4. \A r \in Pid : where'[r] = "free" => n'[r] \in Node /\ lproc'[n'[r]] # nil
    BY <1>11, <2>1
  <2> QED
    BY <2>2, <2>3, <2>4 DEF InHand
<1>16. TypeOK'
  <2>1. lproc' \in [Node -> Pid \cup {nil}] /\ where' \in [Pid -> Where]
    BY <1>1, <1>4 DEF Where
  <2>2. waiting' \in [Pid -> Link] /\ lnext' \in [Node -> Link]
    BY <1>1, <1>7, <1>8
  <2>3. l' \in [Pid -> Link] /\ n' \in [Pid -> Link] /\ nx' \in [Pid -> Link]
    BY <1>1, <1>4 DEF local
  <2> QED
    BY <2>1, <2>2, <2>3 DEF TypeOK
<1>17. ListInv'
  BY <1>10, <1>12, <1>13, <1>14, <1>15, <1>16 DEF ListInv
<1> QED
  BY <1>3, <1>4, <1>10, <1>17 DEF k, s

(* The swap of proc_start's receive: the node leaves the list, and what    *)
(* has joined since its next was loaded leaves with it.                    *)
LEMMA CasStep ==
  ASSUME ListInv, NEW p \in Pid, where[p] = "cas", Deref(p, l[p]) = n[p],
         Store(p, l[p], nx[p]), where' = [where EXCEPT ![p] = "free"],
         UNCHANGED <<lproc, local>>
  PROVE  /\ ListInv'
         /\ \E k \in 1 .. Len(chains[p]), t \in Seq(Node) :
              /\ t = RemoveAt(chains[p], k) \/ t = SubSeq(chains[p], 1, k - 1)
              /\ chains' = [chains EXCEPT ![p] = t]
<1> DEFINE c == chains[p]
<1>1. /\ lproc \in [Node -> Pid \cup {nil}] /\ lnext \in [Node -> Link]
      /\ waiting \in [Pid -> Link] /\ where \in [Pid -> Where]
      /\ l \in [Pid -> Link] /\ n \in [Pid -> Link] /\ nx \in [Pid -> Link]
  BY DEF ListInv, TypeOK
<1>2. PICK k \in 1 .. Len(c) : FoundAt(p, k)
  BY DEF ListInv, AtHand, Finding
<1>3. /\ Len(c) \in Nat
      /\ n[p] = c[k] /\ l[p] = IF k = 1 THEN nil ELSE c[k - 1]
      /\ nx[p] = nil \/ (k < Len(c) /\ nx[p] = c[k + 1])
  BY <1>2, ChainFacts DEF ListInv, FoundAt
<1>4. /\ c[k] \in Node /\ lproc[c[k]] # nil
      /\ lnext[c[k]] = IF k < Len(c) THEN c[k + 1] ELSE nil
  BY ChainFacts DEF ListInv, Claimed
<1>5. k # 1 => c[k - 1] \in Node /\ c[k - 1] # nil
  <2>1. k # 1 => k - 1 \in 1 .. Len(c)
    BY <1>3
  <2> QED
    BY <2>1, ChainFacts DEF ListInv
<1>6. /\ waiting' = IF k = 1 THEN [waiting EXCEPT ![p] = nx[p]] ELSE waiting
      /\ lnext' = IF k = 1 THEN lnext ELSE [lnext EXCEPT ![c[k - 1]] = nx[p]]
  BY <1>3, <1>5 DEF Store
<1>7. PICK t : /\ t = RemoveAt(c, k) \/ t = SubSeq(c, 1, k - 1)
               /\ Links(waiting'[p], lnext', t)
  <2>1. Links(waiting[p], lnext, c)
    BY DEF ListInv, Linked
  <2>2. waiting'[p] = IF k = 1 THEN nx[p] ELSE waiting[p]
    BY <1>1, <1>6
  <2>3. CASE nx[p] = nil
    <3>1. Links(waiting'[p], lnext', SubSeq(c, 1, k - 1))
      BY <1>1, <1>6, <2>1, <2>2, <2>3, LinksCut
    <3> QED
      BY <3>1
  <2>4. CASE nx[p] = lnext[c[k]]
    <3>1. Links(waiting'[p], lnext', RemoveAt(c, k))
      BY <1>1, <1>6, <2>1, <2>2, <2>4, LinksRemove
    <3> QED
      BY <3>1
  <2> QED
    BY <1>3, <1>4, <2>3, <2>4
<1>8. /\ chains' = [chains EXCEPT ![p] = t]
      /\ Linked' /\ Apart'
      /\ \A r \in Pid : \A j \in 1 .. Len(chains'[r]) :
           /\ chains'[r][j] # c[k]
           /\ \E i \in 1 .. Len(chains[r]) : chains'[r][j] = chains[r][i]
  <2>1. \A r \in Pid \ {p} : waiting'[r] = waiting[r]
    BY <1>1, <1>6
  <2>2. \A x \in Node : lnext'[x] = lnext[x] \/ (k # 1 /\ x = c[k - 1])
    BY <1>1, <1>6
  <2> QED
    BY <1>7, <2>1, <2>2, ShrinkStep
<1>9. where'[p] = "free" /\ \A r \in Pid \ {p} : where'[r] = where[r]
  BY <1>1
<1>10. Claimed'
  <2>1. ASSUME NEW r \in Pid, NEW j \in 1 .. Len(chains'[r]) PROVE lproc'[chains'[r][j]] # nil
    <3>1. PICK i \in 1 .. Len(chains[r]) : chains'[r][j] = chains[r][i]
      BY <1>8
    <3>2. lproc[chains[r][i]] # nil
      BY DEF ListInv, Claimed
    <3> QED
      BY <3>1, <3>2
  <2> QED
    BY <2>1 DEF Claimed
<1>11. OneEach'
  <2>1. \A r \in Pid : where[r] = "sent" <=> where'[r] = "sent"
    BY <1>9
  <2>2. \A x \in Node : lproc[x] # nil => lproc[x] \in Pid
    BY <1>1
  <2> QED
    BY <2>1, <2>2 DEF ListInv, OneEach
<1>12. AtHand'
  <2>1. where'[p] \notin Finding
    BY <1>9 DEF Finding
  <2> QED
    BY <1>8, <1>9, <2>1, OthersFind
<1>13. InHand'
  <2>1. n' = n
    BY DEF local
  <2>2. \A r \in Pid : where'[r] = "free" => r = p \/ where[r] = "free"
    BY <1>9
  <2>3. ASSUME NEW r \in Pid, where'[r] = "free"
        PROVE  n[r] \in Node /\ lproc[n[r]] # nil /\ (n[r] = c[k] <=> r = p)
    BY <1>3, <1>4, <2>2, <2>3 DEF ListInv, InHand
  <2>4. ASSUME NEW r \in Pid, where'[r] = "free", NEW u \in Pid, NEW j \in 1 .. Len(chains'[u])
        PROVE  chains'[u][j] # n[r]
    <3>1. CASE r = p
      BY <1>3, <1>8, <3>1
    <3>2. CASE r # p
      <4>1. PICK i \in 1 .. Len(chains[u]) : chains'[u][j] = chains[u][i]
        BY <1>8
      <4>2. where[r] = "free"
        BY <2>2, <2>4, <3>2
      <4>3. chains[u][i] # n[r]
        BY <4>2 DEF ListInv, InHand
      <4> QED
        BY <4>1, <4>3
    <3> QED
      BY <3>1, <3>2
  <2>5. ASSUME NEW r \in Pid, where'[r] = "free", NEW u \in Pid, where'[u] = "free", n[u] = n[r]
        PROVE  u = r
    <3>1. CASE r = p \/ u = p
      BY <2>3, <2>5, <3>1
    <3>2. CASE r # p /\ u # p
      BY <2>2, <2>5, <3>2 DEF ListInv, InHand
    <3> QED
      BY <3>1, <3>2
  <2> QED
    BY <2>1, <2>3, <2>4, <2>5 DEF InHand
<1>14. TypeOK'
  <2>1. lproc' \in [Node -> Pid \cup {nil}] /\ where' \in [Pid -> Where]
    BY <1>1 DEF Where, Removing
  <2>2. waiting' \in [Pid -> Link] /\ lnext' \in [Node -> Link]
    BY <1>1, <1>6
  <2>3. l' \in [Pid -> Link] /\ n' \in [Pid -> Link] /\ nx' \in [Pid -> Link]
    BY <1>1 DEF local
  <2> QED
    BY <2>1, <2>2, <2>3 DEF TypeOK
<1>15. ListInv'
  BY <1>8, <1>10, <1>11, <1>12, <1>13, <1>14 DEF ListInv
<1>16. t \in Seq(Node)
  BY <1>7 DEF Links
<1> QED
  BY <1>7, <1>8, <1>15, <1>16

(* n->proc = nil: the node goes back to the pool, its sender is answered.  *)
LEMMA FreeStep ==
  ASSUME ListInv, NEW p \in Pid, remove_free(p)
  PROVE  /\ ListInv' /\ chains' = chains
         /\ where[p] = "free" /\ n[p] \in Node /\ lproc[n[p]] \in Pid
         /\ lproc' = [lproc EXCEPT ![n[p]] = nil]
         /\ where' = [where EXCEPT ![p] = "user", ![lproc[n[p]]] = "taken"]
<1> DEFINE s == lproc[n[p]]
           x == n[p]
<1>1. /\ lproc \in [Node -> Pid \cup {nil}] /\ lnext \in [Node -> Link]
      /\ waiting \in [Pid -> Link] /\ where \in [Pid -> Where]
      /\ l \in [Pid -> Link] /\ n \in [Pid -> Link] /\ nx \in [Pid -> Link]
  BY DEF ListInv, TypeOK
<1>2. /\ where[p] = "free" /\ lproc' = [lproc EXCEPT ![x] = nil]
      /\ where' = [where EXCEPT ![p] = "user", ![s] = "taken"]
      /\ l' = [l EXCEPT ![p] = nil] /\ n' = [n EXCEPT ![p] = nil] /\ nx' = [nx EXCEPT ![p] = nil]
      /\ UNCHANGED <<lnext, waiting>>
  BY DEF remove_free, Released
<1>3. /\ x \in Node /\ s # nil
      /\ \A q \in Pid : \A i \in 1 .. Len(chains[q]) : chains[q][i] # x
  BY <1>2 DEF ListInv, InHand
<1>4. s \in Pid /\ where[s] = "sent" /\ s # p
  BY <1>1, <1>2, <1>3 DEF ListInv, OneEach
<1>5. chains' = chains
  BY <1>2 DEF chains, Chain
<1>6. /\ lproc'[x] = nil /\ \A y \in Node \ {x} : lproc'[y] = lproc[y]
      /\ where'[s] = "taken" /\ where'[p] = "user"
      /\ \A r \in Pid \ {s, p} : where'[r] = where[r]
      /\ \A r \in Pid \ {p} : l'[r] = l[r] /\ n'[r] = n[r] /\ nx'[r] = nx[r]
  BY <1>1, <1>2, <1>3, <1>4
<1>7. s = lproc[x]
  OBVIOUS
<1> HIDE DEF s, x
<1>8. Linked' /\ Apart'
  BY <1>2, <1>5 DEF ListInv, Linked, Apart
<1>9. Claimed'
  <2>1. ASSUME NEW r \in Pid, NEW j \in 1 .. Len(chains[r]) PROVE lproc'[chains[r][j]] # nil
    <3>1. chains[r][j] \in Node /\ lproc[chains[r][j]] # nil
      BY ChainFacts DEF ListInv, Claimed
    <3> QED
      BY <1>3, <1>6, <3>1
  <2> QED
    BY <1>5, <2>1 DEF Claimed
<1>10. OneEach'
  <2>1. \A j \in Node : lproc'[j] # nil => lproc[j] = lproc'[j] /\ j # x
    BY <1>6
  <2>2. ASSUME NEW j \in Node, lproc'[j] # nil PROVE where'[lproc'[j]] = "sent"
    <3>1. lproc[j] = lproc'[j] /\ j # x /\ lproc[j] \in Pid
      BY <1>1, <2>1, <2>2
    <3>2. lproc[j] # s /\ where[lproc[j]] = "sent"
      BY <1>3, <1>7, <2>2, <3>1 DEF ListInv, OneEach
    <3>3. lproc[j] # p
      BY <1>2, <3>2
    <3>4. \A q \in Pid : q # p /\ q # s => where'[q] = where[q]
      <4> HIDE DEF s, x
      <4> QED
        BY <1>1, <1>2
    <3> HIDE DEF s, x
    <3> QED
      BY <3>1, <3>2, <3>3, <3>4
  <2>3. \A j, i \in Node : lproc'[j] = lproc'[i] /\ lproc'[j] # nil => j = i
    BY <2>1 DEF ListInv, OneEach
  <2>4. ASSUME NEW r \in Pid, where'[r] = "sent" PROVE \E j \in Node : lproc'[j] = r
    <3>1. r # s /\ r # p /\ where[r] = "sent"
      BY <1>6, <2>4
    <3>2. PICK j \in Node : lproc[j] = r
      BY <3>1 DEF ListInv, OneEach
    <3> QED
      BY <1>6, <1>7, <3>1, <3>2
  <2> QED
    BY <2>2, <2>3, <2>4 DEF OneEach
<1>11. AtHand'
  <2>1. ASSUME NEW r \in Pid, where'[r] \in Finding
        PROVE  \E j \in 1 .. Len(chains'[r]) : FoundAt(r, j)'
    <3>1. r # s /\ r # p /\ where'[r] = where[r]
      BY <1>6, <2>1 DEF Finding
    <3>2. PICK j \in 1 .. Len(chains[r]) : FoundAt(r, j)
      BY <2>1, <3>1 DEF ListInv, AtHand
    <3>3. Len(chains[r]) \in Nat
      BY ChainFacts DEF ListInv
    <3> QED
      BY <1>5, <1>6, <3>1, <3>2, <3>3, FoundKept
  <2> QED
    BY <2>1 DEF AtHand
<1>12. InHand'
  <2>1. ASSUME NEW r \in Pid, where'[r] = "free"
        PROVE  /\ where[r] = "free" /\ r # p /\ n'[r] = n[r]
               /\ n[r] \in Node /\ lproc[n[r]] # nil /\ n[r] # x
    <3>1. where[r] = "free" /\ r # p /\ n'[r] = n[r]
      BY <1>6, <2>1
    <3>2. n[r] # n[p] /\ n[r] \in Node /\ lproc[n[r]] # nil
      BY <1>2, <3>1 DEF ListInv, InHand
    <3> QED
      BY <3>1, <3>2 DEF x
  <2>2. \A r \in Pid : where'[r] = "free" => n'[r] \in Node /\ lproc'[n'[r]] # nil
    BY <1>6, <2>1
  <2>3. ASSUME NEW r \in Pid, where'[r] = "free", NEW u \in Pid, NEW j \in 1 .. Len(chains[u])
        PROVE  chains[u][j] # n'[r]
    BY <2>1, <2>3 DEF ListInv, InHand
  <2>4. \A r, u \in Pid : where'[r] = "free" /\ where'[u] = "free" /\ n'[u] = n'[r] => u = r
    BY <2>1 DEF ListInv, InHand
  <2> QED
    BY <1>5, <2>2, <2>3, <2>4 DEF InHand
<1>13. TypeOK'
  <2>1. lproc' \in [Node -> Pid \cup {nil}] /\ where' \in [Pid -> Where]
    BY <1>1, <1>2 DEF Where
  <2>2. l' \in [Pid -> Link] /\ n' \in [Pid -> Link] /\ nx' \in [Pid -> Link]
    BY <1>1, <1>2 DEF Link
  <2> QED
    BY <1>1, <1>2, <2>1, <2>2 DEF TypeOK
<1>14. ListInv'
  BY <1>8, <1>9, <1>10, <1>11, <1>12, <1>13 DEF ListInv
<1> QED
  BY <1>2, <1>3, <1>4, <1>5, <1>14 DEF s, x

-----------------------------------------------------------------------------
(* The invariant holds in every state.                                     *)

LEMMA ListInitInv == Init => ListInv
<1> SUFFICES ASSUME Init PROVE ListInv
  OBVIOUS
<1>1. /\ lproc = [i \in Node |-> nil] /\ lnext = [i \in Node |-> nil]
      /\ waiting = [p \in Pid |-> nil]
      /\ where = [p \in Pid |-> IF p \in Starting THEN "first" ELSE "user"]
      /\ l = [p \in Pid |-> nil] /\ n = [p \in Pid |-> nil] /\ nx = [p \in Pid |-> nil]
  BY DEF Init
<1>2. \A q \in Pid : chains[q] = <<>> /\ Links(waiting[q], lnext, chains[q])
  <2>1. ASSUME NEW q \in Pid PROVE chains[q] = <<>> /\ Links(waiting[q], lnext, chains[q])
    <3>1. Links(waiting[q], lnext, <<>>)
      BY <1>1 DEF Links
    <3>2. chains[q] = <<>>
      BY <3>1, ChainIs DEF chains, Chain
    <3> QED
      BY <3>1, <3>2
  <2> QED
    BY <2>1
<1>3. \A p \in Pid : where[p] \in {"first", "user"}
  BY <1>1
<1>4. TypeOK
  BY <1>1 DEF TypeOK, Link, Where, Removing
<1>5. Linked /\ Apart /\ Claimed
  BY <1>2 DEF Linked, Apart, Claimed
<1>6. OneEach
  BY <1>1, <1>3 DEF OneEach
<1>7. AtHand /\ InHand
  BY <1>3 DEF AtHand, InHand, Finding
<1> QED
  BY <1>4, <1>5, <1>6, <1>7 DEF ListInv

LEMMA ListNextInv == ListInv /\ [Next]_vars => ListInv'
<1>1. SUFFICES ASSUME ListInv, [Next]_vars PROVE ListInv'
  OBVIOUS
<1>2. ASSUME NEW p \in Pid, NEW q \in Pid, send(p, q) PROVE ListInv'
  BY <1>1, <1>2, SendStep
<1>3. ASSUME NEW p \in Pid, NEW pid \in Pid \cup {PID_ALL}, recv(p, pid) PROVE ListInv'
  BY <1>1, <1>3, RecvStep
<1>4. ASSUME NEW p \in Pid, answer(p) PROVE ListInv'
  BY <1>1, <1>4, AnswerStep
<1>5. ASSUME NEW p \in Pid, remove_first(p) PROVE ListInv'
  BY <1>1, <1>5, FirstStep
<1>6. ASSUME NEW p \in Pid, remove_walk(p) PROVE ListInv'
  BY <1>1, <1>6, WalkStep
<1>7. ASSUME NEW p \in Pid, remove_load(p) PROVE ListInv'
  BY <1>1, <1>7, LoadStep
<1>8. ASSUME NEW p \in Pid, remove_cas(p) PROVE ListInv'
  BY <1>1, <1>8, CasFails, CasStep DEF remove_cas, nodes
<1>9. ASSUME NEW p \in Pid, remove_free(p) PROVE ListInv'
  BY <1>1, <1>9, FreeStep
<1>10. ASSUME UNCHANGED vars PROVE ListInv'
  <2>1. UNCHANGED <<lproc, lnext, waiting, where, l, n, nx>>
    BY <1>10 DEF vars, nodes, local
  <2>2. chains' = chains
    BY <2>1 DEF chains, Chain
  <2> QED
    BY <1>1, <2>1, <2>2 DEF ListInv, TypeOK, Linked, Apart, Claimed, OneEach, AtHand, FoundAt, InHand
<1> QED
  BY <1>1, <1>2, <1>3, <1>4, <1>5, <1>6, <1>7, <1>8, <1>9, <1>10 DEF Next

(* The nodes and pointers of kern/proc.c form one list for each process,   *)
(* disjoint and without cycles, at every load and store of an interrupted  *)
(* proc_list_remove.                                                       *)
THEOREM SpecListInv == Spec => []ListInv
<1>1. Init => ListInv
  BY ListInitInv
<1>2. ListInv /\ [Next]_vars => ListInv'
  BY ListNextInv
<1> QED
  BY <1>1, <1>2, PTL DEF Spec

(* Every pointer of the lists is a node of the pool or null.               *)
THEOREM ListTypeCorrect == Spec => []TypeOK
<1>1. ListInv => TypeOK
  BY DEF ListInv
<1> QED
  BY <1>1, SpecListInv, PTL

(* No list becomes a cycle and no node is in two lists or handed out while *)
(* it is linked, for every number of processes and nodes.                  *)
THEOREM SpecListsDisjoint == Spec => []ListsDisjoint
<1>1. ListInv => ListsDisjoint
  <2> SUFFICES ASSUME ListInv PROVE ListsDisjoint
    OBVIOUS
  <2>1. \A q \in Pid : /\ Chain(q) = chains[q] /\ DOMAIN chains[q] = 1 .. Len(chains[q])
                       /\ Len(chains[q]) <= MAX_PROC_LISTS
    <3>1. \A q \in Pid : chains[q] \in Seq(Node) /\ Len(chains[q]) <= MAX_PROC_LISTS
      BY ChainFacts DEF ListInv
    <3> QED
      BY <3>1 DEF chains
  <2>2. ASSUME NEW q \in Pid, NEW i \in 1 .. Len(chains[q]),
               NEW r \in Pid, NEW j \in 1 .. Len(chains[r]), chains[r][j] = chains[q][i]
        PROVE  r = q /\ j = i
    <3>1. r = q
      BY <2>2 DEF ListInv, Apart
    <3> QED
      BY <2>2, <3>1, ChainFacts DEF ListInv
  <2>3. \A q \in Pid : \A i \in 1 .. Len(chains[q]) : lproc[chains[q][i]] # nil
    BY DEF ListInv, Claimed
  <2> QED
    BY <2>1, <2>2, <2>3 DEF ListsDisjoint
<1> QED
  BY <1>1, SpecListInv, PTL

(* A process has one node of the pool exactly while it is blocked in its   *)
(* send: none leaks and none is taken twice.                               *)
THEOREM SpecOneNodePerSender == Spec => []OneNodePerSender
<1>1. ListInv => OneNodePerSender
  <2> SUFFICES ASSUME ListInv, NEW p \in Pid
               PROVE  Cardinality({i \in Node : lproc[i] = p}) = IF where[p] = "sent" THEN 1 ELSE 0
    BY DEF OneNodePerSender
  <2>1. p # nil
    BY NilIsNoNode
  <2>2. CASE where[p] = "sent"
    <3>1. PICK i \in Node : lproc[i] = p
      BY <2>2 DEF ListInv, OneEach
    <3>2. {j \in Node : lproc[j] = p} = {i}
      BY <2>1, <3>1 DEF ListInv, OneEach
    <3> QED
      BY <2>2, <3>2, FS_Singleton
  <2>3. CASE where[p] # "sent"
    <3>1. {j \in Node : lproc[j] = p} = {}
      BY <2>1, <2>3 DEF ListInv, OneEach
    <3> QED
      BY <2>3, <3>1, FS_EmptySet
  <2> QED
    BY <2>2, <2>3
<1> QED
  BY <1>1, SpecListInv, PTL

(* With a node for each process, who is not blocked in a send finds a free *)
(* one when it sends, also while proc_start holds an unlinked node.        *)
PoolLasts ==
  MAX_PROC_LISTS >= Cardinality(Pid) =>
    \A p \in Pid : where[p] # "sent" => FreeNodes # {}

(* The pool does not run dry under interrupted removals: proc_list_add     *)
(* succeeds wherever PoolSuffices of Kern, which has no nodes, counts on it.*)
THEOREM SpecPoolLasts == Spec => []PoolLasts
<1>1. ListInv => PoolLasts
  <2> SUFFICES ASSUME ListInv, MAX_PROC_LISTS >= Cardinality(Pid),
                      NEW p \in Pid, where[p] # "sent", FreeNodes = {}
               PROVE  FALSE
    BY DEF PoolLasts
  <2>1. \A i \in Node : lproc[i] \in Pid \ {p}
    BY DEF FreeNodes, ListInv, TypeOK, OneEach
  <2>2. lproc \in Injection(Node, Pid \ {p})
    <3>1. lproc \in [Node -> Pid \ {p}]
      BY <2>1 DEF ListInv, TypeOK
    <3>2. \A i, j \in Node : lproc[i] = lproc[j] => i = j
      BY <2>1, NilIsNoNode DEF ListInv, OneEach
    <3> QED
      BY <3>1, <3>2 DEF Injection, IsInjective
  <2>3. Cardinality(Node) = MAX_PROC_LISTS /\ MAX_PROC_LISTS \in Nat
    BY ProcListAssumption, FS_Interval DEF Node
  <2>4. /\ IsFiniteSet(Pid \ {p}) /\ Cardinality(Pid \ {p}) = Cardinality(Pid) - 1
        /\ Cardinality(Pid) \in Nat
    BY ProcListAssumption, FS_RemoveElement, FS_CardinalityType
  <2>5. Cardinality(Node) <= Cardinality(Pid \ {p})
    BY <2>2, <2>4, FS_Injection
  <2> QED
    BY <2>3, <2>4, <2>5
<1> QED
  BY <1>1, SpecListInv, PTL

(* The compare-and-swap of an interrupted proc_list_remove always meets    *)
(* the node it has found.                                                  *)
THEOREM SpecCasMeetsNode == Spec => []CasMeetsNode
<1>1. ListInv => CasMeetsNode
  <2> SUFFICES ASSUME ListInv, NEW p \in Pid, where[p] = "cas" PROVE Deref(p, l[p]) = n[p]
    BY DEF CasMeetsNode
  <2>1. PICK i \in 1 .. Len(chains[p]) : FoundAt(p, i)
    BY DEF ListInv, AtHand, Finding
  <2>2. Len(chains[p]) \in Nat /\ n[p] = chains[p][i] /\ l[p] = IF i = 1 THEN nil ELSE chains[p][i - 1]
    BY <2>1, ChainFacts DEF ListInv, FoundAt
  <2>3. CASE i = 1
    <3>1. waiting[p] = chains[p][1]
      BY <2>2, <2>3, ChainFacts DEF ListInv
    <3> QED
      BY <2>2, <2>3, <3>1 DEF Deref
  <2>4. CASE i # 1
    <3>1. i - 1 \in 1 .. Len(chains[p]) /\ i - 1 < Len(chains[p]) /\ (i - 1) + 1 = i
      BY <2>2, <2>4
    <3>2. lnext[chains[p][i - 1]] = chains[p][i] /\ chains[p][i - 1] # nil
      BY <3>1, ChainFacts DEF ListInv
    <3> QED
      BY <2>2, <2>4, <3>2 DEF Deref
  <2> QED
    BY <2>3, <2>4
<1> QED
  BY <1>1, SpecListInv, PTL

-----------------------------------------------------------------------------
(* The lists implement the queues of senders.                              *)

(* The senders of the nodes s.                                             *)
SendersOf(proc, s) == [k \in 1 .. Len(s) |-> proc[s[k]]]

senders  == [q \in Pid |-> Senders(q)]
starting == {p \in Pid : where[p] \in Removing}

LEMMA SendersOfAppend ==
  ASSUME NEW f, NEW s \in Seq(Node), NEW i \in Node
  PROVE  SendersOf(f, Append(s, i)) = Append(SendersOf(f, s), f[i])
<1>1. /\ Len(s) \in Nat /\ Len(Append(s, i)) = Len(s) + 1
      /\ \A j \in 1 .. Len(s) : Append(s, i)[j] = s[j]
      /\ Append(s, i)[Len(s) + 1] = i
  BY AppendFacts
<1> DEFINE S == {f[x] : x \in Node}
           t == SendersOf(f, s)
<1>2. t \in Seq(S) /\ Len(t) = Len(s) /\ f[i] \in S
  BY DEF SendersOf
<1>3. /\ Append(t, f[i]) \in Seq(S)
      /\ Len(Append(t, f[i])) = Len(s) + 1
      /\ \A j \in 1 .. Len(s) : Append(t, f[i])[j] = f[s[j]]
      /\ Append(t, f[i])[Len(s) + 1] = f[i]
  <2>1. \A j \in 1 .. Len(s) : t[j] = f[s[j]]
    BY DEF SendersOf
  <2> HIDE DEF t, S
  <2> QED
    BY <1>2, <2>1, AppendFacts
<1>4. Append(t, f[i]) = [j \in 1 .. Len(s) + 1 |-> Append(t, f[i])[j]]
  BY <1>3
<1>5. \A j \in 1 .. Len(s) + 1 : f[Append(s, i)[j]] = Append(t, f[i])[j]
  <2>1. \A j \in 1 .. Len(s) + 1 : j \in 1 .. Len(s) \/ j = Len(s) + 1
    BY <1>1
  <2> HIDE DEF t
  <2> QED
    BY <1>1, <1>3, <2>1
<1> QED
  BY <1>1, <1>4, <1>5 DEF SendersOf

LEMMA SendersOfRemoveAt ==
  ASSUME NEW f, NEW s \in Seq(Node), NEW k \in 1 .. Len(s)
  PROVE  SendersOf(f, RemoveAt(s, k)) = RemoveAt(SendersOf(f, s), k)
<1> DEFINE S == {f[x] : x \in Node}
           t == SendersOf(f, s)
           u == RemoveAt(t, k)
           m == Len(s)
<1>1. /\ m \in Nat /\ Len(RemoveAt(s, k)) = m - 1
      /\ \A j \in 1 .. m - 1 : RemoveAt(s, k)[j] = IF j < k THEN s[j] ELSE s[j + 1]
  BY RemoveAtFacts
<1>2. t \in Seq(S) /\ Len(t) = m /\ \A j \in 1 .. m : t[j] = f[s[j]]
  BY DEF SendersOf
<1>3. /\ u \in Seq(S) /\ Len(u) = m - 1
      /\ \A j \in 1 .. m - 1 : u[j] = IF j < k THEN t[j] ELSE t[j + 1]
  <2> HIDE DEF t, S
  <2>1. t \in Seq(S) /\ k \in 1 .. Len(t)
    BY <1>2
  <2>2. /\ RemoveAt(t, k) \in Seq(S) /\ Len(RemoveAt(t, k)) = Len(t) - 1
        /\ \A j \in 1 .. Len(t) - 1 : RemoveAt(t, k)[j] = IF j < k THEN t[j] ELSE t[j + 1]
    BY <2>1, RemoveAtFacts
  <2> HIDE DEF u
  <2>3. u = RemoveAt(t, k)
    BY DEF u
  <2> QED
    BY <1>2, <2>2, <2>3
<1>4. u = [j \in 1 .. m - 1 |-> u[j]]
  <2> HIDE DEF S, u, m
  <2>1. u = [j \in 1 .. Len(u) |-> u[j]]
    BY <1>3
  <2> QED
    BY <1>3, <2>1
<1>5. \A j \in 1 .. m - 1 : u[j] = f[RemoveAt(s, k)[j]]
  <2>1. \A j \in 1 .. m - 1 : j \in 1 .. m /\ j + 1 \in 1 .. m
    <3> HIDE DEF m
    <3> QED
      BY <1>1
  <2> HIDE DEF t, u, m
  <2> QED
    BY <1>1, <1>2, <1>3, <2>1, SMTT(30)
<1> HIDE DEF u
<1>6. SendersOf(f, RemoveAt(s, k)) = u
  BY <1>1, <1>4, <1>5 DEF SendersOf
<1> QED
  BY <1>6 DEF u

LEMMA SendersOfSubSeq ==
  ASSUME NEW f, NEW s \in Seq(Node), NEW k \in 1 .. Len(s)
  PROVE  SendersOf(f, SubSeq(s, 1, k - 1)) = SubSeq(SendersOf(f, s), 1, k - 1)
<1> DEFINE t == SendersOf(f, s)
<1>1. Len(s) \in Nat /\ \A j \in 1 .. k - 1 : j \in 1 .. Len(s)
  OBVIOUS
<1>2. t \in Seq({f[x] : x \in Node}) /\ Len(t) = Len(s) /\ \A j \in 1 .. Len(s) : t[j] = f[s[j]]
  BY DEF SendersOf
<1>3. Len(SubSeq(s, 1, k - 1)) = k - 1 /\ \A j \in 1 .. k - 1 : SubSeq(s, 1, k - 1)[j] = s[j]
  OBVIOUS
<1> HIDE DEF t
<1>4. /\ Len(SubSeq(t, 1, k - 1)) = k - 1
      /\ \A j \in 1 .. k - 1 : SubSeq(t, 1, k - 1)[j] = t[j]
      /\ SubSeq(t, 1, k - 1) = [j \in 1 .. k - 1 |-> SubSeq(t, 1, k - 1)[j]]
  BY <1>2
<1>5. SendersOf(f, SubSeq(s, 1, k - 1)) = SubSeq(t, 1, k - 1)
  BY <1>1, <1>2, <1>3, <1>4 DEF SendersOf
<1> QED
  BY <1>5 DEF t

LEMMA SendersAre ==
  ASSUME Linked
  PROVE  senders = [q \in Pid |-> SendersOf(lproc, chains[q])]
<1>1. ASSUME NEW q \in Pid PROVE Senders(q) = SendersOf(lproc, chains[q])
  <2>1. chains[q] = Chain(q) /\ chains[q] \in Seq(Node)
    BY ChainFacts DEF chains
  <2> QED
    BY <2>1 DEF Senders, SendersOf
<1> QED
  BY <1>1 DEF senders

(* A step that changes one list, and whose other stores into proc are at   *)
(* nodes in no list, changes one queue.                                    *)
LEMMA OneQueueChanges ==
  ASSUME Linked, Linked', NEW q \in Pid, NEW t, NEW u,
         chains' = [chains EXCEPT ![q] = t], SendersOf(lproc', t) = u,
         \A r \in Pid \ {q} : \A i \in 1 .. Len(chains[r]) :
           lproc'[chains[r][i]] = lproc[chains[r][i]]
  PROVE  senders' = [senders EXCEPT ![q] = u]
<1>1. senders' = [r \in Pid |-> SendersOf(lproc', chains'[r])]
  <2>1. ASSUME NEW r \in Pid PROVE Senders(r)' = SendersOf(lproc', chains'[r])
    <3>1. chains'[r] \in Seq(Node)
      BY DEF Linked, Links
    <3>2. chains'[r] = Chain(r)'
      BY DEF chains
    <3> QED
      BY <3>1, <3>2 DEF Senders, SendersOf
  <2> QED
    BY <2>1 DEF senders
<1>2. senders = [r \in Pid |-> SendersOf(lproc, chains[r])]
  BY SendersAre
<1>3. ASSUME NEW r \in Pid
      PROVE  SendersOf(lproc', chains'[r]) = IF r = q THEN u ELSE SendersOf(lproc, chains[r])
  <2>1. chains'[r] = IF r = q THEN t ELSE chains[r]
    BY DEF chains
  <2>2. r # q => SendersOf(lproc', chains[r]) = SendersOf(lproc, chains[r])
    BY DEF SendersOf
  <2> QED
    BY <2>1, <2>2
<1> QED
  BY <1>1, <1>2, <1>3

(* The queue of q. *)
LEMMA QueueFacts ==
  ASSUME ListInv, NEW q \in Pid
  PROVE  /\ senders[q] = SendersOf(lproc, chains[q])
         /\ senders[q] \in Seq(Pid) /\ Len(senders[q]) = Len(chains[q])
         /\ \A i \in 1 .. Len(chains[q]) : /\ senders[q][i] = lproc[chains[q][i]]
                                           /\ where[senders[q][i]] = "sent"
<1>1. senders[q] = SendersOf(lproc, chains[q])
  BY SendersAre DEF ListInv
<1>2. /\ chains[q] \in Seq(Node) /\ Len(chains[q]) \in Nat
      /\ \A i, j \in 1 .. Len(chains[q]) : chains[q][i] = chains[q][j] => i = j
  BY ChainFacts DEF ListInv
<1>3. \A i \in 1 .. Len(chains[q]) :
        lproc[chains[q][i]] \in Pid /\ lproc[chains[q][i]] # nil /\ where[lproc[chains[q][i]]] = "sent"
  <2>1. lproc \in [Node -> Pid \cup {nil}]
    BY DEF ListInv, TypeOK
  <2> QED
    BY <1>2, <2>1 DEF ListInv, Claimed, OneEach
<1>4. senders[q] \in Seq(Pid) /\ Len(senders[q]) = Len(chains[q])
  BY <1>1, <1>2, <1>3 DEF SendersOf
<1>5. \A i \in 1 .. Len(chains[q]) : senders[q][i] = lproc[chains[q][i]]
  BY <1>1 DEF SendersOf
<1> QED
  BY <1>1, <1>3, <1>4, <1>5

(* The operators of the abstract specification are those of the list.      *)
LEMMA QueuesOperators ==
  ASSUME NEW s, NEW k, NEW pid
  PROVE  /\ Queues!ToSet(s) = ToSet(s)
         /\ Queues!RemoveAt(s, k) = RemoveAt(s, k)
         /\ Queues!Picked(s, pid) = Picked(s, pid)
  BY DEF Queues!ToSet, ToSet, Queues!RemoveAt, RemoveAt, Queues!Picked, Picked,
         Queues!SelectInSeq, SelectInSeq, Queues!Min, Min

LEMMA JoinStep ==
  ASSUME ListInv, NEW p \in Pid, NEW q \in Pid, send(p, q)
  PROVE  Queues!Join(q, p)
<1>1. ListInv'
  BY SendStep
<1>2. PICK i \in Node : /\ lproc[i] = nil
                        /\ lproc' = [lproc EXCEPT ![i] = p]
                        /\ chains' = [chains EXCEPT ![q] = Append(chains[q], i)]
  BY SendStep
<1>3. /\ where[p] = "user" /\ where' = [where EXCEPT ![p] = "sent"]
      /\ where \in [Pid -> Where] /\ lproc \in [Node -> Pid \cup {nil}]
  BY DEF send, ListInv, TypeOK
<1>4. \A r \in Pid : \A j \in 1 .. Len(chains[r]) :
        chains[r][j] \in Node /\ lproc'[chains[r][j]] = lproc[chains[r][j]]
  <2>1. ASSUME NEW r \in Pid, NEW j \in 1 .. Len(chains[r])
        PROVE  chains[r][j] \in Node /\ lproc'[chains[r][j]] = lproc[chains[r][j]]
    <3>1. chains[r][j] \in Node /\ chains[r][j] # i
      BY <1>2, ChainFacts DEF ListInv, Claimed
    <3> QED
      BY <1>2, <1>3, <3>1
  <2> QED
    BY <2>1
<1>5. SendersOf(lproc', Append(chains[q], i)) = Append(senders[q], p)
  <2>1. SendersOf(lproc', chains[q]) = senders[q]
    BY <1>4, QueueFacts DEF SendersOf
  <2>2. lproc'[i] = p
    BY <1>2, <1>3
  <2>3. chains[q] \in Seq(Node)
    BY ChainFacts DEF ListInv
  <2> QED
    BY <2>1, <2>2, <2>3, SendersOfAppend
<1>6. senders' = [senders EXCEPT ![q] = Append(senders[q], p)]
  BY <1>1, <1>2, <1>4, <1>5, OneQueueChanges DEF ListInv
<1>7. \A r \in Pid : p \notin ToSet(senders[r])
  <2>1. ASSUME NEW r \in Pid, p \in ToSet(senders[r]) PROVE FALSE
    <3>1. PICK j \in DOMAIN senders[r] : senders[r][j] = p
      BY <2>1 DEF ToSet
    <3>2. j \in 1 .. Len(chains[r])
      BY QueueFacts
    <3> QED
      BY <1>3, <3>1, <3>2, QueueFacts
  <2> QED
    BY <2>1
<1>8. starting' = starting
  BY <1>3 DEF starting, Removing
<1> QED
  BY <1>6, <1>7, <1>8, QueuesOperators DEF Queues!Join, Queues!Blocked, senders, starting

LEMMA ReceiveStep ==
  ASSUME ListInv, NEW q \in Pid, NEW pid, recv(q, pid)
  PROVE  Queues!Receive(q, pid)
<1>1. ListInv' /\ where[q] = "user"
  BY RecvStep
<1>2. PICK k \in 1 .. Len(chains[q]) :
        /\ k = Picked(Senders(q), pid)
        /\ lproc' = [lproc EXCEPT ![chains[q][k]] = nil]
        /\ where' = [where EXCEPT ![lproc[chains[q][k]]] = "taken"]
        /\ chains' = [chains EXCEPT ![q] = RemoveAt(chains[q], k)]
  BY RecvStep
<1>3. /\ where \in [Pid -> Where] /\ lproc \in [Node -> Pid \cup {nil}]
      /\ chains[q] \in Seq(Node) /\ Len(chains[q]) \in Nat
      /\ chains[q][k] \in Node
  BY ChainFacts DEF ListInv, TypeOK
<1>4. \A r \in Pid : \A j \in 1 .. Len(chains'[r]) :
        lproc'[chains'[r][j]] = lproc[chains'[r][j]]
  <2>1. ASSUME NEW r \in Pid, NEW j \in 1 .. Len(chains'[r])
        PROVE  lproc'[chains'[r][j]] = lproc[chains'[r][j]]
    <3>1. lproc'[chains'[r][j]] # nil
      BY <1>1 DEF ListInv, Claimed
    <3>2. chains'[r][j] \in Node
      <4>1. chains'[r] \in Seq(Node)
        BY <1>1 DEF ListInv, Linked, Links
      <4> QED
        BY <4>1
    <3> QED
      BY <1>2, <1>3, <3>1, <3>2
  <2> QED
    BY <2>1
<1>5. SendersOf(lproc', RemoveAt(chains[q], k)) = RemoveAt(senders[q], k)
  <2>1. chains'[q] = RemoveAt(chains[q], k)
    BY <1>2 DEF chains
  <2>2. SendersOf(lproc', chains'[q]) = SendersOf(lproc, chains'[q])
    BY <1>4 DEF SendersOf
  <2>3. SendersOf(lproc, RemoveAt(chains[q], k)) = RemoveAt(SendersOf(lproc, chains[q]), k)
    BY <1>3, SendersOfRemoveAt
  <2> QED
    BY <2>1, <2>2, <2>3, QueueFacts
<1>6. senders' = [senders EXCEPT ![q] = RemoveAt(senders[q], k)]
  <2>1. \A r \in Pid \ {q} : \A j \in 1 .. Len(chains[r]) : lproc'[chains[r][j]] = lproc[chains[r][j]]
    <3>1. \A r \in Pid \ {q} : chains'[r] = chains[r]
      BY <1>2 DEF chains
    <3> QED
      BY <1>4, <3>1
  <2> QED
    BY <1>1, <1>2, <1>5, <2>1, OneQueueChanges DEF ListInv
<1>7. senders[q] # <<>>
  <2>1. Len(senders[q]) # 0
    BY <1>3, QueueFacts
  <2> QED
    BY <2>1
<1>8. starting' = starting /\ q \notin starting
  <2>1. lproc[chains[q][k]] \in Pid /\ where[lproc[chains[q][k]]] = "sent"
    BY <1>3 DEF ListInv, Claimed, OneEach
  <2> QED
    BY <1>1, <1>2, <1>3, <2>1 DEF starting, Removing
<1>9. k = Picked(senders[q], pid)
  BY <1>2 DEF senders
<1>10. senders' = [senders EXCEPT ![q] = Queues!RemoveAt(senders[q], Queues!Picked(senders[q], pid))]
  BY <1>6, <1>9, QueuesOperators
<1> QED
  BY <1>7, <1>8, <1>10 DEF Queues!Receive, senders, starting

LEMMA FirstReceiveStep ==
  ASSUME ListInv, ListInv', NEW p \in Pid, where[p] = "cas", where' = [where EXCEPT ![p] = "free"],
         UNCHANGED lproc, NEW k \in 1 .. Len(chains[p]), NEW t \in Seq(Node),
         t = RemoveAt(chains[p], k) \/ t = SubSeq(chains[p], 1, k - 1),
         chains' = [chains EXCEPT ![p] = t]
  PROVE  k \in 1 .. Len(senders[p]) /\ Queues!FirstReceive(p, k)
<1>1. /\ where \in [Pid -> Where]
      /\ chains[p] \in Seq(Node) /\ Len(chains[p]) \in Nat
  BY ChainFacts DEF ListInv, TypeOK
<1>2. senders' = [senders EXCEPT ![p] = SendersOf(lproc, t)]
  BY OneQueueChanges DEF ListInv
<1>3. \/ SendersOf(lproc, t) = RemoveAt(senders[p], k)
      \/ SendersOf(lproc, t) = SubSeq(senders[p], 1, k - 1)
  <2>1. senders[p] = SendersOf(lproc, chains[p])
    BY QueueFacts
  <2>2. CASE t = RemoveAt(chains[p], k)
    BY <1>1, <2>1, <2>2, SendersOfRemoveAt
  <2>3. CASE t = SubSeq(chains[p], 1, k - 1)
    BY <1>1, <2>1, <2>3, SendersOfSubSeq
  <2> QED
    BY <2>2, <2>3
<1>4. k \in 1 .. Len(senders[p])
  BY QueueFacts
<1>5. starting' = starting /\ p \in starting
  BY <1>1 DEF starting, Removing
<1>6. \/ senders' = [senders EXCEPT ![p] = Queues!RemoveAt(senders[p], k)]
      \/ senders' = [senders EXCEPT ![p] = SubSeq(senders[p], 1, k - 1)]
  BY <1>2, <1>3, QueuesOperators
<1> QED
  BY <1>4, <1>5, <1>6 DEF Queues!FirstReceive, senders, starting

LEMMA StartedStep ==
  ASSUME ListInv, NEW p \in Pid, remove_free(p)
  PROVE  Queues!Started(p)
<1>1. /\ ListInv' /\ chains' = chains
      /\ where[p] = "free" /\ n[p] \in Node /\ lproc[n[p]] \in Pid
      /\ lproc' = [lproc EXCEPT ![n[p]] = nil]
      /\ where' = [where EXCEPT ![p] = "user", ![lproc[n[p]]] = "taken"]
  BY FreeStep
<1>2. /\ where \in [Pid -> Where] /\ lproc \in [Node -> Pid \cup {nil}]
      /\ where[lproc[n[p]]] = "sent"
  <2>1. lproc[n[p]] # nil
    BY <1>1 DEF ListInv, InHand
  <2>2. where[lproc[n[p]]] = "sent"
    BY <1>1, <2>1 DEF ListInv, OneEach
  <2> QED
    BY <2>2 DEF ListInv, TypeOK
<1>3. ASSUME NEW r \in Pid PROVE Senders(r)' = Senders(r)
  <2>1. \A j \in 1 .. Len(chains[r]) : chains[r][j] \in Node /\ chains[r][j] # n[p]
    BY <1>1, ChainFacts DEF ListInv, InHand
  <2>2. \A j \in 1 .. Len(chains[r]) : lproc'[chains[r][j]] = lproc[chains[r][j]]
    BY <1>1, <1>2, <2>1
  <2>3. Chain(r) = chains[r] /\ Chain(r)' = chains[r] /\ DOMAIN chains[r] = 1 .. Len(chains[r])
    <3>1. chains[r] \in Seq(Node)
      BY ChainFacts DEF ListInv
    <3> QED
      BY <1>1, <3>1 DEF chains
  <2> QED
    BY <2>2, <2>3 DEF Senders
<1>4. senders' = senders
  BY <1>3 DEF senders
<1>5. starting' = starting \ {p}
  BY <1>1, <1>2 DEF starting, Removing
<1> QED
  BY <1>4, <1>5 DEF Queues!Started, senders, starting

(* The other steps of a removal are not seen in the queues.                *)
LEMMA HiddenStep ==
  ASSUME ListInv, ListInv', chains' = chains, UNCHANGED lproc,
         \A r \in Pid : where'[r] \in Removing <=> where[r] \in Removing
  PROVE  UNCHANGED Queues!queueVars
<1>1. senders' = senders
  <2>1. \A q \in Pid : Senders(q)' = Senders(q)
    BY DEF Senders, chains
  <2> QED
    BY <2>1 DEF senders
<1>2. starting' = starting
  BY DEF starting
<1> QED
  BY <1>1, <1>2 DEF Queues!queueVars, senders, starting

LEMMA QueuesStep == ListInv /\ [Next]_vars => [Queues!QueuesNext]_(Queues!queueVars)
<1>1. SUFFICES ASSUME ListInv, [Next]_vars PROVE [Queues!QueuesNext]_(Queues!queueVars)
  OBVIOUS
<1>2. ListInv'
  BY <1>1, ListNextInv
<1>3. where \in [Pid -> Where]
  BY <1>1 DEF ListInv, TypeOK
<1>4. ASSUME NEW p \in Pid, NEW q \in Pid, send(p, q) PROVE Queues!QueuesNext
  BY <1>1, <1>4, JoinStep DEF Queues!QueuesNext
<1>5. ASSUME NEW p \in Pid, NEW pid \in Pid \cup {PID_ALL}, recv(p, pid) PROVE Queues!QueuesNext
  BY <1>1, <1>5, ReceiveStep DEF Queues!QueuesNext, PID_ALL
<1>6. ASSUME NEW p \in Pid, answer(p) PROVE UNCHANGED Queues!queueVars
  <2>1. chains' = chains /\ UNCHANGED lproc
    BY <1>1, <1>6, AnswerStep DEF answer, nodes
  <2>2. \A r \in Pid : where'[r] \in Removing <=> where[r] \in Removing
    BY <1>3, <1>6 DEF answer, Removing
  <2> QED
    BY <1>1, <1>2, <2>1, <2>2, HiddenStep
<1>7. ASSUME NEW p \in Pid, remove_first(p) PROVE UNCHANGED Queues!queueVars
  <2>1. chains' = chains /\ UNCHANGED lproc
    BY <1>1, <1>7, FirstStep DEF remove_first, nodes
  <2>2. \A r \in Pid : where'[r] \in Removing <=> where[r] \in Removing
    BY <1>3, <1>7 DEF remove_first, Removing
  <2> QED
    BY <1>1, <1>2, <2>1, <2>2, HiddenStep
<1>8. ASSUME NEW p \in Pid, remove_walk(p) PROVE UNCHANGED Queues!queueVars
  <2>1. chains' = chains /\ UNCHANGED lproc
    BY <1>1, <1>8, WalkStep DEF remove_walk, nodes
  <2>2. \A r \in Pid : where'[r] \in Removing <=> where[r] \in Removing
    BY <1>3, <1>8 DEF remove_walk, Removing
  <2> QED
    BY <1>1, <1>2, <2>1, <2>2, HiddenStep
<1>9. ASSUME NEW p \in Pid, remove_load(p) PROVE UNCHANGED Queues!queueVars
  <2>1. chains' = chains /\ UNCHANGED lproc
    BY <1>1, <1>9, LoadStep DEF remove_load, nodes
  <2>2. \A r \in Pid : where'[r] \in Removing <=> where[r] \in Removing
    BY <1>3, <1>9 DEF remove_load, Removing
  <2> QED
    BY <1>1, <1>2, <2>1, <2>2, HiddenStep
<1>10. ASSUME NEW p \in Pid, remove_cas(p) PROVE [Queues!QueuesNext]_(Queues!queueVars)
  <2>1. where[p] = "cas" /\ UNCHANGED <<lproc, local>>
    BY <1>10 DEF remove_cas
  <2>2. CASE /\ Deref(p, l[p]) = n[p] /\ Store(p, l[p], nx[p])
             /\ where' = [where EXCEPT ![p] = "free"]
    <3>1. PICK k \in 1 .. Len(chains[p]), t \in Seq(Node) :
            /\ t = RemoveAt(chains[p], k) \/ t = SubSeq(chains[p], 1, k - 1)
            /\ chains' = [chains EXCEPT ![p] = t]
      BY <1>1, <2>1, <2>2, CasStep
    <3>2. k \in 1 .. Len(senders[p]) /\ Queues!FirstReceive(p, k)
      BY <1>1, <1>2, <2>1, <2>2, <3>1, FirstReceiveStep
    <3> QED
      BY <3>2 DEF Queues!QueuesNext, senders
  <2>3. CASE where' = [where EXCEPT ![p] = "first"] /\ UNCHANGED <<waiting, lnext>>
    <3>1. chains' = chains /\ UNCHANGED lproc
      BY <1>1, <2>1, <2>3, CasFails DEF nodes
    <3>2. \A r \in Pid : where'[r] \in Removing <=> where[r] \in Removing
      BY <1>3, <2>1, <2>3 DEF Removing
    <3> QED
      BY <1>1, <1>2, <3>1, <3>2, HiddenStep
  <2> QED
    BY <1>10, <2>2, <2>3 DEF remove_cas
<1>11. ASSUME NEW p \in Pid, remove_free(p) PROVE Queues!QueuesNext
  BY <1>1, <1>11, StartedStep DEF Queues!QueuesNext
<1>12. ASSUME UNCHANGED vars PROVE UNCHANGED Queues!queueVars
  <2>1. UNCHANGED <<lproc, lnext, waiting, where>>
    BY <1>12 DEF vars, nodes
  <2>2. chains' = chains
    BY <2>1 DEF chains, Chain
  <2> QED
    BY <1>1, <1>2, <2>1, <2>2, HiddenStep
<1> QED
  BY <1>1, <1>4, <1>5, <1>6, <1>7, <1>8, <1>9, <1>10, <1>11, <1>12 DEF Next

(* The pool, the pointers and the compare-and-swaps of kern/proc.c         *)
(* implement the queues of senders of SenderQueues: a sender is only ever  *)
(* dropped by a first receive, and then with all that joined after it.     *)
THEOREM SpecImplementsQueues == Spec => ImplementsQueues
<1>1. Init => Queues!QueuesInit
  <2> SUFFICES ASSUME Init PROVE Queues!QueuesInit
    OBVIOUS
  <2>1. ListInv
    BY ListInitInv
  <2>2. \A q \in Pid : waiting[q] = nil
    BY DEF Init
  <2>3. \A q \in Pid : Senders(q) = <<>>
    <3>1. ASSUME NEW q \in Pid PROVE Senders(q) = <<>>
      <4>1. Len(chains[q]) = 0
        <5>1. Len(chains[q]) # 0 => chains[q][1] # nil
          BY <2>1, ChainFacts DEF ListInv
        <5> QED
          BY <2>1, <2>2, <5>1, ChainFacts DEF ListInv
      <4>2. chains[q] = <<>> /\ chains[q] = Chain(q)
        BY <2>1, <4>1, ChainFacts DEF ListInv, chains
      <4> QED
        BY <4>2 DEF Senders
    <3> QED
      BY <3>1
  <2> QED
    BY <2>3 DEF Queues!QueuesInit
<1>2. ListInv /\ [Next]_vars => [Queues!QueuesNext]_(Queues!queueVars)
  BY QueuesStep
<1> QED
  BY <1>1, <1>2, SpecListInv, PTL DEF Spec, ImplementsQueues, Queues!QueuesSpec
=============================================================================
