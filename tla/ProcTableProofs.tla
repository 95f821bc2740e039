-------------------------- MODULE ProcTableProofs --------------------------
(***************************************************************************)
(* Proofs about ProcTable: the pointers of kern/proc.c are the list that   *)
(* Kern has as a sequence, and the loop of next_proc the choice over it,   *)
(* for every number of processes.                                          *)
(***************************************************************************)
EXTENDS ProcTable, KernProofs

-----------------------------------------------------------------------------
(* A created process is on the CPU, or none.                               *)
LEMMA UpInList ==
  ASSUME IInv, up # nil
  PROVE  \E i \in 1 .. Len(alive) : alive[i] = up
<1>1. up \in Pid /\ state[up] # "dead"
  BY DEF IInv, TypeOK, Proc, CpuOwnership
<1>2. up \in Nat /\ Len(alive) \in Nat /\ up < Len(alive)
  BY <1>1 DEF IInv, AliveInOrder, TypeOK, Pid
<1>3. up + 1 \in 1 .. Len(alive) /\ (up + 1) - 1 = up
  BY <1>2
<1>4. alive[up + 1] = (up + 1) - 1
  BY <1>3 DEF IInv, AliveInOrder
<1> QED
  BY <1>3, <1>4

-----------------------------------------------------------------------------
(* The list.                                                               *)

(* The inductive invariant: the state of Kern, and the list.               *)
TableInv ==
  /\ IInv
  /\ ListIsAlive
  /\ next \in [Pid -> Proc]

LEMMA AliveFacts ==
  ASSUME IInv
  PROVE  /\ Len(alive) \in Nat \ {0} /\ Len(alive) <= MAX_PROCS
         /\ alive \in Seq(Pid) /\ Head(alive) = alive[1]
         /\ \A i \in 1 .. Len(alive) : alive[i] = i - 1 /\ alive[i] \in Pid /\ alive[i] # nil
         /\ LONGEST \in Nat /\ LONGEST > Len(alive)
<1>1. MAX_PROCS \in Nat \ {0} /\ nil \notin Int
  BY KernAssumption
<1>2. /\ alive \in Seq(Pid) /\ Len(alive) \in 1 .. MAX_PROCS
      /\ \A i \in 1 .. Len(alive) : alive[i] = i - 1
  BY DEF IInv, TypeOK, AliveInOrder
<1>3. alive # <<>> /\ Head(alive) = alive[1]
  BY <1>2
<1> QED
  BY <1>1, <1>2, <1>3 DEF Pid, LONGEST

(* The loop of add_to_list_back stays at the process created last.         *)
LEMMA LastFacts ==
  ASSUME TableInv
  PROVE  LastOfList = alive[Len(alive)]
<1> DEFINE n == Len(alive)
           Step(f) == [k \in 0 .. LONGEST |->
                         IF k = 0 THEN first
                         ELSE LET p == f[k - 1] IN IF next[p] = nil THEN p ELSE next[p]]
           w == [k \in 0 .. LONGEST |-> alive[IF k < n THEN k + 1 ELSE n]]
           pp == CHOOSE f : f = Step(f)
<1>1. LastOfList = pp[LONGEST]
  BY DEF LastOfList
<1>2. /\ n \in Nat \ {0} /\ LONGEST \in Nat /\ LONGEST > n /\ first = alive[1]
      /\ \A i \in 1 .. n : alive[i] # nil /\ next[alive[i]] = IF i < n THEN alive[i + 1] ELSE nil
  BY AliveFacts DEF TableInv, ListIsAlive
<1>3. ASSUME NEW k \in 1 .. LONGEST
      PROVE  alive[IF k < n THEN k + 1 ELSE n] =
               LET p == alive[IF k - 1 < n THEN (k - 1) + 1 ELSE n]
               IN  IF next[p] = nil THEN p ELSE next[p]
  <2>1. CASE k < n
    <3>1. k \in 1 .. n /\ k + 1 \in 1 .. n /\ (k - 1) + 1 = k /\ k - 1 < n
      BY <1>2, <2>1
    <3> QED
      BY <1>2, <2>1, <3>1
  <2>2. CASE k >= n
    <3>1. alive[IF k - 1 < n THEN (k - 1) + 1 ELSE n] = alive[n] /\ n \in 1 .. n /\ ~ (k < n)
      <4>1. IF k - 1 < n THEN (k - 1) + 1 = n ELSE TRUE
        BY <1>2, <2>2
      <4> QED
        BY <1>2, <2>2, <4>1
    <3> QED
      BY <1>2, <3>1
  <2> QED
    BY <1>2, <2>1, <2>2
<1> DEFINE a(k) == alive[IF k < n THEN k + 1 ELSE n]
<1>4. w = Step(w)
  <2>1. ASSUME NEW k \in 0 .. LONGEST
        PROVE  a(k) = IF k = 0 THEN first
                      ELSE LET p == w[k - 1] IN IF next[p] = nil THEN p ELSE next[p]
    <3>1. CASE k = 0
      <4>1. a(0) = alive[1]
        BY <1>2
      <4> QED
        BY <1>2, <3>1, <4>1
    <3>2. CASE k # 0
      <4>1. k \in 1 .. LONGEST /\ k - 1 \in 0 .. LONGEST
        BY <1>2, <3>2
      <4>2. w[k - 1] = alive[IF k - 1 < n THEN (k - 1) + 1 ELSE n]
        BY <4>1
      <4> QED
        BY <1>3, <3>2, <4>1, <4>2
    <3> QED
      BY <3>1, <3>2
  <2> QED
    BY <2>1
<1>5. pp = Step(pp)
  BY <1>4
<1> DEFINE T == {k \in 0 .. LONGEST : pp[k] = a(k)}
<1>6. 0 .. LONGEST \subseteq T
  <2>1. 0 \in T
    <3>1. 0 \in 0 .. LONGEST /\ a(0) = alive[1]
      BY <1>2
    <3>2. pp[0] = first
      BY <1>5, <3>1
    <3> QED
      BY <1>2, <3>1, <3>2
  <2>2. ASSUME NEW k \in 1 .. LONGEST, k - 1 \in T PROVE k \in T
    <3>1. k \in 0 .. LONGEST /\ k # 0
      BY <1>2
    <3>2. pp[k] = LET p == pp[k - 1] IN IF next[p] = nil THEN p ELSE next[p]
      BY <1>5, <3>1
    <3>3. pp[k - 1] = a(k - 1)
      BY <2>2
    <3>4. a(k) = LET p == a(k - 1) IN IF next[p] = nil THEN p ELSE next[p]
      BY <1>3
    <3> HIDE DEF a
    <3>5. pp[k] = a(k)
      BY <3>2, <3>3, <3>4
    <3> QED
      BY <3>1, <3>5
  <2> HIDE DEF T
  <2> QED
    BY <1>2, <2>1, <2>2, EveryTurn
<1>7. pp[LONGEST] = a(LONGEST)
  <2>1. LONGEST \in 0 .. LONGEST
    BY <1>2
  <2> QED
    BY <1>6, <2>1
<1> QED
  BY <1>1, <1>2, <1>7

LEMMA TableInitInv == TableInit => TableInv
<1> SUFFICES ASSUME TableInit PROVE TableInv
  OBVIOUS
<1>1. IInv
  BY InitIInv DEF TableInit
<1>2. alive = <<0>> /\ Len(alive) = 1 /\ Head(alive) = 0 /\ alive[1] = 0 /\ 0 \in Pid
  BY KernAssumption DEF TableInit, Init, Pid
<1> QED
  BY <1>1, <1>2 DEF TableInit, TableInv, ListIsAlive, Proc

(* proc_new puts the process at the end of the list.                       *)
LEMMA TableNextInv == TableInv /\ [TableNext]_table => TableInv'
<1> SUFFICES ASSUME TableInv, [TableNext]_table PROVE TableInv'
  OBVIOUS
<1>1. IInv'
  BY NextIInv DEF TableInv, TableNext, table
<1>2. CASE UNCHANGED <<alive, first, next>>
  BY <1>1, <1>2 DEF TableInv, ListIsAlive
<1>3. CASE TableNext /\ alive' # alive
  <2>1. sys_proc_create
    BY <1>3 DEF TableNext, Next, Tick, SyscallStep, KernelStep, sys_send_dead, sys_send_full,
       sys_send, sys_reply_err, sys_recv, sys_reply, sys_reply_recv, ksend_return,
       krecv_take, krecv_block, kreply_return, start_recv, start_block, start_sched,
       start_copy, start_reply, drop_to_user
  <2> DEFINE n == Len(alive)
  <2>2. /\ n \in Nat \ {0} /\ alive \in Seq(Pid) /\ Head(alive) = alive[1]
        /\ \A i \in 1 .. n : alive[i] = i - 1 /\ alive[i] \in Pid /\ alive[i] # nil
    BY AliveFacts DEF TableInv
  <2>3. nextpid = n /\ nextpid \in Pid /\ n < MAX_PROCS
    <3>1. n < MAX_PROCS /\ MAX_PROCS \in Nat
      BY <2>1, <2>2, KernAssumption DEF sys_proc_create
    <3>2. \A b \in Nat, a \in Nat : a < b => a % b = a
      OBVIOUS
    <3>3. nextpid = n % MAX_PROCS
      BY DEF TableInv, IInv, AliveInOrder
    <3>4. nextpid \in Pid
      BY DEF TableInv, IInv, TypeOK
    <3> QED
      BY <2>2, <3>1, <3>2, <3>3, <3>4
  <2>4. /\ alive' = Append(alive, nextpid) /\ Len(alive') = n + 1
        /\ \A i \in 1 .. n : alive'[i] = alive[i]
        /\ alive'[n + 1] = nextpid
        /\ Head(alive') = alive'[1]
    BY <2>1, <2>2, <2>3, AppendFacts DEF sys_proc_create
  <2>5. first = alive[1] /\ first # nil
    BY <2>2 DEF TableInv, ListIsAlive
  <2>6. /\ first' = first
        /\ next' = [next EXCEPT ![nextpid] = nil, ![alive[n]] = nextpid]
    BY <1>3, <2>5, LastFacts DEF TableNext, add_to_list_back
  <2>7. next' \in [Pid -> Proc]
    BY <2>2, <2>3, <2>6 DEF TableInv, Proc
  <2>8. \A p \in Pid : next'[p] = IF p = alive[n] THEN nextpid
                                  ELSE IF p = nextpid THEN nil ELSE next[p]
    BY <2>2, <2>3, <2>6 DEF TableInv
  <2>9. ASSUME NEW i \in 1 .. n + 1
        PROVE  next'[alive'[i]] = IF i < n + 1 THEN alive'[i + 1] ELSE nil
    <3>1. CASE i < n
      <4>1. i \in 1 .. n /\ i + 1 \in 1 .. n /\ n \in 1 .. n
        BY <2>2, <3>1
      <4>2. alive'[i] = alive[i] /\ alive'[i + 1] = alive[i + 1] /\ alive[i] \in Pid
        BY <2>2, <2>4, <4>1
      <4>3. alive[i] # alive[n] /\ alive[i] # nextpid
        BY <2>2, <2>3, <3>1, <4>1
      <4>4. next[alive[i]] = alive[i + 1]
        BY <3>1, <4>1 DEF TableInv, ListIsAlive
      <4> QED
        BY <2>2, <2>8, <3>1, <4>2, <4>3, <4>4
    <3>2. CASE i = n
      <4>1. n \in 1 .. n /\ alive'[n] = alive[n] /\ alive[n] \in Pid
        BY <2>2, <2>4
      <4> QED
        BY <2>2, <2>4, <2>8, <3>2, <4>1
    <3>3. CASE i = n + 1
      <4>1. alive[n] # nextpid
        BY <2>2, <2>3
      <4> QED
        BY <2>2, <2>3, <2>4, <2>8, <3>3, <4>1
    <3> QED
      BY <2>2, <3>1, <3>2, <3>3
  <2>10. ListIsAlive'
    <3>1. 1 \in 1 .. n
      BY <2>2
    <3>2. first' = Head(alive')
      BY <2>4, <2>5, <2>6, <3>1
    <3> QED
      BY <2>4, <2>9, <3>2 DEF ListIsAlive
  <2> QED
    BY <1>1, <2>7, <2>10 DEF TableInv
<1> QED
  BY <1>2, <1>3 DEF TableNext, table, vars

LEMMA TableInvariant == TableSpec => []TableInv
  BY TableInitInv, TableNextInv, PTL DEF TableSpec

(* The pointers alive and next are the list of the created processes, in   *)
(* the order of their creation.                                            *)
THEOREM SpecListIsAlive == TableSpec => []ListIsAlive
  BY TableInvariant, PTL DEF TableInv
-----------------------------------------------------------------------------
(* The search.                                                             *)

(* The processes next_proc looks at, from the one after place h of the     *)
(* list on: the end of the list is among them, as nil.                     *)
Met(h, k) ==
  LET n == Len(alive)
  IN  IF h + k + 1 <= n THEN alive[h + k + 1]
      ELSE IF h + k = n THEN nil ELSE alive[h + k - n]

(* Where up is in the list: 0 for the idle loop.                           *)
UpAt(h) ==
  /\ h \in 0 .. Len(alive)
  /\ up = IF h = 0 THEN nil ELSE alive[h]

LEMMA MetFacts ==
  ASSUME TableInv, NEW h, UpAt(h)
  PROVE  /\ Met(h, 0) = IF up # nil THEN next[up] ELSE first
         /\ Met(h, Len(alive)) = up
         /\ \A k \in 0 .. Len(alive) - 1 :
              /\ Onward(Met(h, k)) = Met(h, k + 1)
              /\ Met(h, k + 1) = up <=> k + 1 = Len(alive)
<1> DEFINE n == Len(alive)
<1>1. /\ n \in Nat \ {0} /\ first = alive[1] /\ h \in 0 .. n
      /\ \A i \in 1 .. n : alive[i] = i - 1 /\ alive[i] # nil
      /\ \A i \in 1 .. n : next[alive[i]] = IF i < n THEN alive[i + 1] ELSE nil
  BY AliveFacts DEF TableInv, ListIsAlive, UpAt
<1>2. Met(h, 0) = IF up # nil THEN next[up] ELSE first
  <2>1. CASE h = 0
    <3>1. up = nil /\ Met(h, 0) = alive[1]
      BY <1>1, <2>1 DEF UpAt, Met
    <3> QED
      BY <1>1, <3>1
  <2>2. CASE h # 0
    <3>1. h \in 1 .. n /\ up = alive[h] /\ up # nil
      BY <1>1, <2>2 DEF UpAt
    <3>2. Met(h, 0) = IF h < n THEN alive[h + 1] ELSE nil
      BY <1>1, <3>1 DEF Met
    <3> QED
      BY <1>1, <3>1, <3>2
  <2> QED
    BY <2>1, <2>2
<1>3. Met(h, n) = up
  BY <1>1 DEF Met, UpAt
<1>4. ASSUME NEW k \in 0 .. n - 1
      PROVE  /\ Onward(Met(h, k)) = Met(h, k + 1)
             /\ Met(h, k + 1) = up <=> k + 1 = n
  <2>1. CASE h + k + 1 < n
    <3>1. Met(h, k) = alive[h + k + 1] /\ Met(h, k + 1) = alive[h + k + 2]
      BY <1>1, <2>1 DEF Met
    <3>2. h + k + 1 \in 1 .. n /\ h + k + 2 \in 1 .. n /\ (h + k + 1) + 1 = h + k + 2
      BY <1>1, <2>1
    <3>3. alive[h + k + 2] # up
      BY <1>1, <3>2 DEF UpAt
    <3> QED
      BY <1>1, <2>1, <3>1, <3>2, <3>3 DEF Onward
  <2>2. CASE h + k + 1 = n
    <3>1. Met(h, k) = alive[n] /\ Met(h, k + 1) = nil /\ n \in 1 .. n
      BY <1>1, <2>2 DEF Met
    <3>2. nil = up <=> h = 0
      BY <1>1 DEF UpAt
    <3> QED
      BY <1>1, <2>2, <3>1, <3>2 DEF Onward
  <2>3. CASE h + k = n
    <3>1. Met(h, k) = nil /\ Met(h, k + 1) = alive[1] /\ 1 \in 1 .. n
      BY <1>1, <2>3 DEF Met
    <3>2. h # 0 /\ h \in 1 .. n /\ up = alive[h]
      BY <1>1, <2>3 DEF UpAt
    <3>3. alive[1] = up <=> h = 1
      BY <1>1, <3>1, <3>2
    <3> QED
      BY <1>1, <2>3, <3>1, <3>3 DEF Onward
  <2>4. CASE h + k > n
    <3> DEFINE j == h + k - n
    <3>1. Met(h, k) = alive[j] /\ Met(h, k + 1) = alive[j + 1]
      <4>1. ~ (h + k + 1 <= n) /\ h + k # n /\ ~ (h + (k + 1) + 1 <= n) /\ h + (k + 1) # n
        BY <1>1, <2>4
      <4>2. h + (k + 1) - n = j + 1
        BY <1>1
      <4> QED
        BY <4>1, <4>2 DEF Met
    <3>2. j \in 1 .. n /\ j < n /\ j + 1 \in 1 .. n /\ h \in 1 .. n
      BY <1>1, <2>4
    <3>3. j + 1 = h <=> k + 1 = n
      <4>1. h \in Int /\ k \in Int /\ n \in Int
        BY <1>1
      <4> HIDE DEF n
      <4> QED
        BY <4>1
    <3> HIDE DEF j
    <3>4. up = alive[h]
      BY <3>2 DEF UpAt
    <3>5. up = h - 1 /\ alive[j + 1] = (j + 1) - 1
      BY <1>1, <3>2, <3>4
    <3>6. alive[j + 1] = up <=> j + 1 = h
      BY <3>2, <3>5
    <3>7. Onward(alive[j]) = alive[j + 1]
      BY <1>1, <3>2 DEF Onward
    <3> QED
      BY <3>1, <3>3, <3>6, <3>7
  <2>5. h + k + 1 < n \/ h + k + 1 = n \/ h + k = n \/ h + k > n
    BY <1>1
  <2> QED
    BY <2>1, <2>2, <2>3, <2>4, <2>5
<1> HIDE DEF n
<1>5. \A k \in 0 .. n - 1 :
        /\ Onward(Met(h, k)) = Met(h, k + 1)
        /\ Met(h, k + 1) = up <=> k + 1 = n
  BY <1>4
<1> QED
  BY <1>2, <1>3, <1>5 DEF n

(* Where the search ends: at the first ready process it meets, or back at  *)
(* up.                                                                     *)
StopsAt(st, h, k) ==
  LET Ready(p) == p # nil /\ st[p] = "ready"
  IN  /\ k \in 0 .. Len(alive)
      /\ k = Len(alive) \/ Ready(Met(h, k))
      /\ \A j \in 0 .. k - 1 : ~ Ready(Met(h, j))

LEMMA StopExists ==
  ASSUME NEW st, NEW h, Len(alive) \in Nat
  PROVE  \E k \in 0 .. Len(alive) : StopsAt(st, h, k)
<1> DEFINE Ready(p) == p # nil /\ st[p] = "ready"
           S == {k \in 0 .. Len(alive) : k = Len(alive) \/ Ready(Met(h, k))}
<1>1. S \subseteq Nat /\ S # {}
  OBVIOUS
<1>2. PICK k \in S : \A j \in S : k <= j
  <2> HIDE DEF S
  <2> QED
    BY <1>1, LeastNat
<1>3. ASSUME NEW j \in 0 .. k - 1 PROVE ~ Ready(Met(h, j))
  <2>1. j \in 0 .. Len(alive) /\ ~ (k <= j)
    BY <1>2
  <2> QED
    BY <1>2, <2>1
<1> QED
  BY <1>2, <1>3 DEF StopsAt

(* The loop, turn by turn.                                                 *)
LEMMA SearchFacts ==
  ASSUME TableInv, NEW st, NEW h, UpAt(h), NEW stop, StopsAt(st, h, stop)
  PROVE  Search(st) = [p |-> Met(h, stop), left |-> TRUE]
<1> DEFINE n == Len(alive)
           Ready(p) == p # nil /\ st[p] = "ready"
           Start == [p |-> IF up # nil THEN next[up] ELSE first, left |-> FALSE]
           Turn(v) == IF v.left \/ Ready(v.p) THEN [v EXCEPT !.left = TRUE]
                      ELSE [p |-> Onward(v.p), left |-> Onward(v.p) = up]
           Step(f) == [k \in 0 .. LONGEST |-> IF k = 0 THEN Start ELSE Turn(f[k - 1])]
           a(k) == IF k <= stop THEN [p |-> Met(h, k), left |-> k = n]
                   ELSE [p |-> Met(h, stop), left |-> TRUE]
           A == [k \in 0 .. LONGEST |-> a(k)]
           w == CHOOSE f : f = Step(f)
<1>1. Search(st) = w[LONGEST]
  BY DEF Search
<1>2. n \in Nat \ {0} /\ LONGEST \in Nat /\ LONGEST > n /\ stop \in 0 .. n
  BY AliveFacts DEF TableInv, StopsAt
<1>3. a(0) = Start
  <2>1. 0 <= stop /\ 0 # n
    BY <1>2
  <2> QED
    BY <2>1, MetFacts
<1>4. ASSUME NEW k \in 1 .. LONGEST PROVE a(k) = Turn(a(k - 1))
  <2>1. CASE k - 1 > stop
    <3>1. ~ (k <= stop) /\ ~ (k - 1 <= stop)
      BY <1>2, <2>1
    <3> QED
      BY <3>1
  <2>2. CASE k - 1 = stop
    <3>1. ~ (k <= stop) /\ k - 1 <= stop
      BY <1>2, <2>2
    <3>2. k - 1 = n \/ Ready(Met(h, k - 1))
      BY <2>2 DEF StopsAt
    <3> QED
      BY <2>2, <3>1, <3>2
  <2>3. CASE k - 1 < stop
    <3>1. k <= stop /\ k - 1 <= stop /\ k - 1 \in 0 .. stop - 1 /\ k - 1 \in 0 .. n - 1
          /\ (k - 1) + 1 = k /\ k - 1 # n
      BY <1>2, <2>3
    <3>2. ~ Ready(Met(h, k - 1))
      BY <3>1 DEF StopsAt
    <3>3. Onward(Met(h, k - 1)) = Met(h, k) /\ (Met(h, k) = up <=> k = n)
      BY <3>1, MetFacts
    <3>4. a(k - 1) = [p |-> Met(h, k - 1), left |-> FALSE]
      BY <3>1
    <3>5. Turn(a(k - 1)) = [p |-> Met(h, k), left |-> Met(h, k) = up]
      BY <3>2, <3>3, <3>4
    <3> QED
      BY <3>1, <3>3, <3>5
  <2> QED
    BY <1>2, <2>1, <2>2, <2>3
<1> HIDE DEF a, Turn, Start
<1>5. A = Step(A)
  <2>1. ASSUME NEW k \in 0 .. LONGEST
        PROVE  a(k) = IF k = 0 THEN Start ELSE Turn(A[k - 1])
    <3>1. CASE k = 0
      BY <1>3, <3>1
    <3>2. CASE k # 0
      <4>1. k \in 1 .. LONGEST /\ k - 1 \in 0 .. LONGEST
        BY <1>2, <3>2
      <4> QED
        BY <1>4, <3>2, <4>1
    <3> QED
      BY <3>1, <3>2
  <2> QED
    BY <2>1
<1>6. w = Step(w)
  BY <1>5
<1> DEFINE T == {k \in 0 .. LONGEST : w[k] = a(k)}
<1>7. 0 .. LONGEST \subseteq T
  <2>1. 0 \in T
    <3>1. 0 \in 0 .. LONGEST
      BY <1>2
    <3>2. w[0] = Start
      BY <1>6, <3>1
    <3> QED
      BY <1>3, <3>1, <3>2
  <2>2. ASSUME NEW k \in 1 .. LONGEST, k - 1 \in T PROVE k \in T
    <3>1. k \in 0 .. LONGEST /\ k # 0
      BY <1>2
    <3>2. w[k] = Turn(w[k - 1])
      BY <1>6, <3>1
    <3> QED
      BY <1>4, <2>2, <3>1, <3>2
  <2> HIDE DEF T
  <2> QED
    BY <1>2, <2>1, <2>2, EveryTurn
<1>8. w[LONGEST] = a(LONGEST)
  <2>1. LONGEST \in 0 .. LONGEST
    BY <1>2
  <2> QED
    BY <1>7, <2>1
<1>9. a(LONGEST) = [p |-> Met(h, stop), left |-> TRUE]
  <2>1. ~ (LONGEST <= stop)
    BY <1>2
  <2> QED
    BY <2>1 DEF a
<1> QED
  BY <1>1, <1>8, <1>9

(* What the search stops at is the choice of NextProc.                     *)
LEMMA ChoiceFacts ==
  ASSUME TableInv, NEW st, NEW h, UpAt(h), NEW stop, StopsAt(st, h, stop)
  PROVE  NextProc(st) = IF Met(h, stop) # nil /\ st[Met(h, stop)] = "ready"
                        THEN Met(h, stop) ELSE nil
<1> DEFINE n     == Len(alive)
           here  == IF up = nil THEN 0 ELSE CHOOSE i \in 1 .. n : alive[i] = up
           At_(k) == alive[IF here + k <= n THEN here + k ELSE here + k - n]
           ready == {k \in 1 .. n : st[At_(k)] = "ready"}
           least == CHOOSE k \in ready : \A j \in ready : k <= j
           place(k) == IF h + k <= n THEN k - 1 ELSE k
           Ready(p) == p # nil /\ st[p] = "ready"
<1>1. NextProc(st) = IF ready = {} THEN nil ELSE At_(least)
  BY DEF NextProc
<1>2. /\ n \in Nat \ {0} /\ stop \in 0 .. n /\ h \in 0 .. n
      /\ \A i \in 1 .. n : alive[i] = i - 1 /\ alive[i] # nil
  BY AliveFacts DEF TableInv, StopsAt, UpAt
<1>3. here = h
  <2>1. CASE h = 0
    BY <2>1 DEF UpAt
  <2>2. CASE h # 0
    <3>1. h \in 1 .. n /\ up = alive[h] /\ up # nil
      BY <1>2, <2>2 DEF UpAt
    <3>2. \A i \in 1 .. n : alive[i] = up => i = h
      BY <1>2, <3>1
    <3> QED
      BY <3>1, <3>2
  <2> QED
    BY <2>1, <2>2
<1> HIDE DEF here
<1>4. ASSUME NEW k \in 1 .. n
      PROVE  place(k) \in 0 .. n /\ Met(h, place(k)) = At_(k) /\ At_(k) # nil
  <2>1. CASE h + k <= n
    <3>1. place(k) = k - 1 /\ h + (k - 1) + 1 = h + k /\ h + k \in 1 .. n /\ k - 1 \in 0 .. n
      BY <1>2, <2>1
    <3> QED
      BY <1>2, <1>3, <2>1, <3>1 DEF Met
  <2>2. CASE h + k > n
    <3>1. /\ place(k) = k /\ ~ (h + k <= n) /\ ~ (h + k + 1 <= n) /\ h + k # n
          /\ h + k - n \in 1 .. n /\ k \in 0 .. n
      BY <1>2, <2>2
    <3> QED
      BY <1>2, <1>3, <3>1 DEF Met
  <2> QED
    BY <1>2, <2>1, <2>2
<1>5. ASSUME NEW j \in ready PROVE stop <= place(j)
  <2>1. Ready(Met(h, place(j))) /\ place(j) \in 0 .. n
    BY <1>4
  <2>2. ~ (place(j) \in 0 .. stop - 1)
    BY <2>1 DEF StopsAt
  <2> HIDE DEF place
  <2> QED
    BY <1>2, <2>1, <2>2
<1>6. CASE Ready(Met(h, stop))
  <2>1. h + stop # n
    BY <1>2, <1>6 DEF Met
  <2> DEFINE k == IF h + stop < n THEN stop + 1 ELSE stop
  <2>2. k \in 1 .. n /\ place(k) = stop
    BY <1>2, <2>1
  <2>3. At_(k) = Met(h, stop) /\ k \in ready
    BY <1>4, <1>6, <2>2
  <2>4. ASSUME NEW j \in ready PROVE k <= j
    <3>1. j \in 1 .. n /\ stop <= place(j)
      BY <1>5
    <3> QED
      BY <1>2, <2>1, <3>1
  <2> HIDE DEF k
  <2>5. least = k
    <3>1. \A i \in ready : (\A j \in ready : i <= j) => i = k
      BY <2>2, <2>3, <2>4
    <3> QED
      BY <2>3, <2>4, <3>1
  <2> QED
    BY <1>1, <1>6, <2>3, <2>5
<1>7. CASE ~ Ready(Met(h, stop))
  <2>1. stop = n
    BY <1>7 DEF StopsAt
  <2>2. ASSUME NEW j \in ready PROVE FALSE
    <3>1. stop <= place(j) /\ place(j) \in 0 .. n /\ Ready(Met(h, place(j)))
      BY <1>4, <1>5
    <3>2. place(j) = stop
      BY <1>2, <2>1, <3>1
    <3> QED
      BY <1>7, <3>1, <3>2
  <2> QED
    BY <1>1, <1>7, <2>2
<1> QED
  BY <1>6, <1>7

(* The loop of next_proc ends wherever it begins, and finds the process    *)
(* Kern chooses: the theorems about Kern are about the code's search.      *)
THEOREM SpecSearchAgrees == TableSpec => []SearchAgrees
<1>1. ASSUME TableInv, NEW st
      PROVE  Search(st).left /\ next_proc(st) = NextProc(st)
  <2>1. PICK h \in 0 .. Len(alive) : UpAt(h)
    <3>1. Len(alive) \in Nat
      BY <1>1, AliveFacts DEF TableInv
    <3>2. CASE up = nil
      BY <3>1, <3>2 DEF UpAt
    <3>3. CASE up # nil
      <4>1. PICK i \in 1 .. Len(alive) : alive[i] = up
        BY <1>1, <3>3, UpInList DEF TableInv
      <4>2. i \in 0 .. Len(alive) /\ i # 0
        BY <3>1
      <4> QED
        BY <4>1, <4>2 DEF UpAt
    <3> QED
      BY <3>2, <3>3
  <2>2. PICK stop \in 0 .. Len(alive) : StopsAt(st, h, stop)
    <3>1. Len(alive) \in Nat
      BY <1>1, AliveFacts DEF TableInv
    <3> QED
      BY <3>1, StopExists
  <2>3. Search(st) = [p |-> Met(h, stop), left |-> TRUE]
    BY <1>1, <2>1, <2>2, SearchFacts
  <2>4. first # nil
    <3>1. Len(alive) \in Nat \ {0} /\ first = alive[1] /\ \A i \in 1 .. Len(alive) : alive[i] # nil
      BY <1>1, AliveFacts DEF TableInv, ListIsAlive
    <3> QED
      BY <3>1
  <2>5. NextProc(st) = IF Met(h, stop) # nil /\ st[Met(h, stop)] = "ready"
                       THEN Met(h, stop) ELSE nil
    BY <1>1, <2>1, <2>2, ChoiceFacts
  <2> QED
    BY <2>3, <2>4, <2>5 DEF next_proc
<1>2. TableInv => SearchAgrees
  BY <1>1 DEF SearchAgrees
<1> QED
  BY <1>2, TableInvariant, PTL
=============================================================================
