--------------------------- MODULE SectionsProofs ---------------------------
(***************************************************************************)
(* Proofs about Sections for every size of addresses, pages and holders,   *)
(* every memory map and every request: proc0 keeps account of each         *)
(* address, and free registers can be had.                                 *)
(***************************************************************************)
EXTENDS Sections, ListFacts

-----------------------------------------------------------------------------
(* Numbers. *)

LEMMA SizesAre ==
  /\ WORD \in Nat \ {0} /\ PAGE_SIZE \in Nat \ {0} /\ NSECTIONS \in Nat \ {0}
  /\ PAGE_SIZE \in Word /\ nil = 0
  /\ RamRegions \in Seq(Section) /\ IoRegions \in Seq(Section)
  /\ Len(RamRegions) \in Nat /\ Len(IoRegions) \in Nat
  /\ Len(RamRegions) # 0 /\ RamRegions[1] \in Section /\ RamRegions[1].len > PAGE_SIZE
  /\ \A i \in 1 .. Len(RamRegions) :
       RamRegions[i].start # 0 /\ RamRegions[i].start + RamRegions[i].len < WORD
  /\ \A i \in 1 .. Len(IoRegions) :
       IoRegions[i].start # 0 /\ IoRegions[i].start + IoRegions[i].len < WORD
<1>1. /\ PAGE_SIZE \in Nat \ {0} /\ NSECTIONS \in Nat \ {0} /\ WORD \in Nat
      /\ RamRegions \in Seq(Section) /\ IoRegions \in Seq(Section)
      /\ RamRegions # <<>> /\ RamRegions[1].len > PAGE_SIZE
  BY SectionsAssumption
<1>2. Len(RamRegions) \in Nat /\ Len(IoRegions) \in Nat /\ Len(RamRegions) # 0
  BY <1>1
<1>3. RamRegions[1] \in Section
  BY <1>1, <1>2
<1>4. RamRegions[1].len \in Word
  BY <1>3 DEF Section
<1>5. PAGE_SIZE \in Word /\ WORD # 0
  BY <1>1, <1>4 DEF Word
<1>6. \A s \in ToSet(RamRegions) \cup ToSet(IoRegions) : s.start # 0 /\ s.start + s.len < WORD
  BY SectionsAssumption DEF nil
<1>7. /\ \A i \in 1 .. Len(RamRegions) : RamRegions[i] \in ToSet(RamRegions)
      /\ \A i \in 1 .. Len(IoRegions) : IoRegions[i] \in ToSet(IoRegions)
  BY <1>1 DEF ToSet
<1> QED
  BY <1>1, <1>2, <1>3, <1>5, <1>6, <1>7 DEF nil

(* While no sum reaches WORD, reg_t computes with naturals.                *)
LEMMA NoWrap ==
  /\ \A a, b \in Nat : a + b < WORD => Plus(a, b) = a + b
  /\ \A a, b \in Nat : b <= a /\ a < WORD => Minus(a, b) = a - b
  /\ \A a, b \in Int : Plus(a, b) \in Word /\ Minus(a, b) \in Word
<1>1. WORD \in Nat \ {0}
  BY SizesAre
<1>2. \A x \in Nat : x < WORD => x % WORD = x
  BY <1>1
<1>3. \A x \in Int : x % WORD \in Word
  BY <1>1 DEF Word
<1>4. ASSUME NEW a \in Nat, NEW b \in Nat, a + b < WORD PROVE Plus(a, b) = a + b
  BY <1>2, <1>4 DEF Plus
<1>5. ASSUME NEW a \in Nat, NEW b \in Nat, b <= a, a < WORD PROVE Minus(a, b) = a - b
  <2>1. a - b \in Nat /\ a - b < WORD
    BY <1>1, <1>5
  <2> QED
    BY <1>2, <2>1 DEF Minus
<1>6. \A a, b \in Int : Plus(a, b) \in Word /\ Minus(a, b) \in Word
  BY <1>3 DEF Plus, Minus
<1> QED
  BY <1>4, <1>5, <1>6

LEMMA SectionFacts ==
  /\ \A s \in Section : s.start \in Word /\ s.len \in Word /\ s.start \in Nat /\ s.len \in Nat
                        /\ s = [start |-> s.start, len |-> s.len]
  /\ \A a, b \in Word : [start |-> a, len |-> b] \in Section
  /\ \A a \in Word : Page(a) \in Section
  /\ Empty \in Section
<1>1. 0 \in Word /\ PAGE_SIZE \in Word /\ Word \subseteq Nat
  BY SizesAre DEF Word
<1>2. /\ \A a, b \in Word : [start |-> a, len |-> b] \in Section
      /\ \A a \in Word : Page(a) \in Section
      /\ Empty \in Section
  BY <1>1 DEF Section, Page, Empty
<1>3. \A s \in Section : s.start \in Word /\ s.len \in Word /\ s = [start |-> s.start, len |-> s.len]
  BY DEF Section
<1> QED
  BY <1>1, <1>2, <1>3

(* First finds the first. *)
LEMMA FirstFacts ==
  ASSUME NEW list, NEW S, S \subseteq 1 .. Len(list), S # {}
  PROVE  First(S) \in S
<1>1. S \subseteq Nat
  OBVIOUS
<1>2. \E i \in S : \A j \in S : i <= j
  BY <1>1, LeastNat
<1> QED
  BY <1>2 DEF First

-----------------------------------------------------------------------------
(* How many sections of a list hold an address.                            *)

Hit(list, a) == {i \in DOMAIN list : a \in Span(list[i])}
In(s, a) == IF a \in Span(s) THEN 1 ELSE 0

LEMMA HitFinite ==
  ASSUME NEW list \in Seq(Section), NEW a
  PROVE  /\ IsFiniteSet(Hit(list, a)) /\ Holding(list, a) = Cardinality(Hit(list, a))
         /\ Holding(list, a) \in Nat
         /\ Holding(list, a) > 0 <=> \E i \in DOMAIN list : a \in Span(list[i])
<1>1. IsFiniteSet(1 .. Len(list)) /\ Hit(list, a) \subseteq 1 .. Len(list)
  BY FS_Interval DEF Hit
<1>2. IsFiniteSet(Hit(list, a))
  BY <1>1, FS_Subset
<1>3. Holding(list, a) = Cardinality(Hit(list, a))
  BY DEF Holding, Hit
<1>4. Cardinality(Hit(list, a)) \in Nat /\ (Cardinality(Hit(list, a)) = 0 <=> Hit(list, a) = {})
  BY <1>2, FS_CardinalityType, FS_EmptySet
<1>5. Hit(list, a) # {} <=> \E i \in DOMAIN list : a \in Span(list[i])
  BY DEF Hit
<1> QED
  BY <1>2, <1>3, <1>4, <1>5

(* Two lists that agree on an address but at one place.                    *)
LEMMA HoldingDiffers ==
  ASSUME NEW list \in Seq(Section), NEW t \in Seq(Section), NEW a, NEW i,
         \A j : j # i => (j \in Hit(t, a) <=> j \in Hit(list, a))
  PROVE  Holding(t, a) + (IF i \in Hit(list, a) THEN 1 ELSE 0)
           = Holding(list, a) + (IF i \in Hit(t, a) THEN 1 ELSE 0)
<1> DEFINE R == Hit(list, a) \ {i}
           n == Cardinality(R)
<1>1. Hit(t, a) \ {i} = R
  OBVIOUS
<1>2. IsFiniteSet(R) /\ n \in Nat
  BY HitFinite, FS_Subset, FS_CardinalityType
<1>4. Cardinality(R \cup {i}) = n + 1
  BY <1>2, FS_AddElement
<1>5. /\ Holding(list, a) = n + (IF i \in Hit(list, a) THEN 1 ELSE 0)
      /\ Holding(t, a) = n + (IF i \in Hit(t, a) THEN 1 ELSE 0)
  <2>1. Holding(list, a) = Cardinality(Hit(list, a)) /\ Holding(t, a) = Cardinality(Hit(t, a))
    BY HitFinite
  <2>2. Cardinality(Hit(list, a)) = n + (IF i \in Hit(list, a) THEN 1 ELSE 0)
    <3>1. CASE i \in Hit(list, a)
      <4>1. Hit(list, a) = R \cup {i}
        BY <3>1
      <4> QED
        BY <1>4, <3>1, <4>1
    <3>2. CASE i \notin Hit(list, a)
      <4>1. Hit(list, a) = R
        BY <3>2
      <4>2. Cardinality(Hit(list, a)) = n
        BY <4>1
      <4> QED
        BY <1>2, <3>2, <4>2
    <3> QED
      BY <3>1, <3>2
  <2>3. Cardinality(Hit(t, a)) = n + (IF i \in Hit(t, a) THEN 1 ELSE 0)
    <3>1. CASE i \in Hit(t, a)
      <4>1. Hit(t, a) = R \cup {i}
        BY <1>1, <3>1
      <4> QED
        BY <1>4, <3>1, <4>1
    <3>2. CASE i \notin Hit(t, a)
      <4>1. Hit(t, a) = R
        BY <1>1, <3>2
      <4>2. Cardinality(Hit(t, a)) = n
        BY <4>1
      <4> QED
        BY <1>2, <3>2, <4>2
    <3> QED
      BY <3>1, <3>2
  <2> QED
    BY <2>1, <2>2, <2>3
<1> HIDE DEF n, R
<1> QED
  BY <1>2, <1>5

(* A section replaced by another.                                          *)
LEMMA HoldingPut ==
  ASSUME NEW list \in Seq(Section), NEW i \in 1 .. Len(list), NEW s \in Section, NEW a
  PROVE  /\ [list EXCEPT ![i] = s] \in Seq(Section)
         /\ Holding([list EXCEPT ![i] = s], a) + In(list[i], a) = Holding(list, a) + In(s, a)
<1> DEFINE t == [list EXCEPT ![i] = s]
<1>1. t \in Seq(Section) /\ DOMAIN t = DOMAIN list /\ DOMAIN list = 1 .. Len(list)
  OBVIOUS
<1>2. \A j \in DOMAIN list : t[j] = IF j = i THEN s ELSE list[j]
  OBVIOUS
<1>3. \A j : j # i => (j \in Hit(t, a) <=> j \in Hit(list, a))
  BY <1>1, <1>2 DEF Hit
<1>4. (i \in Hit(t, a) <=> a \in Span(s)) /\ (i \in Hit(list, a) <=> a \in Span(list[i]))
  BY <1>1, <1>2 DEF Hit
<1> HIDE DEF t
<1>5. Holding(t, a) + (IF i \in Hit(list, a) THEN 1 ELSE 0)
        = Holding(list, a) + (IF i \in Hit(t, a) THEN 1 ELSE 0)
  BY <1>1, <1>3, HoldingDiffers
<1>6. Holding(t, a) + In(list[i], a) = Holding(list, a) + In(s, a)
  BY <1>4, <1>5 DEF In
<1> QED
  BY <1>1, <1>6 DEF t

LEMMA HoldingAppend ==
  ASSUME NEW list \in Seq(Section), NEW s \in Section, NEW a
  PROVE  Append(list, s) \in Seq(Section) /\ Holding(Append(list, s), a) = Holding(list, a) + In(s, a)
<1> DEFINE t == Append(list, s)
           i == Len(list) + 1
<1>1. /\ t \in Seq(Section) /\ DOMAIN t = 1 .. i /\ DOMAIN list = 1 .. Len(list)
      /\ Len(list) \in Nat
      /\ \A j \in 1 .. Len(list) : t[j] = list[j]
      /\ t[i] = s
  BY AppendFacts
<1> HIDE DEF t
<1>2. \A j : j # i => (j \in Hit(t, a) <=> j \in Hit(list, a))
  BY <1>1 DEF Hit
<1>3. (i \in Hit(t, a) <=> a \in Span(s)) /\ i \notin Hit(list, a)
  BY <1>1 DEF Hit
<1>4. Holding(t, a) + (IF i \in Hit(list, a) THEN 1 ELSE 0)
        = Holding(list, a) + (IF i \in Hit(t, a) THEN 1 ELSE 0)
  BY <1>1, <1>2, HoldingDiffers
<1>5. Holding(t, a) = Holding(list, a) + In(s, a)
  BY <1>1, <1>3, <1>4, HitFinite DEF In
<1> QED
  BY <1>1, <1>5 DEF t

LEMMA OnlyOne ==
  ASSUME NEW S, IsFiniteSet(S), Cardinality(S) = 1, NEW x \in S, NEW y \in S
  PROVE  x = y
<1>1. PICK z : S = {z}
  BY FS_Singleton
<1> QED
  BY <1>1

LEMMA HoldsNothing ==
  /\ \A a : Holding(<<>>, a) = 0
  /\ \A a : In(Empty, a) = 0
  /\ \A s \in Section : \A a : s.len = 0 => In(s, a) = 0
<1>1. \A a : Hit(<<>>, a) = {}
  BY DEF Hit
<1>2. \A a : Holding(<<>>, a) = 0
  BY <1>1, FS_EmptySet DEF Holding, Hit
<1>3. \A s \in Section : \A a : s.len = 0 => a \notin Span(s)
  BY SectionFacts DEF Span
<1>4. Empty \in Section /\ Empty.len = 0
  BY SectionFacts DEF Empty
<1> QED
  BY <1>2, <1>3, <1>4 DEF In

(* A holder, of which the first section is in use.                         *)
Fresh(s) == [i \in 1 .. NSECTIONS |-> IF i = 1 THEN s ELSE Empty]

LEMMA FreshFacts ==
  ASSUME NEW list \in Seq(Section), NEW s \in Section
  PROVE  /\ list \o Fresh(s) \in Seq(Section)
         /\ Len(list \o Fresh(s)) = Len(list) + NSECTIONS
         /\ \A j \in 1 .. Len(list) : (list \o Fresh(s))[j] = list[j]
         /\ (list \o Fresh(s))[Len(list) + 1] = s
         /\ \A j \in 1 .. Len(list) + NSECTIONS :
              j > Len(list) + 1 => (list \o Fresh(s))[j] = Empty
<1>1. NSECTIONS \in Nat \ {0} /\ Empty \in Section
  BY SizesAre, SectionFacts
<1>2. /\ Fresh(s) \in Seq(Section) /\ Len(Fresh(s)) = NSECTIONS
      /\ \A j \in 1 .. NSECTIONS : Fresh(s)[j] = IF j = 1 THEN s ELSE Empty
  BY <1>1 DEF Fresh
<1>3. /\ list \o Fresh(s) \in Seq(Section)
      /\ Len(list \o Fresh(s)) = Len(list) + NSECTIONS
      /\ \A j \in 1 .. Len(list) + NSECTIONS :
           (list \o Fresh(s))[j] = IF j <= Len(list) THEN list[j] ELSE Fresh(s)[j - Len(list)]
  BY <1>2, ST!ConcatProperties
<1>4. Len(list) \in Nat
  OBVIOUS
<1>5. \A j \in 1 .. Len(list) : (list \o Fresh(s))[j] = list[j]
  BY <1>1, <1>3, <1>4
<1>6. (list \o Fresh(s))[Len(list) + 1] = s
  <2>1. Len(list) + 1 \in 1 .. Len(list) + NSECTIONS /\ ~ (Len(list) + 1 <= Len(list))
        /\ (Len(list) + 1) - Len(list) = 1 /\ 1 \in 1 .. NSECTIONS
    BY <1>1, <1>4
  <2> QED
    BY <1>2, <1>3, <2>1
<1>7. ASSUME NEW j \in 1 .. Len(list) + NSECTIONS, j > Len(list) + 1
      PROVE  (list \o Fresh(s))[j] = Empty
  <2>1. ~ (j <= Len(list)) /\ j - Len(list) \in 1 .. NSECTIONS /\ j - Len(list) # 1
    BY <1>1, <1>4, <1>7
  <2> QED
    BY <1>2, <1>3, <2>1
<1> QED
  BY <1>3, <1>5, <1>6, <1>7

LEMMA HoldingFresh ==
  ASSUME NEW list \in Seq(Section), NEW s \in Section, NEW a
  PROVE  Holding(list \o Fresh(s), a) = Holding(list, a) + In(s, a)
<1> DEFINE t == list \o Fresh(s)
           i == Len(list) + 1
<1>0. /\ NSECTIONS \in Nat \ {0} /\ Len(list) \in Nat
      /\ t \in Seq(Section) /\ Len(t) = Len(list) + NSECTIONS
  BY FreshFacts, SizesAre
<1>1. /\ NSECTIONS \in Nat \ {0} /\ Len(list) \in Nat
      /\ t \in Seq(Section) /\ DOMAIN t = 1 .. Len(list) + NSECTIONS
      /\ DOMAIN list = 1 .. Len(list)
  <2> HIDE DEF t
  <2> QED
    BY <1>0
<1>2. /\ \A j \in 1 .. Len(list) : t[j] = list[j]
      /\ t[i] = s
      /\ \A j \in 1 .. Len(list) + NSECTIONS : j > i => t[j] = Empty
  BY FreshFacts, SizesAre
<1> HIDE DEF t
<1>3. a \notin Span(Empty)
  BY HoldsNothing DEF In
<1>4. \A j : j # i => (j \in Hit(t, a) <=> j \in Hit(list, a))
  BY <1>1, <1>2, <1>3 DEF Hit
<1>5. (i \in Hit(t, a) <=> a \in Span(s)) /\ i \notin Hit(list, a)
  BY <1>1, <1>2 DEF Hit
<1>6. Holding(t, a) + (IF i \in Hit(list, a) THEN 1 ELSE 0)
        = Holding(list, a) + (IF i \in Hit(t, a) THEN 1 ELSE 0)
  BY <1>1, <1>4, HoldingDiffers
<1>7. Holding(t, a) = Holding(list, a) + In(s, a)
  BY <1>1, <1>5, <1>6, HitFinite DEF In
<1> QED
  BY <1>7 DEF t

-----------------------------------------------------------------------------
(* get_ram. *)

(* A section that does not reach the end of the addresses, and starts at   *)
(* none that stands for failure.                                           *)
Fits(s)      == s.start + s.len < WORD /\ (s.len # 0 => s.start # 0)
AllFit(list) == \A i \in 1 .. Len(list) : Fits(list[i])

LEMMA GetRamCases ==
  ASSUME NEW mem \in Memory, AllFit(mem.ram), NEW len \in Word
  PROVE  \/ Fitting(mem.ram, len) = {} /\ GetRam(mem, len) = [mem |-> mem, addr |-> 0]
         \/ \E i \in 1 .. Len(mem.ram) :
              /\ mem.ram[i].len >= len
              /\ GetRam(mem, len).addr = mem.ram[i].start + (mem.ram[i].len - len)
              /\ GetRam(mem, len).mem
                   = [mem EXCEPT !.ram = [mem.ram EXCEPT ![i] =
                        [start |-> mem.ram[i].start, len |-> mem.ram[i].len - len]]]
<1>1. mem.ram \in Seq(Section) /\ DOMAIN mem.ram = 1 .. Len(mem.ram)
  BY DEF Memory
<1>2. CASE Fitting(mem.ram, len) = {}
  BY <1>2 DEF GetRam, nil
<1>3. CASE Fitting(mem.ram, len) # {}
  <2> DEFINE i == First(Fitting(mem.ram, len))
  <2>1. i \in Fitting(mem.ram, len)
    BY <1>1, <1>3, FirstFacts DEF Fitting
  <2>2. /\ GetRam(mem, len).addr = TakenAt(mem.ram[i], len)
        /\ GetRam(mem, len).mem = [mem EXCEPT !.ram[i].len = @ - len]
    BY <1>3 DEF GetRam
  <2> HIDE DEF i
  <2>3. i \in 1 .. Len(mem.ram) /\ mem.ram[i].len >= len
    BY <1>1, <2>1 DEF Fitting
  <2>4. mem.ram[i] \in Section /\ Fits(mem.ram[i])
    BY <1>1, <2>3 DEF AllFit
  <2>5. /\ mem.ram[i].start \in Nat /\ mem.ram[i].len \in Nat /\ len \in Nat
        /\ mem.ram[i] = [start |-> mem.ram[i].start, len |-> mem.ram[i].len]
    BY <2>4, SectionFacts DEF Word
  <2>6. TakenAt(mem.ram[i], len) = mem.ram[i].start + (mem.ram[i].len - len)
    <3>1. mem.ram[i].len - len \in Nat /\ mem.ram[i].start + (mem.ram[i].len - len) < WORD
      BY <2>3, <2>4, <2>5, SizesAre DEF Fits
    <3> QED
      BY <2>5, <3>1, NoWrap DEF TakenAt
  <2>7. [mem EXCEPT !.ram[i].len = @ - len]
          = [mem EXCEPT !.ram = [mem.ram EXCEPT ![i] =
               [start |-> mem.ram[i].start, len |-> mem.ram[i].len - len]]]
    BY <2>5
  <2> QED
    BY <2>2, <2>3, <2>6, <2>7
<1> QED
  BY <1>2, <1>3

LEMMA GetRamFacts ==
  ASSUME NEW mem \in Memory, AllFit(mem.ram), NEW len \in Word
  PROVE  /\ GetRam(mem, len).mem \in Memory
         /\ AllFit(GetRam(mem, len).mem.ram)
         /\ Len(GetRam(mem, len).mem.ram) = Len(mem.ram)
         /\ \A f \in {"io", "holders", "dropped"} : GetRam(mem, len).mem[f] = mem[f]
         /\ GetRam(mem, len).addr \in Word
         /\ \A size \in Nat : Fitting(mem.ram, size) = {} => Fitting(GetRam(mem, len).mem.ram, size) = {}
         /\ len # 0 =>
              /\ GetRam(mem, len).addr = 0 <=> Fitting(mem.ram, len) = {}
              /\ GetRam(mem, len).addr = 0 => GetRam(mem, len).mem = mem
              /\ GetRam(mem, len).addr # 0 =>
                   \A a : Holding(GetRam(mem, len).mem.ram, a)
                            + In([start |-> GetRam(mem, len).addr, len |-> len], a)
                          = Holding(mem.ram, a)
<1> DEFINE g == GetRam(mem, len)
<1>0. mem.ram \in Seq(Section) /\ DOMAIN mem.ram = 1 .. Len(mem.ram) /\ WORD \in Nat \ {0} /\ len \in Nat
  BY SizesAre DEF Memory, Word
<1>1. CASE Fitting(mem.ram, len) = {} /\ g = [mem |-> mem, addr |-> 0]
  <2>1. g.mem = mem /\ g.addr = 0 /\ 0 \in Word
    BY <1>0, <1>1 DEF Word
  <2> HIDE DEF g
  <2> QED
    BY <1>1, <2>1 DEF g
<1>2. ASSUME NEW i \in 1 .. Len(mem.ram),
             mem.ram[i].len >= len,
             g.addr = mem.ram[i].start + (mem.ram[i].len - len),
             g.mem = [mem EXCEPT !.ram = [mem.ram EXCEPT ![i] =
                       [start |-> mem.ram[i].start, len |-> mem.ram[i].len - len]]]
      PROVE  /\ g.mem \in Memory
             /\ AllFit(g.mem.ram) /\ Len(g.mem.ram) = Len(mem.ram)
             /\ \A f \in {"io", "holders", "dropped"} : g.mem[f] = mem[f]
             /\ g.addr \in Word
             /\ \A size \in Nat : Fitting(mem.ram, size) = {} => Fitting(g.mem.ram, size) = {}
             /\ len # 0 =>
                  /\ g.addr # 0 /\ Fitting(mem.ram, len) # {}
                  /\ \A a : Holding(g.mem.ram, a) + In([start |-> g.addr, len |-> len], a)
                            = Holding(mem.ram, a)
  <2> DEFINE old == mem.ram[i]
             x == old.start
             y == old.len
             new == [start |-> x, len |-> y - len]
             ram == [mem.ram EXCEPT ![i] = new]
  <2> HIDE DEF g
  <2>0. old \in Section /\ Fits(old)
    BY <1>0 DEF AllFit
  <2>1. /\ x \in Nat /\ y \in Nat /\ len \in Nat /\ len <= y /\ x + y < WORD /\ (y # 0 => x # 0)
        /\ x \in Word
        /\ g.addr = x + (y - len)
    BY <1>0, <1>2, <2>0, SectionFacts DEF Fits
  <2>2. new \in Section /\ Fits(new) /\ new.start = x /\ new.len = y - len
    <3> HIDE DEF x, y
    <3>1. y - len \in Word /\ x + (y - len) < WORD /\ (y - len # 0 => x # 0)
      BY <1>0, <2>1 DEF Word
    <3>2. new \in Section /\ new.start = x /\ new.len = y - len
      BY <2>1, <3>1, SectionFacts
    <3> QED
      BY <3>1, <3>2 DEF Fits
  <2>3. /\ ram \in Seq(Section) /\ Len(ram) = Len(mem.ram)
        /\ \A j \in 1 .. Len(ram) : ram[j] = IF j = i THEN new ELSE mem.ram[j]
    BY <1>0, <2>2
  <2>4. g.mem \in Memory /\ g.mem.ram = ram /\ \A f \in {"io", "holders", "dropped"} : g.mem[f] = mem[f]
    BY <1>2, <2>3 DEF Memory
  <2>5. AllFit(ram)
    BY <2>2, <2>3 DEF AllFit
  <2>6. g.addr \in Word
    <3> HIDE DEF x, y
    <3>1. x + (y - len) \in Word
      BY <1>0, <2>1 DEF Word
    <3> QED
      BY <2>1, <3>1
  <2>7. ASSUME NEW size \in Nat, Fitting(mem.ram, size) = {} PROVE Fitting(ram, size) = {}
    <3>1. ASSUME NEW j \in 1 .. Len(ram), ram[j].len >= size PROVE FALSE
      <4>1. mem.ram[j].len >= size
        <5>1. CASE j = i
          <6>1. ram[j].len = y - len /\ mem.ram[j].len = y
            BY <2>2, <2>3, <5>1
          <6> HIDE DEF x, y, ram
          <6> QED
            BY <2>1, <3>1, <6>1
        <5>2. CASE j # i
          BY <2>3, <3>1, <5>2
        <5> QED
          BY <5>1, <5>2
      <4>2. j \in Fitting(mem.ram, size)
        BY <1>0, <2>3, <4>1 DEF Fitting
      <4> QED
        BY <2>7, <4>2
    <3>2. DOMAIN ram = 1 .. Len(ram)
      BY <2>3
    <3> HIDE DEF ram
    <3> QED
      BY <3>1, <3>2 DEF Fitting
  <2>8. ASSUME len # 0 PROVE g.addr # 0 /\ Fitting(mem.ram, len) # {}
    <3>1. i \in Fitting(mem.ram, len)
      BY <1>0, <1>2 DEF Fitting
    <3>3. g.addr # 0
      <4> HIDE DEF x, y
      <4> QED
        BY <2>1, <2>8
    <3> QED
      BY <3>1, <3>3
  <2>9. ASSUME NEW a
        PROVE  Holding(ram, a) + In([start |-> g.addr, len |-> len], a) = Holding(mem.ram, a)
    <3>1. Holding(ram, a) + In(old, a) = Holding(mem.ram, a) + In(new, a)
      BY <1>0, <2>2, HoldingPut
    <3>2. In(new, a) + In([start |-> g.addr, len |-> len], a) = In(old, a)
      <4>1. /\ Span(new) = x .. x + (y - len) - 1
            /\ Span([start |-> g.addr, len |-> len]) = g.addr .. g.addr + len - 1
            /\ Span(old) = x .. x + y - 1
        BY <2>2 DEF Span
      <4> HIDE DEF new, old, x, y
      <4>3. /\ a \in Span(old) <=> a \in Span(new) \/ a \in Span([start |-> g.addr, len |-> len])
            /\ ~ (a \in Span(new) /\ a \in Span([start |-> g.addr, len |-> len]))
        BY <2>1, <4>1
      <4> QED
        BY <4>3 DEF In
    <3>3. Holding(ram, a) \in Nat /\ Holding(mem.ram, a) \in Nat
      BY <1>0, <2>3, HitFinite
    <3>4. /\ In(new, a) \in Nat /\ In(old, a) \in Nat
          /\ In([start |-> g.addr, len |-> len], a) \in Nat
      BY DEF In
    <3> HIDE DEF ram, new, old
    <3> QED
      BY <3>1, <3>2, <3>3, <3>4
  <2> QED
    BY <2>3, <2>4, <2>5, <2>6, <2>7, <2>8, <2>9
<1> QED
  BY <1>1, <1>2, GetRamCases

-----------------------------------------------------------------------------
(* addr_add. *)

(* The first empty section, or nowhere, or the first of a new holder.      *)
LEMMA AddrAddIo ==
  ASSUME NEW mem \in Memory, NEW start, NEW len
  PROVE  LET s == [start |-> start, len |-> len]
             h == GetRam(mem, PAGE_SIZE)
             mm == AddrAdd(mem, "io", start, len)
         IN  \/ \E e \in 1 .. Len(mem.io) :
                  mem.io[e].len = 0 /\ mm = [mem EXCEPT !.io = [mem.io EXCEPT ![e] = s]]
             \/ h.addr = 0 /\ mm = [mem EXCEPT !.dropped = Append(mem.dropped, s)]
             \/ h.addr # 0 /\ mm = [h.mem EXCEPT !.io = h.mem.io \o Fresh(s),
                                                 !.holders = Append(h.mem.holders, Page(h.addr))]
<1> DEFINE s == [start |-> start, len |-> len]
           h == GetRam(mem, PAGE_SIZE)
           mm == AddrAdd(mem, "io", start, len)
           empty == {i \in DOMAIN mem.io : mem.io[i].len = 0}
<1>1. mm = IF empty # {} THEN [mem EXCEPT !.io[First(empty)] = s]
           ELSE IF h.addr = 0 THEN [mem EXCEPT !.dropped = Append(mem.dropped, s)]
           ELSE [h.mem EXCEPT !.io = h.mem.io \o Fresh(s),
                              !.holders = Append(h.mem.holders, Page(h.addr))]
  BY DEF AddrAdd, NewHolder, Fresh, nil
<1>2. empty # {} => First(empty) \in 1 .. Len(mem.io) /\ mem.io[First(empty)].len = 0
  <2>1. DOMAIN mem.io = 1 .. Len(mem.io)
    BY DEF Memory
  <2>2. empty \subseteq 1 .. Len(mem.io)
    BY <2>1
  <2>3. empty # {} => First(empty) \in empty
    BY <2>2, FirstFacts
  <2> QED
    BY <2>1, <2>3
<1> HIDE DEF empty, mm, h
<1> QED
  BY <1>1, <1>2 DEF mm, h

LEMMA AddrAddRam ==
  ASSUME NEW mem \in Memory, NEW start, NEW len
  PROVE  LET s == [start |-> start, len |-> len]
             h == GetRam(mem, PAGE_SIZE)
             mm == AddrAdd(mem, "ram", start, len)
         IN  \/ \E e \in 1 .. Len(mem.ram) :
                  mem.ram[e].len = 0 /\ mm = [mem EXCEPT !.ram = [mem.ram EXCEPT ![e] = s]]
             \/ /\ \A e \in 1 .. Len(mem.ram) : mem.ram[e].len # 0
                /\ \/ h.addr = 0 /\ mm = [mem EXCEPT !.dropped = Append(mem.dropped, s)]
                   \/ h.addr # 0 /\ mm = [h.mem EXCEPT !.ram = h.mem.ram \o Fresh(s),
                                                       !.holders = Append(h.mem.holders, Page(h.addr))]
<1> DEFINE s == [start |-> start, len |-> len]
           h == GetRam(mem, PAGE_SIZE)
           mm == AddrAdd(mem, "ram", start, len)
           empty == {i \in DOMAIN mem.ram : mem.ram[i].len = 0}
<1>1. mm = IF empty # {} THEN [mem EXCEPT !.ram[First(empty)] = s]
           ELSE IF h.addr = 0 THEN [mem EXCEPT !.dropped = Append(mem.dropped, s)]
           ELSE [h.mem EXCEPT !.ram = h.mem.ram \o Fresh(s),
                              !.holders = Append(h.mem.holders, Page(h.addr))]
  BY DEF AddrAdd, NewHolder, Fresh, nil
<1>2. /\ empty # {} => First(empty) \in 1 .. Len(mem.ram) /\ mem.ram[First(empty)].len = 0
      /\ empty = {} => \A e \in 1 .. Len(mem.ram) : mem.ram[e].len # 0
  <2>1. DOMAIN mem.ram = 1 .. Len(mem.ram)
    BY DEF Memory
  <2>2. empty \subseteq 1 .. Len(mem.ram)
    BY <2>1
  <2>3. empty # {} => First(empty) \in empty
    BY <2>2, FirstFacts
  <2> QED
    BY <2>1, <2>3
<1> HIDE DEF empty, mm, h
<1> QED
  BY <1>1, <1>2 DEF mm, h

(* Where a list gets a section: at e, which was empty, or behind its end,  *)
(* or nowhere if e is 0.                                                   *)
PlacedAt(old, new, s, e) ==
  /\ Len(old) <= Len(new)
  /\ e \in 1 .. Len(old) => old[e].len = 0
  /\ \A j \in 1 .. Len(new) :
       new[j] = IF j = e THEN s ELSE IF j <= Len(old) THEN old[j] ELSE Empty

(* All the sections that hold an address, wherever they are.               *)
Total(mem, a) ==
  Holding(mem.ram, a) + Holding(mem.io, a) + Holding(mem.holders, a) + Holding(mem.dropped, a)

(* Memory out of a list, under holders or not.                             *)
RamShare(mem, a) == Holding(mem.ram, a) + Holding(mem.holders, a)

(* Memory as proc0 keeps it once it is set up. *)
Sound(mem) ==
  /\ mem \in Memory
  /\ Len(mem.ram) % NSECTIONS = 0 /\ Len(mem.io) % NSECTIONS = 0
  /\ AllFit(mem.ram)
  /\ mem.dropped # <<>> => Fitting(mem.ram, PAGE_SIZE) = {}

LEMMA Naturals ==
  ASSUME NEW mem \in Memory, NEW a
  PROVE  /\ Holding(mem.ram, a) \in Nat /\ Holding(mem.io, a) \in Nat
         /\ Holding(mem.holders, a) \in Nat /\ Holding(mem.dropped, a) \in Nat
         /\ Total(mem, a) \in Nat /\ RamShare(mem, a) \in Nat
         /\ \A s : In(s, a) \in Nat
<1>1. /\ Holding(mem.ram, a) \in Nat /\ Holding(mem.io, a) \in Nat
      /\ Holding(mem.holders, a) \in Nat /\ Holding(mem.dropped, a) \in Nat
  BY HitFinite DEF Memory
<1>2. \A s : In(s, a) \in Nat
  BY DEF In
<1> QED
  BY <1>1, <1>2 DEF Total, RamShare

LEMMA WholeHolders ==
  \A n \in Nat : n % NSECTIONS = 0 => (n + NSECTIONS) % NSECTIONS = 0
<1>1. SUFFICES ASSUME NEW n \in Nat, n % NSECTIONS = 0
               PROVE  (n + NSECTIONS) % NSECTIONS = 0
  OBVIOUS
<1>2. NSECTIONS \in Int /\ NSECTIONS > 0 /\ n \in Int
  BY SizesAre
<1> DEFINE q == n \div NSECTIONS
<1>3. n = NSECTIONS * q /\ q \in Int
  BY <1>1, <1>2, SMTT(30)
<1> HIDE DEF q
<1>4. n + NSECTIONS = (q + 1) * NSECTIONS
  BY <1>2, <1>3
<1>5. \A k \in Int : (k * NSECTIONS) % NSECTIONS = 0
  BY <1>2, SMTT(30)
<1> QED
  BY <1>3, <1>4, <1>5

(* What addr_add makes of memory when it adds s to io.                     *)
IoAdded(mem, s, mm) ==
  /\ Sound(mm)
  /\ \A a : Total(mm, a) = Total(mem, a) + In(s, a)
  /\ \A a : RamShare(mm, a) = RamShare(mem, a)
  /\ \A a : Holding(mm.io, a) <= Holding(mem.io, a) + In(s, a)
  /\ \E e \in Nat : PlacedAt(mem.io, mm.io, s, e)

LEMMA IoAddedInPlace ==
  ASSUME NEW mem, Sound(mem), NEW s \in Section, NEW mm,
         NEW e \in 1 .. Len(mem.io), mem.io[e].len = 0,
         mm = [mem EXCEPT !.io = [mem.io EXCEPT ![e] = s]]
  PROVE  IoAdded(mem, s, mm)
<1> DEFINE io == [mem.io EXCEPT ![e] = s]
<1>1. mem \in Memory /\ mem.io \in Seq(Section) /\ Len(mem.io) \in Nat
  BY DEF Sound, Memory
<1>2. /\ io \in Seq(Section) /\ Len(io) = Len(mem.io)
      /\ \A j \in 1 .. Len(io) : io[j] = IF j = e THEN s ELSE mem.io[j]
  BY <1>1
<1>3. /\ mm \in Memory /\ mm.io = io /\ mm.ram = mem.ram
      /\ mm.holders = mem.holders /\ mm.dropped = mem.dropped
  BY <1>1, <1>2 DEF Memory
<1>4. ASSUME NEW a PROVE Holding(io, a) = Holding(mem.io, a) + In(s, a)
  <2>1. Holding(io, a) + In(mem.io[e], a) = Holding(mem.io, a) + In(s, a)
    BY <1>1, HoldingPut
  <2>2. In(mem.io[e], a) = 0
    BY <1>1, HoldsNothing
  <2>3. Holding(io, a) \in Nat
    BY <1>2, HitFinite
  <2> HIDE DEF io
  <2> QED
    BY <2>1, <2>2, <2>3
<1> HIDE DEF io
<1>5. Sound(mm)
  BY <1>2, <1>3 DEF Sound
<1>6. ASSUME NEW a
      PROVE  /\ Total(mm, a) = Total(mem, a) + In(s, a) /\ RamShare(mm, a) = RamShare(mem, a)
             /\ Holding(mm.io, a) <= Holding(mem.io, a) + In(s, a)
  <2>1. /\ Holding(mem.ram, a) \in Nat /\ Holding(mem.io, a) \in Nat
        /\ Holding(mem.holders, a) \in Nat /\ Holding(mem.dropped, a) \in Nat
        /\ In(s, a) \in Nat
    BY <1>1, Naturals
  <2>2. /\ Holding(mm.ram, a) = Holding(mem.ram, a) /\ Holding(mm.holders, a) = Holding(mem.holders, a)
        /\ Holding(mm.io, a) = Holding(mem.io, a) + In(s, a)
        /\ Holding(mm.dropped, a) = Holding(mem.dropped, a)
    BY <1>3, <1>4
  <2> QED
    BY <2>1, <2>2 DEF Total, RamShare
<1>7. PlacedAt(mem.io, mm.io, s, e) /\ e \in Nat
  <2>1. \A j \in 1 .. Len(io) : j <= Len(mem.io)
    BY <1>1, <1>2
  <2>2. Len(mem.io) <= Len(io) /\ e \in Nat
    BY <1>1, <1>2
  <2> QED
    BY <1>2, <1>3, <2>1, <2>2 DEF PlacedAt
<1> QED
  BY <1>5, <1>6, <1>7 DEF IoAdded

LEMMA IoAddedNowhere ==
  ASSUME NEW mem, Sound(mem), NEW s \in Section, NEW mm,
         GetRam(mem, PAGE_SIZE).addr = 0,
         mm = [mem EXCEPT !.dropped = Append(mem.dropped, s)]
  PROVE  IoAdded(mem, s, mm)
<1> DEFINE dropped == Append(mem.dropped, s)
<1>1. mem \in Memory /\ mem.io \in Seq(Section) /\ Len(mem.io) \in Nat /\ AllFit(mem.ram)
      /\ mem.dropped \in Seq(Section)
  BY DEF Sound, Memory
<1>2. dropped \in Seq(Section)
  BY <1>1, AppendFacts
<1>3. /\ mm \in Memory /\ mm.io = mem.io /\ mm.ram = mem.ram
      /\ mm.holders = mem.holders /\ mm.dropped = dropped
  BY <1>1, <1>2 DEF Memory
<1>4. \A a : Holding(dropped, a) = Holding(mem.dropped, a) + In(s, a)
  BY <1>1, HoldingAppend
<1> HIDE DEF dropped
<1>5. Fitting(mem.ram, PAGE_SIZE) = {}
  BY <1>1, SizesAre, GetRamFacts
<1>6. Sound(mm)
  BY <1>3, <1>5 DEF Sound
<1>7. ASSUME NEW a
      PROVE  /\ Total(mm, a) = Total(mem, a) + In(s, a) /\ RamShare(mm, a) = RamShare(mem, a)
             /\ Holding(mm.io, a) <= Holding(mem.io, a) + In(s, a)
  <2>1. /\ Holding(mem.ram, a) \in Nat /\ Holding(mem.io, a) \in Nat
        /\ Holding(mem.holders, a) \in Nat /\ Holding(mem.dropped, a) \in Nat
        /\ In(s, a) \in Nat
    BY <1>1, Naturals
  <2>2. /\ Holding(mm.ram, a) = Holding(mem.ram, a) /\ Holding(mm.holders, a) = Holding(mem.holders, a)
        /\ Holding(mm.dropped, a) = Holding(mem.dropped, a) + In(s, a)
        /\ Holding(mm.io, a) = Holding(mem.io, a)
    BY <1>3, <1>4
  <2> QED
    BY <2>1, <2>2 DEF Total, RamShare
<1>8. PlacedAt(mem.io, mm.io, s, 0)
  <2>1. \A j \in 1 .. Len(mem.io) : j <= Len(mem.io) /\ j # 0
    BY <1>1
  <2>2. Len(mem.io) <= Len(mem.io) /\ 0 \notin 1 .. Len(mem.io)
    BY <1>1
  <2> QED
    BY <1>3, <2>1, <2>2 DEF PlacedAt
<1>9. 0 \in Nat
  OBVIOUS
<1> QED
  BY <1>6, <1>7, <1>8, <1>9 DEF IoAdded

(* What a page for a holder costs. *)
LEMMA HolderFacts ==
  ASSUME NEW mem \in Memory, AllFit(mem.ram), NEW h, h = GetRam(mem, PAGE_SIZE), h.addr # 0
  PROVE  /\ h.mem \in Memory /\ AllFit(h.mem.ram) /\ Len(h.mem.ram) = Len(mem.ram)
         /\ h.mem.io = mem.io /\ h.mem.holders = mem.holders /\ h.mem.dropped = mem.dropped
         /\ h.addr \in Word /\ Page(h.addr) \in Section
         /\ Fitting(mem.ram, PAGE_SIZE) # {}
         /\ \A a : Holding(h.mem.ram, a) + In(Page(h.addr), a) = Holding(mem.ram, a)
<1> DEFINE g == GetRam(mem, PAGE_SIZE)
<1>1. PAGE_SIZE \in Word /\ PAGE_SIZE \in Nat /\ PAGE_SIZE # 0
  BY SizesAre
<1>2. /\ g.mem \in Memory /\ AllFit(g.mem.ram) /\ Len(g.mem.ram) = Len(mem.ram)
      /\ \A f \in {"io", "holders", "dropped"} : g.mem[f] = mem[f]
      /\ g.addr \in Word
      /\ g.addr = 0 <=> Fitting(mem.ram, PAGE_SIZE) = {}
  BY <1>1, GetRamFacts
<1>3. g.addr # 0 =>
        \A a : Holding(g.mem.ram, a) + In([start |-> g.addr, len |-> PAGE_SIZE], a)
              = Holding(mem.ram, a)
  BY <1>1, GetRamFacts
<1>4. h = g
  OBVIOUS
<1>5. h.mem.io = h.mem["io"] /\ h.mem.holders = h.mem["holders"] /\ h.mem.dropped = h.mem["dropped"]
      /\ mem.io = mem["io"] /\ mem.holders = mem["holders"] /\ mem.dropped = mem["dropped"]
  OBVIOUS
<1> HIDE DEF g
<1>6. Page(h.addr) \in Section
  BY <1>2, <1>4, SectionFacts
<1> QED
  BY <1>2, <1>3, <1>4, <1>5, <1>6 DEF Page

LEMMA IoAddedInHolder ==
  ASSUME NEW mem, Sound(mem), NEW s \in Section, NEW mm,
         NEW h, h = GetRam(mem, PAGE_SIZE), h.addr # 0,
         mm = [h.mem EXCEPT !.io = h.mem.io \o Fresh(s),
                            !.holders = Append(h.mem.holders, Page(h.addr))]
  PROVE  IoAdded(mem, s, mm)
<1> DEFINE io == mem.io \o Fresh(s)
           holders == Append(mem.holders, Page(h.addr))
<1>1. mem \in Memory /\ mem.io \in Seq(Section) /\ Len(mem.io) \in Nat /\ AllFit(mem.ram)
      /\ mem.holders \in Seq(Section)
  BY DEF Sound, Memory
<1>2. /\ h.mem \in Memory /\ AllFit(h.mem.ram) /\ Len(h.mem.ram) = Len(mem.ram)
      /\ h.mem.io = mem.io /\ h.mem.holders = mem.holders /\ h.mem.dropped = mem.dropped
      /\ Page(h.addr) \in Section
      /\ Fitting(mem.ram, PAGE_SIZE) # {}
      /\ \A a : Holding(h.mem.ram, a) + In(Page(h.addr), a) = Holding(mem.ram, a)
  BY <1>1, HolderFacts
<1>3. mem.dropped = <<>>
  BY <1>2 DEF Sound
<1>4. holders \in Seq(Section) /\ \A a : Holding(holders, a) = Holding(mem.holders, a) + In(Page(h.addr), a)
  BY <1>1, <1>2, HoldingAppend
<1>5. /\ io \in Seq(Section) /\ Len(io) = Len(mem.io) + NSECTIONS
      /\ \A j \in 1 .. Len(mem.io) : io[j] = mem.io[j]
      /\ io[Len(mem.io) + 1] = s
      /\ \A j \in 1 .. Len(mem.io) + NSECTIONS : j > Len(mem.io) + 1 => io[j] = Empty
      /\ \A a : Holding(io, a) = Holding(mem.io, a) + In(s, a)
  BY <1>1, FreshFacts, HoldingFresh
<1> HIDE DEF io, holders
<1>6. mm = [h.mem EXCEPT !.io = io, !.holders = holders]
  BY <1>2 DEF io, holders
<1>7. /\ mm \in Memory /\ mm.io = io /\ mm.ram = h.mem.ram
      /\ mm.holders = holders /\ mm.dropped = mem.dropped
  BY <1>2, <1>4, <1>5, <1>6 DEF Memory
<1>8. Sound(mm)
  <2>1. Len(mm.io) % NSECTIONS = 0
    BY <1>1, <1>5, <1>7, WholeHolders DEF Sound
  <2> QED
    BY <1>2, <1>3, <1>7, <2>1 DEF Sound
<1>9. ASSUME NEW a
      PROVE  /\ Total(mm, a) = Total(mem, a) + In(s, a) /\ RamShare(mm, a) = RamShare(mem, a)
             /\ Holding(mm.io, a) <= Holding(mem.io, a) + In(s, a)
  <2>1. /\ Holding(mm.ram, a) + In(Page(h.addr), a) = Holding(mem.ram, a)
        /\ Holding(mm.holders, a) = Holding(mem.holders, a) + In(Page(h.addr), a)
        /\ Holding(mm.io, a) = Holding(mem.io, a) + In(s, a)
        /\ Holding(mm.dropped, a) = Holding(mem.dropped, a)
    BY <1>2, <1>4, <1>5, <1>7
  <2>2. /\ Holding(mem.ram, a) \in Nat /\ Holding(mem.io, a) \in Nat
        /\ Holding(mem.holders, a) \in Nat /\ Holding(mem.dropped, a) \in Nat
        /\ Holding(mm.ram, a) \in Nat /\ In(s, a) \in Nat /\ In(Page(h.addr), a) \in Nat
    BY <1>1, <1>7, Naturals
  <2> QED
    BY <2>1, <2>2 DEF Total, RamShare
<1>10. PlacedAt(mem.io, mm.io, s, Len(mem.io) + 1) /\ Len(mem.io) + 1 \in Nat
  <2>1. NSECTIONS \in Nat
    BY SizesAre
  <2>2. Len(mem.io) <= Len(io) /\ Len(mem.io) + 1 \notin 1 .. Len(mem.io) /\ Len(mem.io) + 1 \in Nat
    BY <1>1, <1>5, <2>1
  <2>3. ASSUME NEW j \in 1 .. Len(io)
        PROVE  io[j] = IF j = Len(mem.io) + 1 THEN s ELSE IF j <= Len(mem.io) THEN mem.io[j] ELSE Empty
    <3>1. j \in 1 .. Len(mem.io) + NSECTIONS
      BY <1>5
    <3>2. CASE j <= Len(mem.io)
      <4>1. j \in 1 .. Len(mem.io) /\ j # Len(mem.io) + 1
        BY <1>1, <3>1, <3>2
      <4> QED
        BY <1>5, <3>2, <4>1
    <3>3. CASE j = Len(mem.io) + 1
      BY <1>5, <3>3
    <3>4. CASE ~ (j <= Len(mem.io)) /\ j # Len(mem.io) + 1
      <4>1. j > Len(mem.io) + 1
        BY <1>1, <3>1, <3>4
      <4> QED
        BY <1>5, <3>1, <3>4, <4>1
    <3> QED
      BY <3>2, <3>3, <3>4
  <2> QED
    BY <1>7, <2>2, <2>3 DEF PlacedAt
<1> QED
  BY <1>8, <1>9, <1>10 DEF IoAdded

(* addr_add keeps account of what it adds to io, and leaves what was there *)
(* in its place.                                                           *)
LEMMA AddIoFacts ==
  ASSUME NEW mem, Sound(mem), NEW start \in Word, NEW len \in Word
  PROVE  IoAdded(mem, [start |-> start, len |-> len], AddrAdd(mem, "io", start, len))
<1> DEFINE s == [start |-> start, len |-> len]
           mm == AddrAdd(mem, "io", start, len)
           h == GetRam(mem, PAGE_SIZE)
<1>1. mem \in Memory /\ s \in Section
  BY SectionFacts DEF Sound
<1>2. \/ \E e \in 1 .. Len(mem.io) :
            mem.io[e].len = 0 /\ mm = [mem EXCEPT !.io = [mem.io EXCEPT ![e] = s]]
      \/ h.addr = 0 /\ mm = [mem EXCEPT !.dropped = Append(mem.dropped, s)]
      \/ h.addr # 0 /\ mm = [h.mem EXCEPT !.io = h.mem.io \o Fresh(s),
                                          !.holders = Append(h.mem.holders, Page(h.addr))]
  BY <1>1, AddrAddIo
<1> HIDE DEF s, mm
<1>3. IoAdded(mem, s, mm)
  BY <1>1, <1>2, IoAddedInPlace, IoAddedNowhere, IoAddedInHolder
<1> QED
  BY <1>3 DEF s, mm

(* While the regions of memory are added, one is dropped only if no        *)
(* section of ram is empty: a page that cannot be had then never can.      *)
RamSound(mem) ==
  /\ Sound(mem)
  /\ mem.dropped # <<>> => \A e \in 1 .. Len(mem.ram) : mem.ram[e].len # 0

(* What addr_add makes of memory when it adds s to ram.                    *)
RamAdded(mem, s, mm) ==
  /\ RamSound(mm)
  /\ mm.io = mem.io
  /\ \A a : Total(mm, a) = Total(mem, a) + In(s, a)
  /\ \A a : RamShare(mm, a) <= RamShare(mem, a) + In(s, a)

LEMMA RamAddedInPlace ==
  ASSUME NEW mem, RamSound(mem), NEW s \in Section, Fits(s), NEW mm,
         NEW e \in 1 .. Len(mem.ram), mem.ram[e].len = 0,
         mm = [mem EXCEPT !.ram = [mem.ram EXCEPT ![e] = s]]
  PROVE  RamAdded(mem, s, mm)
<1> DEFINE ram == [mem.ram EXCEPT ![e] = s]
<1>1. mem \in Memory /\ mem.ram \in Seq(Section) /\ Len(mem.ram) \in Nat /\ AllFit(mem.ram)
  BY DEF RamSound, Sound, Memory
<1>2. /\ ram \in Seq(Section) /\ Len(ram) = Len(mem.ram)
      /\ \A j \in 1 .. Len(ram) : ram[j] = IF j = e THEN s ELSE mem.ram[j]
  BY <1>1
<1>3. /\ mm \in Memory /\ mm.ram = ram /\ mm.io = mem.io
      /\ mm.holders = mem.holders /\ mm.dropped = mem.dropped
  BY <1>1, <1>2 DEF Memory
<1>4. ASSUME NEW a PROVE Holding(ram, a) = Holding(mem.ram, a) + In(s, a)
  <2>1. Holding(ram, a) + In(mem.ram[e], a) = Holding(mem.ram, a) + In(s, a)
    BY <1>1, HoldingPut
  <2>2. In(mem.ram[e], a) = 0
    BY <1>1, HoldsNothing
  <2>3. Holding(ram, a) \in Nat
    BY <1>2, HitFinite
  <2> HIDE DEF ram
  <2> QED
    BY <2>1, <2>2, <2>3
<1> HIDE DEF ram
<1>5. mem.dropped = <<>>
  BY DEF RamSound
<1>6. AllFit(ram)
  BY <1>1, <1>2 DEF AllFit
<1>7. RamSound(mm)
  BY <1>2, <1>3, <1>5, <1>6 DEF RamSound, Sound
<1>8. ASSUME NEW a
      PROVE  /\ Total(mm, a) = Total(mem, a) + In(s, a)
             /\ RamShare(mm, a) <= RamShare(mem, a) + In(s, a)
  <2>1. /\ Holding(mem.ram, a) \in Nat /\ Holding(mem.io, a) \in Nat
        /\ Holding(mem.holders, a) \in Nat /\ Holding(mem.dropped, a) \in Nat
        /\ In(s, a) \in Nat
    BY <1>1, Naturals
  <2>2. /\ Holding(mm.ram, a) = Holding(mem.ram, a) + In(s, a)
        /\ Holding(mm.holders, a) = Holding(mem.holders, a)
        /\ Holding(mm.io, a) = Holding(mem.io, a)
        /\ Holding(mm.dropped, a) = Holding(mem.dropped, a)
    BY <1>3, <1>4
  <2> QED
    BY <2>1, <2>2 DEF Total, RamShare
<1> QED
  BY <1>3, <1>7, <1>8 DEF RamAdded

LEMMA RamAddedNowhere ==
  ASSUME NEW mem, RamSound(mem), NEW s \in Section, NEW mm,
         \A e \in 1 .. Len(mem.ram) : mem.ram[e].len # 0,
         GetRam(mem, PAGE_SIZE).addr = 0,
         mm = [mem EXCEPT !.dropped = Append(mem.dropped, s)]
  PROVE  RamAdded(mem, s, mm)
<1> DEFINE dropped == Append(mem.dropped, s)
<1>1. mem \in Memory /\ AllFit(mem.ram) /\ mem.dropped \in Seq(Section)
  BY DEF RamSound, Sound, Memory
<1>2. dropped \in Seq(Section)
  BY <1>1, AppendFacts
<1>3. /\ mm \in Memory /\ mm.io = mem.io /\ mm.ram = mem.ram
      /\ mm.holders = mem.holders /\ mm.dropped = dropped
  BY <1>1, <1>2 DEF Memory
<1>4. \A a : Holding(dropped, a) = Holding(mem.dropped, a) + In(s, a)
  BY <1>1, HoldingAppend
<1> HIDE DEF dropped
<1>5. Fitting(mem.ram, PAGE_SIZE) = {}
  BY <1>1, SizesAre, GetRamFacts
<1>6. RamSound(mm)
  BY <1>3, <1>5 DEF RamSound, Sound
<1>7. ASSUME NEW a
      PROVE  /\ Total(mm, a) = Total(mem, a) + In(s, a)
             /\ RamShare(mm, a) <= RamShare(mem, a) + In(s, a)
  <2>1. /\ Holding(mem.ram, a) \in Nat /\ Holding(mem.io, a) \in Nat
        /\ Holding(mem.holders, a) \in Nat /\ Holding(mem.dropped, a) \in Nat
        /\ In(s, a) \in Nat
    BY <1>1, Naturals
  <2>2. /\ Holding(mm.ram, a) = Holding(mem.ram, a) /\ Holding(mm.holders, a) = Holding(mem.holders, a)
        /\ Holding(mm.dropped, a) = Holding(mem.dropped, a) + In(s, a)
        /\ Holding(mm.io, a) = Holding(mem.io, a)
    BY <1>3, <1>4
  <2> QED
    BY <2>1, <2>2 DEF Total, RamShare
<1> QED
  BY <1>3, <1>6, <1>7 DEF RamAdded

LEMMA RamAddedInHolder ==
  ASSUME NEW mem, RamSound(mem), NEW s \in Section, Fits(s), NEW mm,
         NEW h, h = GetRam(mem, PAGE_SIZE), h.addr # 0,
         mm = [h.mem EXCEPT !.ram = h.mem.ram \o Fresh(s),
                            !.holders = Append(h.mem.holders, Page(h.addr))]
  PROVE  RamAdded(mem, s, mm)
<1> DEFINE ram == h.mem.ram \o Fresh(s)
           holders == Append(mem.holders, Page(h.addr))
<1>1. mem \in Memory /\ AllFit(mem.ram) /\ mem.holders \in Seq(Section) /\ Len(mem.ram) \in Nat
  BY DEF RamSound, Sound, Memory
<1>2. /\ h.mem \in Memory /\ AllFit(h.mem.ram) /\ Len(h.mem.ram) = Len(mem.ram)
      /\ h.mem.io = mem.io /\ h.mem.holders = mem.holders /\ h.mem.dropped = mem.dropped
      /\ Page(h.addr) \in Section
      /\ Fitting(mem.ram, PAGE_SIZE) # {}
      /\ \A a : Holding(h.mem.ram, a) + In(Page(h.addr), a) = Holding(mem.ram, a)
  BY <1>1, HolderFacts
<1>3. mem.dropped = <<>>
  BY <1>2 DEF RamSound, Sound
<1>4. holders \in Seq(Section) /\ \A a : Holding(holders, a) = Holding(mem.holders, a) + In(Page(h.addr), a)
  BY <1>1, <1>2, HoldingAppend
<1>5. h.mem.ram \in Seq(Section)
  BY <1>2 DEF Memory
<1>6. /\ ram \in Seq(Section) /\ Len(ram) = Len(mem.ram) + NSECTIONS
      /\ \A j \in 1 .. Len(mem.ram) : ram[j] = h.mem.ram[j]
      /\ ram[Len(mem.ram) + 1] = s
      /\ \A j \in 1 .. Len(mem.ram) + NSECTIONS : j > Len(mem.ram) + 1 => ram[j] = Empty
      /\ \A a : Holding(ram, a) = Holding(h.mem.ram, a) + In(s, a)
  <2> DEFINE old == h.mem.ram
  <2>1. old \in Seq(Section) /\ Len(old) = Len(mem.ram) /\ ram = old \o Fresh(s)
    BY <1>2, <1>5
  <2> HIDE DEF old, ram
  <2>2. /\ ram \in Seq(Section) /\ Len(ram) = Len(old) + NSECTIONS
        /\ \A j \in 1 .. Len(old) : ram[j] = old[j]
        /\ ram[Len(old) + 1] = s
        /\ \A j \in 1 .. Len(old) + NSECTIONS : j > Len(old) + 1 => ram[j] = Empty
    BY <2>1, FreshFacts
  <2>3. \A a : Holding(ram, a) = Holding(old, a) + In(s, a)
    BY <2>1, HoldingFresh
  <2> QED
    BY <2>1, <2>2, <2>3 DEF old
<1> HIDE DEF ram, holders
<1>7. mm = [h.mem EXCEPT !.ram = ram, !.holders = holders]
  BY <1>2 DEF ram, holders
<1>8. /\ mm \in Memory /\ mm.ram = ram /\ mm.io = mem.io
      /\ mm.holders = holders /\ mm.dropped = <<>>
  BY <1>2, <1>3, <1>4, <1>6, <1>7 DEF Memory
<1>9. AllFit(ram)
  <2>1. Fits(Empty)
    BY SizesAre DEF Fits, Empty
  <2>2. ASSUME NEW j \in 1 .. Len(ram) PROVE Fits(ram[j])
    <3>1. j \in 1 .. Len(mem.ram) + NSECTIONS /\ NSECTIONS \in Nat
      BY <1>6, SizesAre
    <3>2. CASE j \in 1 .. Len(mem.ram)
      BY <1>2, <1>6, <3>2 DEF AllFit
    <3>3. CASE j = Len(mem.ram) + 1
      BY <1>6, <3>3
    <3>4. CASE j > Len(mem.ram) + 1
      BY <1>6, <2>1, <3>1, <3>4
    <3>5. j \in 1 .. Len(mem.ram) \/ j = Len(mem.ram) + 1 \/ j > Len(mem.ram) + 1
      BY <1>1, <3>1
    <3> QED
      BY <3>2, <3>3, <3>4, <3>5
  <2> QED
    BY <2>2 DEF AllFit
<1>10. RamSound(mm)
  <2>1. Len(mm.ram) % NSECTIONS = 0
    BY <1>1, <1>6, <1>8, WholeHolders DEF RamSound, Sound
  <2>2. Len(mm.io) % NSECTIONS = 0
    BY <1>8 DEF RamSound, Sound
  <2> QED
    BY <1>8, <1>9, <2>1, <2>2 DEF RamSound, Sound
<1>11. ASSUME NEW a
       PROVE  /\ Total(mm, a) = Total(mem, a) + In(s, a)
              /\ RamShare(mm, a) <= RamShare(mem, a) + In(s, a)
  <2>1. /\ Holding(mm.ram, a) = Holding(h.mem.ram, a) + In(s, a)
        /\ Holding(h.mem.ram, a) + In(Page(h.addr), a) = Holding(mem.ram, a)
        /\ Holding(mm.holders, a) = Holding(mem.holders, a) + In(Page(h.addr), a)
        /\ Holding(mm.io, a) = Holding(mem.io, a)
        /\ Holding(mm.dropped, a) = Holding(mem.dropped, a)
    BY <1>2, <1>3, <1>4, <1>6, <1>8
  <2>2. /\ Holding(mem.ram, a) \in Nat /\ Holding(mem.io, a) \in Nat
        /\ Holding(mem.holders, a) \in Nat /\ Holding(mem.dropped, a) \in Nat
        /\ In(s, a) \in Nat /\ In(Page(h.addr), a) \in Nat /\ Holding(h.mem.ram, a) \in Nat
    BY <1>1, <1>2, Naturals
  <2> QED
    BY <2>1, <2>2 DEF Total, RamShare
<1> QED
  BY <1>8, <1>10, <1>11 DEF RamAdded

(* addr_add keeps account of what it adds to ram.                          *)
LEMMA AddRamFacts ==
  ASSUME NEW mem, RamSound(mem), NEW start \in Word, NEW len \in Word,
         Fits([start |-> start, len |-> len])
  PROVE  RamAdded(mem, [start |-> start, len |-> len], AddrAdd(mem, "ram", start, len))
<1> DEFINE s == [start |-> start, len |-> len]
           mm == AddrAdd(mem, "ram", start, len)
           h == GetRam(mem, PAGE_SIZE)
<1>1. mem \in Memory /\ s \in Section /\ Fits(s)
  BY SectionFacts DEF RamSound, Sound
<1>2. \/ \E e \in 1 .. Len(mem.ram) :
           mem.ram[e].len = 0 /\ mm = [mem EXCEPT !.ram = [mem.ram EXCEPT ![e] = s]]
      \/ /\ \A e \in 1 .. Len(mem.ram) : mem.ram[e].len # 0
         /\ \/ h.addr = 0 /\ mm = [mem EXCEPT !.dropped = Append(mem.dropped, s)]
            \/ h.addr # 0 /\ mm = [h.mem EXCEPT !.ram = h.mem.ram \o Fresh(s),
                                                !.holders = Append(h.mem.holders, Page(h.addr))]
  BY <1>1, AddrAddRam
<1> HIDE DEF s, mm
<1>3. RamAdded(mem, s, mm)
  BY <1>1, <1>2, RamAddedInPlace, RamAddedNowhere, RamAddedInHolder
<1> QED
  BY <1>3 DEF s, mm

-----------------------------------------------------------------------------
(* The loops over the regions of the kernel page.                          *)

LEMMA AddRegionsLoop ==
  ASSUME NEW mem, NEW list, NEW regions \in Seq(Section)
  PROVE  \E f : /\ f[0] = mem
                /\ \A k \in 1 .. Len(regions) :
                     f[k] = AddrAdd(f[k - 1], list, regions[k].start, regions[k].len)
                /\ AddRegions(mem, list, regions) = f[Len(regions)]
<1> DEFINE Turn(f, k) == IF k = 0 THEN mem
                         ELSE AddrAdd(f[k - 1], list, regions[k].start, regions[k].len)
           IsLoop(f, n) == f = [k \in 0 .. n |-> Turn(f, k)]
           T == {n \in Nat : \E f : IsLoop(f, n)}
           N == Len(regions)
<1>0. N \in Nat
  OBVIOUS
<1>1. 0 \in T
  <2> DEFINE f == [k \in 0 .. 0 |-> mem]
  <2>1. \A k \in 0 .. 0 : Turn(f, k) = mem
    OBVIOUS
  <2>2. IsLoop(f, 0)
    BY <2>1
  <2> QED
    BY <2>2
<1>2. ASSUME NEW n \in 1 .. N, n - 1 \in T PROVE n \in T
  <2>1. PICK g : IsLoop(g, n - 1)
    BY <1>2
  <2> DEFINE f == [k \in 0 .. n |-> IF k = n THEN Turn(g, n) ELSE g[k]]
  <2>2. n \in Nat /\ \A k \in 0 .. n : k # n => k \in 0 .. n - 1
    OBVIOUS
  <2>3. DOMAIN f = 0 .. n /\ \A k \in 0 .. n : f[k] = IF k = n THEN Turn(g, n) ELSE g[k]
    OBVIOUS
  <2>4. \A k \in 0 .. n - 1 : g[k] = Turn(g, k)
    <3> HIDE DEF Turn
    <3> QED
      BY <2>1
  <2>5. \A k \in 0 .. n : k # 0 => f[k - 1] = g[k - 1]
    <3>1. ASSUME NEW k \in 0 .. n, k # 0 PROVE f[k - 1] = g[k - 1]
      <4>1. k - 1 \in 0 .. n /\ k - 1 # n
        BY <3>1
      <4> HIDE DEF f
      <4> QED
        BY <2>3, <4>1
    <3> QED
      BY <3>1
  <2> HIDE DEF f
  <2>6. \A k \in 0 .. n : Turn(f, k) = Turn(g, k)
    BY <2>5
  <2>7. \A k \in 0 .. n : f[k] = Turn(f, k)
    <3> HIDE DEF Turn
    <3> QED
      BY <2>2, <2>3, <2>4, <2>6
  <2>8. f = [k \in 0 .. n |-> f[k]]
    BY <2>3 DEF f
  <2>9. IsLoop(f, n)
    <3> HIDE DEF Turn
    <3> QED
      BY <2>7, <2>8
  <2> QED
    BY <2>2, <2>9
<1>3. N \in T
  <2> HIDE DEF T
  <2>1. 0 .. N \subseteq T
    BY <1>0, <1>1, <1>2, EveryTurn
  <2> QED
    BY <1>0, <2>1
<1> DEFINE f == CHOOSE f : IsLoop(f, N)
<1>4. IsLoop(f, N)
  BY <1>3
<1>5. AddRegions(mem, list, regions) = f[N]
  BY DEF AddRegions
<1> HIDE DEF f
<1>6. \A k \in 0 .. N : f[k] = Turn(f, k)
  <2> HIDE DEF Turn
  <2> QED
    BY <1>4
<1>7. f[0] = mem /\ \A k \in 1 .. N : f[k] = AddrAdd(f[k - 1], list, regions[k].start, regions[k].len)
  BY <1>6
<1> QED
  BY <1>5, <1>7

(* How many of the first k sections of a list hold an address.             *)
Upto(list, k, a) == Cardinality({i \in 1 .. k : a \in Span(list[i])})

LEMMA UptoFacts ==
  ASSUME NEW list \in Seq(Section), NEW a
  PROVE  /\ Upto(list, 0, a) = 0
         /\ \A k \in 1 .. Len(list) : /\ Upto(list, k, a) = Upto(list, k - 1, a) + In(list[k], a)
                                      /\ Upto(list, k, a) \in Nat
                                      /\ Upto(list, k - 1, a) \in Nat
         /\ Upto(list, Len(list), a) = Holding(list, a)
<1> DEFINE U(k) == {i \in 1 .. k : a \in Span(list[i])}
<1>1. U(0) = {}
  OBVIOUS
<1>2. Upto(list, 0, a) = 0
  BY <1>1, FS_EmptySet DEF Upto
<1>3. \A k \in Int : IsFiniteSet(U(k)) /\ Cardinality(U(k)) \in Nat
  <2>1. ASSUME NEW k \in Int PROVE IsFiniteSet(U(k))
    <3>1. IsFiniteSet(1 .. k) /\ U(k) \subseteq 1 .. k
      BY FS_Interval
    <3> HIDE DEF U
    <3> QED
      BY <3>1, FS_Subset
  <2> HIDE DEF U
  <2> QED
    BY <2>1, FS_CardinalityType
<1>4. ASSUME NEW k \in 1 .. Len(list)
      PROVE  Cardinality(U(k)) = Cardinality(U(k - 1)) + In(list[k], a)
  <2>1. k \in Int /\ k - 1 \in Int
    OBVIOUS
  <2>2. CASE a \in Span(list[k])
    <3>1. U(k) = U(k - 1) \cup {k} /\ k \notin U(k - 1)
      BY <2>2
    <3>2. IsFiniteSet(U(k - 1))
      BY <1>3, <2>1
    <3> HIDE DEF U
    <3>3. Cardinality(U(k)) = Cardinality(U(k - 1)) + 1
      BY <3>1, <3>2, FS_AddElement
    <3> QED
      BY <2>2, <3>3 DEF In
  <2>3. CASE a \notin Span(list[k])
    <3>1. U(k) = U(k - 1)
      BY <2>3
    <3>2. Cardinality(U(k - 1)) \in Nat
      BY <1>3, <2>1
    <3> HIDE DEF U
    <3> QED
      BY <2>3, <3>1, <3>2 DEF In
  <2> QED
    BY <2>2, <2>3
<1>5. \A k : Upto(list, k, a) = Cardinality(U(k))
  BY DEF Upto
<1>6. Upto(list, Len(list), a) = Holding(list, a)
  <2>1. DOMAIN list = 1 .. Len(list)
    OBVIOUS
  <2> QED
    BY <2>1 DEF Upto, Holding
<1>7. \A k \in 1 .. Len(list) : k \in Int /\ k - 1 \in Int
  OBVIOUS
<1> HIDE DEF U
<1> QED
  BY <1>2, <1>3, <1>4, <1>5, <1>6, <1>7

(* The first section of a list and the others.                             *)
LEMMA HoldingTail ==
  ASSUME NEW list \in Seq(Section), list # <<>>, NEW a
  PROVE  /\ Tail(list) \in Seq(Section)
         /\ Holding(list, a) = In(list[1], a) + Holding(Tail(list), a)
<1> DEFINE t == Tail(list)
           T == {k \in Nat : Upto(list, k + 1, a) = In(list[1], a) + Upto(t, k, a)}
<1>1. /\ t \in Seq(Section) /\ Len(list) \in Nat /\ Len(list) # 0 /\ Len(t) = Len(list) - 1
      /\ \A k \in 1 .. Len(t) : t[k] = list[k + 1]
  OBVIOUS
<1> HIDE DEF t
<1>2. 0 \in T
  <2>1. /\ Upto(list, 1, a) = Upto(list, 1 - 1, a) + In(list[1], a)
        /\ Upto(list, 0, a) = 0 /\ Upto(t, 0, a) = 0
    BY <1>1, UptoFacts
  <2>2. In(list[1], a) \in Nat /\ 1 - 1 = 0 /\ 0 + 1 = 1
    BY DEF In
  <2> QED
    BY <2>1, <2>2
<1>3. ASSUME NEW k \in 1 .. Len(t), k - 1 \in T PROVE k \in T
  <2>1. k + 1 \in 1 .. Len(list) /\ (k + 1) - 1 = k /\ (k - 1) + 1 = k /\ k \in Nat
    BY <1>1
  <2>2. /\ Upto(list, k + 1, a) = Upto(list, k, a) + In(list[k + 1], a)
        /\ Upto(t, k, a) = Upto(t, k - 1, a) + In(t[k], a)
        /\ Upto(t, k - 1, a) \in Nat
    BY <1>1, <2>1, UptoFacts
  <2>3. Upto(list, k, a) = In(list[1], a) + Upto(t, k - 1, a)
    BY <1>3, <2>1
  <2>4. In(list[1], a) \in Nat /\ In(t[k], a) \in Nat /\ t[k] = list[k + 1]
    BY <1>1 DEF In
  <2>5. Upto(list, k + 1, a) = In(list[1], a) + Upto(t, k, a)
    BY <2>2, <2>3, <2>4
  <2> QED
    BY <2>1, <2>5
<1>4. Len(t) \in T
  <2>1. Len(t) \in Nat
    BY <1>1
  <2> HIDE DEF T
  <2>2. 0 .. Len(t) \subseteq T
    BY <1>2, <1>3, <2>1, EveryTurn
  <2> QED
    BY <2>1, <2>2
<1>5. Len(t) + 1 = Len(list)
  BY <1>1
<1>6. Upto(list, Len(list), a) = Holding(list, a) /\ Upto(t, Len(t), a) = Holding(t, a)
  BY <1>1, UptoFacts
<1> QED
  BY <1>1, <1>4, <1>5, <1>6 DEF t

(* The regions of memory. *)
LEMMA RamLoop ==
  ASSUME NEW mem, RamSound(mem), NEW regions \in Seq(Section),
         \A i \in 1 .. Len(regions) : Fits(regions[i])
  PROVE  LET mm == AddRegions(mem, "ram", regions)
         IN  /\ RamSound(mm) /\ mm.io = mem.io
             /\ \A a : Total(mm, a) = Total(mem, a) + Holding(regions, a)
             /\ \A a : RamShare(mm, a) <= RamShare(mem, a) + Holding(regions, a)
<1> DEFINE N == Len(regions)
<1>0. N \in Nat
  OBVIOUS
<1>1. PICK f : /\ f[0] = mem
               /\ \A k \in 1 .. Len(regions) :
                    f[k] = AddrAdd(f[k - 1], "ram", regions[k].start, regions[k].len)
               /\ AddRegions(mem, "ram", regions) = f[Len(regions)]
  BY AddRegionsLoop
<1> DEFINE P(k) == /\ RamSound(f[k]) /\ f[k].io = mem.io
                   /\ \A a : Total(f[k], a) = Total(mem, a) + Upto(regions, k, a)
                   /\ \A a : RamShare(f[k], a) <= RamShare(mem, a) + Upto(regions, k, a)
           T == {k \in Nat : P(k)}
<1>2. 0 \in T
  <2>1. \A a : Upto(regions, 0, a) = 0
    BY UptoFacts
  <2>2. \A a : Total(mem, a) \in Nat /\ RamShare(mem, a) \in Nat
    BY Naturals DEF RamSound, Sound
  <2> QED
    BY <1>1, <2>1, <2>2
<1>3. ASSUME NEW k \in 1 .. N, k - 1 \in T PROVE k \in T
  <2> DEFINE s == regions[k]
             old == f[k - 1]
             new == f[k]
  <2>1. s \in Section /\ Fits(s) /\ s.start \in Word /\ s.len \in Word
        /\ s = [start |-> s.start, len |-> s.len]
    <3>1. s \in Section /\ Fits(s)
      BY <1>0
    <3> HIDE DEF s
    <3> QED
      BY <3>1, SectionFacts
  <2>2. new = AddrAdd(old, "ram", s.start, s.len) /\ P(k - 1)
    BY <1>1, <1>3
  <2>3. RamAdded(old, s, new)
    <3> DEFINE x == s.start
               y == s.len
    <3>1. s = [start |-> x, len |-> y] /\ x \in Word /\ y \in Word
      BY <2>1
    <3>2. new = AddrAdd(old, "ram", x, y) /\ RamSound(old)
      BY <2>2
    <3> HIDE DEF s, x, y, old, new
    <3> QED
      BY <2>1, <3>1, <3>2, AddRamFacts
  <2>4. ASSUME NEW a
        PROVE  /\ Total(new, a) = Total(mem, a) + Upto(regions, k, a)
               /\ RamShare(new, a) <= RamShare(mem, a) + Upto(regions, k, a)
    <3>1. /\ Total(old, a) = Total(mem, a) + Upto(regions, k - 1, a)
          /\ RamShare(old, a) <= RamShare(mem, a) + Upto(regions, k - 1, a)
          /\ Total(new, a) = Total(old, a) + In(s, a)
          /\ RamShare(new, a) <= RamShare(old, a) + In(s, a)
      BY <2>2, <2>3 DEF RamAdded
    <3>2. Upto(regions, k, a) = Upto(regions, k - 1, a) + In(s, a) /\ Upto(regions, k - 1, a) \in Nat
      BY UptoFacts
    <3>3. old \in Memory /\ new \in Memory /\ mem \in Memory
      BY <2>2, <2>3 DEF RamAdded, RamSound, Sound
    <3>4. /\ Total(mem, a) \in Nat /\ RamShare(mem, a) \in Nat
          /\ Total(old, a) \in Nat /\ RamShare(old, a) \in Nat
          /\ Total(new, a) \in Nat /\ RamShare(new, a) \in Nat /\ In(s, a) \in Nat
      BY <3>3, Naturals
    <3> HIDE DEF s, old, new
    <3> QED
      BY <3>1, <3>2, <3>4, SMTT(30)
  <2>5. RamSound(new) /\ new.io = mem.io
    BY <2>2, <2>3 DEF RamAdded
  <2> QED
    BY <2>4, <2>5
<1>4. P(N)
  <2>1. 0 .. N \subseteq T
    <3> HIDE DEF T, N
    <3> QED
      BY <1>0, <1>2, <1>3, EveryTurn
  <2>2. N \in 0 .. N
    BY <1>0
  <2> QED
    BY <2>1, <2>2
<1>5. \A a : Upto(regions, N, a) = Holding(regions, a)
  BY UptoFacts
<1> QED
  BY <1>1, <1>4, <1>5

(* Every section of a list is empty or a region of registers.              *)
FromRegions(list) ==
  \A j \in 1 .. Len(list) :
    list[j].len = 0 \/ \E r \in 1 .. Len(IoRegions) : list[j] = IoRegions[r]

(* The regions of registers. *)
LEMMA IoLoop ==
  ASSUME NEW mem, Sound(mem), FromRegions(mem.io), \A a : Holding(mem.io, a) = 0
  PROVE  LET mm == AddRegions(mem, "io", IoRegions)
         IN  /\ Sound(mm) /\ FromRegions(mm.io)
             /\ \A a : Total(mm, a) = Total(mem, a) + Holding(IoRegions, a)
             /\ \A a : RamShare(mm, a) = RamShare(mem, a)
             /\ \A a : Holding(mm.io, a) <= Holding(IoRegions, a)
<1> DEFINE N == Len(IoRegions)
<1>0. N \in Nat /\ IoRegions \in Seq(Section)
  BY SizesAre
<1>1. PICK f : /\ f[0] = mem
               /\ \A k \in 1 .. N :
                    f[k] = AddrAdd(f[k - 1], "io", IoRegions[k].start, IoRegions[k].len)
               /\ AddRegions(mem, "io", IoRegions) = f[N]
  <2>1. IoRegions \in Seq(Section)
    BY <1>0
  <2> QED
    BY <2>1, AddRegionsLoop
<1> DEFINE P(k) == /\ Sound(f[k]) /\ FromRegions(f[k].io)
                   /\ \A a : Total(f[k], a) = Total(mem, a) + Upto(IoRegions, k, a)
                   /\ \A a : RamShare(f[k], a) = RamShare(mem, a)
                   /\ \A a : Holding(f[k].io, a) <= Upto(IoRegions, k, a)
           T == {k \in Nat : P(k)}
<1>2. 0 \in T
  <2>1. \A a : Upto(IoRegions, 0, a) = 0
    BY <1>0, UptoFacts
  <2>2. \A a : Total(mem, a) \in Nat
    BY Naturals DEF Sound
  <2> QED
    BY <1>1, <2>1, <2>2
<1>3. ASSUME NEW k \in 1 .. N, k - 1 \in T PROVE k \in T
  <2> DEFINE s == IoRegions[k]
             old == f[k - 1]
             new == f[k]
  <2>1. s \in Section /\ s.start \in Word /\ s.len \in Word
        /\ s = [start |-> s.start, len |-> s.len]
    <3>1. s \in Section
      BY <1>0
    <3> HIDE DEF s
    <3> QED
      BY <3>1, SectionFacts
  <2>2. new = AddrAdd(old, "io", s.start, s.len) /\ P(k - 1)
    BY <1>1, <1>3
  <2>3. IoAdded(old, s, new)
    <3> DEFINE x == s.start
               y == s.len
    <3>1. s = [start |-> x, len |-> y] /\ x \in Word /\ y \in Word
      BY <2>1
    <3>2. new = AddrAdd(old, "io", x, y) /\ Sound(old)
      BY <2>2
    <3> HIDE DEF s, x, y, old, new
    <3> QED
      BY <3>1, <3>2, AddIoFacts
  <2>4. ASSUME NEW a
        PROVE  /\ Total(new, a) = Total(mem, a) + Upto(IoRegions, k, a)
               /\ RamShare(new, a) = RamShare(mem, a)
               /\ Holding(new.io, a) <= Upto(IoRegions, k, a)
    <3>1. /\ Total(old, a) = Total(mem, a) + Upto(IoRegions, k - 1, a)
          /\ RamShare(old, a) = RamShare(mem, a)
          /\ Holding(old.io, a) <= Upto(IoRegions, k - 1, a)
          /\ Total(new, a) = Total(old, a) + In(s, a)
          /\ RamShare(new, a) = RamShare(old, a)
          /\ Holding(new.io, a) <= Holding(old.io, a) + In(s, a)
      BY <2>2, <2>3 DEF IoAdded
    <3>2. Upto(IoRegions, k, a) = Upto(IoRegions, k - 1, a) + In(s, a)
          /\ Upto(IoRegions, k - 1, a) \in Nat
      BY <1>0, UptoFacts
    <3>3. old \in Memory /\ new \in Memory /\ mem \in Memory
      BY <2>2, <2>3 DEF IoAdded, Sound
    <3>4. /\ Total(mem, a) \in Nat /\ Total(old, a) \in Nat /\ Total(new, a) \in Nat
          /\ Holding(old.io, a) \in Nat /\ Holding(new.io, a) \in Nat /\ In(s, a) \in Nat
      BY <3>3, Naturals
    <3> HIDE DEF s, old, new
    <3> QED
      BY <3>1, <3>2, <3>4, SMTT(30)
  <2>5. Sound(new)
    BY <2>3 DEF IoAdded
  <2>6. FromRegions(new.io)
    <3>1. PICK e \in Nat : PlacedAt(old.io, new.io, s, e)
      BY <2>3 DEF IoAdded
    <3>2. Len(old.io) \in Nat /\ Len(new.io) \in Nat
      BY <2>2, <2>3, SMTT(30) DEF IoAdded, Sound, Memory
    <3>3. FromRegions(old.io) /\ k \in 1 .. Len(IoRegions) /\ s = IoRegions[k]
      BY <2>2
    <3> HIDE DEF old, new, s
    <3>4. ASSUME NEW j \in 1 .. Len(new.io)
          PROVE  new.io[j].len = 0 \/ \E r \in 1 .. Len(IoRegions) : new.io[j] = IoRegions[r]
      <4>1. new.io[j] = IF j = e THEN s ELSE IF j <= Len(old.io) THEN old.io[j] ELSE Empty
        BY <3>1 DEF PlacedAt
      <4>2. Empty.len = 0
        BY DEF Empty
      <4>3. j <= Len(old.io) => j \in 1 .. Len(old.io)
        BY <3>2
      <4> QED
        BY <3>3, <4>1, <4>2, <4>3 DEF FromRegions
    <3> QED
      BY <3>4 DEF FromRegions
  <2> QED
    BY <2>4, <2>5, <2>6
<1>4. P(N)
  <2>1. 0 .. N \subseteq T
    <3> HIDE DEF T, N
    <3> QED
      BY <1>0, <1>2, <1>3, EveryTurn
  <2>2. N \in 0 .. N
    BY <1>0
  <2> QED
    BY <2>1, <2>2
<1>5. \A a : Upto(IoRegions, N, a) = Holding(IoRegions, a)
  BY <1>0, UptoFacts
<1> QED
  BY <1>1, <1>4, <1>5

-----------------------------------------------------------------------------
(* init_sections. *)

LEMMA EmptyHolderFacts ==
  /\ EmptyHolder \in Seq(Section) /\ AllFit(EmptyHolder) /\ FromRegions(EmptyHolder)
  /\ Len(EmptyHolder) % NSECTIONS = 0 /\ Len(<<>>) % NSECTIONS = 0
  /\ \A a : Holding(EmptyHolder, a) = 0
<1>1. NSECTIONS \in Nat \ {0} /\ WORD \in Nat \ {0} /\ Empty \in Section
  BY SizesAre, SectionFacts
<1>2. /\ EmptyHolder \in Seq(Section) /\ Len(EmptyHolder) = NSECTIONS
      /\ \A j \in 1 .. NSECTIONS : EmptyHolder[j] = Empty
  BY <1>1 DEF EmptyHolder
<1>3. Fits(Empty) /\ Empty.len = 0
  BY <1>1 DEF Fits, Empty
<1>4. AllFit(EmptyHolder) /\ FromRegions(EmptyHolder)
  BY <1>2, <1>3 DEF AllFit, FromRegions
<1>5. Len(EmptyHolder) % NSECTIONS = 0 /\ Len(<<>>) % NSECTIONS = 0
  <2>1. 0 % NSECTIONS = 0 /\ NSECTIONS % NSECTIONS = 0
    BY <1>1
  <2> QED
    BY <1>2, <2>1
<1>6. ASSUME NEW a PROVE Holding(EmptyHolder, a) = 0
  <2>1. DOMAIN EmptyHolder = 1 .. NSECTIONS
    BY DEF EmptyHolder
  <2>2. a \notin Span(Empty)
    BY HoldsNothing DEF In
  <2>3. Hit(EmptyHolder, a) = {}
    BY <1>2, <2>1, <2>2 DEF Hit
  <2> QED
    BY <1>2, <2>3, HitFinite, FS_EmptySet
<1> QED
  BY <1>2, <1>4, <1>5, <1>6

(* A region of memory is its first page, which is a holder, and the rest.  *)
LEMMA FirstRegion ==
  LET r == RamRegions[1]
      s == [start |-> r.start + PAGE_SIZE, len |-> r.len - PAGE_SIZE]
  IN  /\ Page(r.start) \in Section /\ s \in Section /\ Fits(s)
      /\ s.start \in Word /\ s.len \in Word
      /\ \A a : In(r, a) = In(Page(r.start), a) + In(s, a)
<1> DEFINE r == RamRegions[1]
           x == r.start
           y == r.len
           s == [start |-> x + PAGE_SIZE, len |-> y - PAGE_SIZE]
<1>1. r \in Section /\ x # 0 /\ x + y < WORD /\ y > PAGE_SIZE
      /\ WORD \in Nat /\ PAGE_SIZE \in Nat \ {0} /\ PAGE_SIZE \in Word
  <2>1. 1 \in 1 .. Len(RamRegions)
    BY SizesAre
  <2> QED
    BY <2>1, SizesAre
<1>2. x \in Word /\ y \in Word /\ x \in Nat /\ y \in Nat
  BY <1>1, SectionFacts
<1>3. Span(r) = x .. x + y - 1 /\ Span(Page(x)) = x .. x + PAGE_SIZE - 1
      /\ Span(s) = (x + PAGE_SIZE) .. (x + PAGE_SIZE) + (y - PAGE_SIZE) - 1
      /\ s.start = x + PAGE_SIZE /\ s.len = y - PAGE_SIZE
  BY DEF Span, Page
<1>4. Page(x) \in Section
  BY <1>2, SectionFacts
<1> HIDE DEF x, y
<1>5. x + PAGE_SIZE \in Word /\ y - PAGE_SIZE \in Word
      /\ (x + PAGE_SIZE) + (y - PAGE_SIZE) < WORD /\ x + PAGE_SIZE # 0
  BY <1>1, <1>2 DEF Word
<1>6. s \in Section
  BY <1>5, SectionFacts
<1> HIDE DEF s, r
<1>7. Fits(s)
  BY <1>3, <1>5 DEF Fits
<1>8. ASSUME NEW a PROVE In(r, a) = In(Page(x), a) + In(s, a)
  <2>1. /\ a \in Span(r) <=> a \in Span(Page(x)) \/ a \in Span(s)
        /\ ~ (a \in Span(Page(x)) /\ a \in Span(s))
    BY <1>1, <1>2, <1>3
  <2> QED
    BY <2>1 DEF In
<1> QED
  BY <1>3, <1>4, <1>5, <1>6, <1>7, <1>8 DEF r, s, x, y

LEMMA InitRamFacts ==
  /\ RamSound(InitRam) /\ InitRam.io = <<>>
  /\ \A a : Total(InitRam, a) = Holding(RamRegions, a)
  /\ \A a : RamShare(InitRam, a) <= Holding(RamRegions, a)
<1> DEFINE r == RamRegions[1]
           s == [start |-> r.start + PAGE_SIZE, len |-> r.len - PAGE_SIZE]
           first == [ram |-> EmptyHolder, io |-> <<>>,
                     holders |-> <<Page(r.start)>>, dropped |-> <<>>]
           second == AddrAdd(first, "ram", r.start + PAGE_SIZE, r.len - PAGE_SIZE)
           rest == Tail(RamRegions)
<1>1. RamRegions \in Seq(Section) /\ RamRegions # <<>> /\ Len(RamRegions) \in Nat
  BY SizesAre
<1>2. InitRam = AddRegions(second, "ram", rest)
  <2>1. Head(RamRegions) = r
    BY <1>1
  <2> QED
    BY <2>1 DEF InitRam
<1>3. /\ Page(r.start) \in Section /\ s \in Section /\ Fits(s)
      /\ r.start + PAGE_SIZE \in Word /\ r.len - PAGE_SIZE \in Word
      /\ \A a : In(r, a) = In(Page(r.start), a) + In(s, a)
  BY FirstRegion
<1> DEFINE p == Page(r.start)
<1> HIDE DEF r, p
<1>4. /\ <<p>> \in Seq(Section)
      /\ \A a : Holding(<<p>>, a) = In(p, a)
  <2>1. <<p>> = Append(<<>>, p) /\ <<>> \in Seq(Section)
    OBVIOUS
  <2>2. p \in Section
    BY <1>3 DEF p
  <2>3. ASSUME NEW a PROVE Holding(<<p>>, a) = In(p, a)
    <3>1. Holding(Append(<<>>, p), a) = Holding(<<>>, a) + In(p, a)
      BY <2>1, <2>2, HoldingAppend
    <3>2. In(p, a) \in Nat
      BY DEF In
    <3> QED
      BY <2>1, <3>1, <3>2, HoldsNothing
  <2> QED
    BY <2>2, <2>3
<1>5. /\ first \in Memory /\ first.ram = EmptyHolder /\ first.io = <<>>
      /\ first.holders = <<p>> /\ first.dropped = <<>>
  BY <1>4, EmptyHolderFacts DEF Memory, p
<1>6. RamSound(first)
  <2> HIDE DEF first
  <2> QED
    BY <1>5, EmptyHolderFacts DEF RamSound, Sound
<1>7. RamAdded(first, s, second)
  <2> HIDE DEF first
  <2> QED
    BY <1>3, <1>6, AddRamFacts
<1>8. ASSUME NEW a PROVE Total(second, a) = In(r, a) /\ RamShare(second, a) <= In(r, a)
  <2>1. Total(second, a) = Total(first, a) + In(s, a) /\ RamShare(second, a) <= RamShare(first, a) + In(s, a)
    BY <1>7 DEF RamAdded
  <2>2. /\ Holding(first.ram, a) = 0 /\ Holding(first.io, a) = 0
        /\ Holding(first.holders, a) = In(p, a) /\ Holding(first.dropped, a) = 0
    <3> HIDE DEF first
    <3> QED
      BY <1>4, <1>5, EmptyHolderFacts, HoldsNothing
  <2>3. In(r, a) = In(p, a) + In(s, a) /\ In(p, a) \in Nat /\ In(s, a) \in Nat
    BY <1>3 DEF p, In
  <2>4. Total(first, a) = In(p, a) /\ RamShare(first, a) = In(p, a)
    <3> HIDE DEF first
    <3> QED
      BY <2>2, <2>3 DEF Total, RamShare
  <2> HIDE DEF first, second, s
  <2> QED
    BY <2>1, <2>3, <2>4
<1>9. RamSound(second) /\ second.io = <<>>
  <2> HIDE DEF first, second
  <2> QED
    BY <1>5, <1>7 DEF RamAdded
<1>10. rest \in Seq(Section) /\ \A a : Holding(RamRegions, a) = In(r, a) + Holding(rest, a)
  BY <1>1, HoldingTail DEF r
<1>11. \A i \in 1 .. Len(rest) : Fits(rest[i])
  <2>1. ASSUME NEW i \in 1 .. Len(rest) PROVE Fits(rest[i])
    <3>1. i + 1 \in 1 .. Len(RamRegions) /\ rest[i] = RamRegions[i + 1]
      BY <1>1
    <3> QED
      BY <3>1, SizesAre DEF Fits
  <2> QED
    BY <2>1
<1> HIDE DEF second, rest, first
<1>12. /\ RamSound(InitRam) /\ InitRam.io = second.io
       /\ \A a : Total(InitRam, a) = Total(second, a) + Holding(rest, a)
       /\ \A a : RamShare(InitRam, a) <= RamShare(second, a) + Holding(rest, a)
  BY <1>2, <1>9, <1>10, <1>11, RamLoop
<1>13. ASSUME NEW a
       PROVE  /\ Total(InitRam, a) = Holding(RamRegions, a)
              /\ RamShare(InitRam, a) <= Holding(RamRegions, a)
  <2>1. In(r, a) \in Nat /\ Holding(rest, a) \in Nat
    BY <1>10, HitFinite DEF In
  <2>2. second \in Memory /\ InitRam \in Memory
    BY <1>9, <1>12 DEF RamSound, Sound
  <2>3. RamShare(second, a) \in Nat /\ RamShare(InitRam, a) \in Nat
    BY <2>2, Naturals
  <2>4. /\ Total(InitRam, a) = Total(second, a) + Holding(rest, a)
        /\ RamShare(InitRam, a) <= RamShare(second, a) + Holding(rest, a)
        /\ Total(second, a) = In(r, a) /\ RamShare(second, a) <= In(r, a)
        /\ Holding(RamRegions, a) = In(r, a) + Holding(rest, a)
    BY <1>8, <1>10, <1>12
  <2> QED
    BY <2>1, <2>3, <2>4
<1> QED
  BY <1>9, <1>12, <1>13

LEMMA InitSectionsFacts ==
  /\ Sound(InitSections) /\ FromRegions(InitSections.io)
  /\ \A a : Total(InitSections, a) = Holding(RamRegions, a) + Holding(IoRegions, a)
  /\ \A a : RamShare(InitSections, a) <= Holding(RamRegions, a)
  /\ \A a : Holding(InitSections.io, a) <= Holding(IoRegions, a)
<1> DEFINE h == GetRam(InitRam, PAGE_SIZE)
           holders == Append(InitRam.holders, Page(h.addr))
           mem == [h.mem EXCEPT !.io = EmptyHolder, !.holders = Append(h.mem.holders, Page(h.addr))]
<1>1. /\ RamSound(InitRam) /\ InitRam.io = <<>> /\ InitRam \in Memory
      /\ AllFit(InitRam.ram) /\ InitRam.holders \in Seq(Section)
      /\ Len(InitRam.ram) % NSECTIONS = 0
  BY InitRamFacts DEF RamSound, Sound, Memory
<1>2. h.addr # 0
  BY HolderAssumption DEF nil
<1>3. InitSections = AddRegions(mem, "io", IoRegions)
  BY DEF InitSections
<1>4. h = GetRam(InitRam, PAGE_SIZE)
  OBVIOUS
<1> HIDE DEF h
<1>5. /\ h.mem \in Memory /\ AllFit(h.mem.ram) /\ Len(h.mem.ram) = Len(InitRam.ram)
      /\ h.mem.io = InitRam.io /\ h.mem.holders = InitRam.holders
      /\ h.mem.dropped = InitRam.dropped
      /\ Page(h.addr) \in Section
      /\ Fitting(InitRam.ram, PAGE_SIZE) # {}
      /\ \A a : Holding(h.mem.ram, a) + In(Page(h.addr), a) = Holding(InitRam.ram, a)
  BY <1>1, <1>2, <1>4, HolderFacts
<1>6. InitRam.dropped = <<>>
  BY <1>1, <1>5 DEF RamSound, Sound
<1>7. /\ holders \in Seq(Section)
      /\ \A a : Holding(holders, a) = Holding(InitRam.holders, a) + In(Page(h.addr), a)
  BY <1>1, <1>5, HoldingAppend
<1>8. mem = [h.mem EXCEPT !.io = EmptyHolder, !.holders = holders]
  BY <1>5
<1> HIDE DEF holders, mem
<1>9. /\ mem \in Memory /\ mem.ram = h.mem.ram /\ mem.io = EmptyHolder
      /\ mem.holders = holders /\ mem.dropped = <<>>
  BY <1>5, <1>6, <1>7, <1>8, EmptyHolderFacts DEF Memory
<1>10. Sound(mem) /\ FromRegions(mem.io) /\ \A a : Holding(mem.io, a) = 0
  BY <1>1, <1>5, <1>9, EmptyHolderFacts DEF Sound
<1>11. ASSUME NEW a PROVE Total(mem, a) = Total(InitRam, a) /\ RamShare(mem, a) = RamShare(InitRam, a)
  <2>1. /\ Holding(mem.ram, a) + In(Page(h.addr), a) = Holding(InitRam.ram, a)
        /\ Holding(mem.holders, a) = Holding(InitRam.holders, a) + In(Page(h.addr), a)
        /\ Holding(mem.io, a) = 0 /\ Holding(InitRam.io, a) = 0
        /\ Holding(mem.dropped, a) = 0 /\ Holding(InitRam.dropped, a) = 0
    BY <1>1, <1>5, <1>6, <1>7, <1>9, EmptyHolderFacts, HoldsNothing
  <2>2. /\ Holding(InitRam.ram, a) \in Nat /\ Holding(InitRam.holders, a) \in Nat
        /\ In(Page(h.addr), a) \in Nat /\ Holding(mem.ram, a) \in Nat
    BY <1>1, <1>9, Naturals
  <2> QED
    BY <2>1, <2>2 DEF Total, RamShare
<1>12. /\ Sound(InitSections) /\ FromRegions(InitSections.io)
       /\ \A a : Total(InitSections, a) = Total(mem, a) + Holding(IoRegions, a)
       /\ \A a : RamShare(InitSections, a) = RamShare(mem, a)
       /\ \A a : Holding(InitSections.io, a) <= Holding(IoRegions, a)
  BY <1>3, <1>10, IoLoop
<1> QED
  BY <1>11, <1>12, InitRamFacts

-----------------------------------------------------------------------------
(* What a page or a section taken from ram does to the account.            *)

LEMMA TakenFromRam ==
  ASSUME NEW mem, Sound(mem), NEW len \in Word, len # 0, NEW g, g = GetRam(mem, len)
  PROVE  /\ Sound(g.mem) /\ g.mem.io = mem.io /\ g.addr \in Word
         /\ g.addr = 0 => g.mem = mem
         /\ \A a : RamShare(g.mem, a) <= RamShare(mem, a)
         /\ g.addr # 0 =>
              \A a : /\ Total(g.mem, a) + In([start |-> g.addr, len |-> len], a) = Total(mem, a)
                     /\ RamShare(g.mem, a) + In([start |-> g.addr, len |-> len], a) = RamShare(mem, a)
<1> DEFINE r == GetRam(mem, len)
<1>1. mem \in Memory /\ AllFit(mem.ram)
  BY DEF Sound
<1>2. /\ r.mem \in Memory /\ AllFit(r.mem.ram) /\ Len(r.mem.ram) = Len(mem.ram)
      /\ \A f \in {"io", "holders", "dropped"} : r.mem[f] = mem[f]
      /\ r.addr \in Word
      /\ \A size \in Nat : Fitting(mem.ram, size) = {} => Fitting(r.mem.ram, size) = {}
      /\ r.addr = 0 => r.mem = mem
  BY <1>1, GetRamFacts
<1>3. r.addr # 0 =>
        \A a : Holding(r.mem.ram, a) + In([start |-> r.addr, len |-> len], a) = Holding(mem.ram, a)
  BY <1>1, GetRamFacts
<1>4. g = r
  OBVIOUS
<1>5. g.mem.io = g.mem["io"] /\ g.mem.holders = g.mem["holders"] /\ g.mem.dropped = g.mem["dropped"]
      /\ mem.io = mem["io"] /\ mem.holders = mem["holders"] /\ mem.dropped = mem["dropped"]
  OBVIOUS
<1> HIDE DEF r
<1>6. g.mem.io = mem.io /\ g.mem.holders = mem.holders /\ g.mem.dropped = mem.dropped
  BY <1>2, <1>4, <1>5
<1>7. Sound(g.mem)
  <2>1. PAGE_SIZE \in Nat
    BY SizesAre
  <2> QED
    BY <1>2, <1>4, <1>6, <2>1 DEF Sound
<1>8. ASSUME NEW a
      PROVE  /\ RamShare(g.mem, a) <= RamShare(mem, a)
             /\ g.addr # 0 =>
                  /\ Total(g.mem, a) + In([start |-> g.addr, len |-> len], a) = Total(mem, a)
                  /\ RamShare(g.mem, a) + In([start |-> g.addr, len |-> len], a) = RamShare(mem, a)
  <2>1. /\ Holding(mem.ram, a) \in Nat /\ Holding(mem.io, a) \in Nat
        /\ Holding(mem.holders, a) \in Nat /\ Holding(mem.dropped, a) \in Nat
        /\ Holding(g.mem.ram, a) \in Nat
        /\ In([start |-> g.addr, len |-> len], a) \in Nat
    BY <1>1, <1>2, <1>4, Naturals
  <2>2. CASE g.addr = 0
    BY <1>2, <1>4, <2>1, <2>2 DEF RamShare
  <2>3. CASE g.addr # 0
    <3>1. Holding(g.mem.ram, a) + In([start |-> g.addr, len |-> len], a) = Holding(mem.ram, a)
      BY <1>3, <1>4, <2>3
    <3> QED
      BY <1>6, <2>1, <3>1 DEF RamShare, Total
  <2> QED
    BY <2>2, <2>3
<1> QED
  BY <1>2, <1>4, <1>6, <1>7, <1>8

(* There is room for n bytes more in one section of memory.                *)
Room(mem, n) == \E i \in 1 .. Len(mem.ram) : mem.ram[i].len >= n

(* What becomes of memory when get_ram gave a page, and n bytes of room    *)
(* are left.                                                               *)
PageTaken(mem, g, n) ==
  /\ Sound(g.mem) /\ g.mem.io = mem.io /\ Page(g.addr) \in Section
  /\ Room(g.mem, n)
  /\ \A a : /\ Total(g.mem, a) + In(Page(g.addr), a) = Total(mem, a)
            /\ RamShare(g.mem, a) + In(Page(g.addr), a) = RamShare(mem, a)

LEMMA PageFacts ==
  ASSUME NEW mem, Sound(mem), NEW n \in Nat, Room(mem, n + PAGE_SIZE)
  PROVE  PageTaken(mem, GetRam(mem, PAGE_SIZE), n)
<1> DEFINE g == GetRam(mem, PAGE_SIZE)
<1>0. g = GetRam(mem, PAGE_SIZE)
  OBVIOUS
<1>1. PAGE_SIZE \in Word /\ PAGE_SIZE \in Nat \ {0}
  BY SizesAre
<1>2. /\ mem \in Memory /\ AllFit(mem.ram) /\ mem.ram \in Seq(Section)
      /\ DOMAIN mem.ram = 1 .. Len(mem.ram)
  BY DEF Sound, Memory
<1>3. PICK i \in 1 .. Len(mem.ram) : mem.ram[i].len >= n + PAGE_SIZE
  BY DEF Room
<1>4. \A k \in 1 .. Len(mem.ram) : mem.ram[k].len \in Nat
  <2>1. \A k \in 1 .. Len(mem.ram) : mem.ram[k] \in Section
    BY <1>2
  <2> QED
    BY <2>1, SectionFacts
<1>5. Fitting(mem.ram, PAGE_SIZE) # {}
  BY <1>1, <1>2, <1>3, <1>4 DEF Fitting
<1> HIDE DEF g
<1>6. g.addr # 0
  BY <1>0, <1>1, <1>2, <1>5, GetRamFacts
<1>7. /\ Sound(g.mem) /\ g.mem.io = mem.io /\ g.addr \in Word
      /\ \A a : /\ Total(g.mem, a) + In([start |-> g.addr, len |-> PAGE_SIZE], a) = Total(mem, a)
                /\ RamShare(g.mem, a) + In([start |-> g.addr, len |-> PAGE_SIZE], a) = RamShare(mem, a)
  BY <1>0, <1>1, <1>6, TakenFromRam
<1>8. Room(g.mem, n)
  <2>1. PICK k \in 1 .. Len(mem.ram) :
           g.mem = [mem EXCEPT !.ram = [mem.ram EXCEPT ![k] =
                      [start |-> mem.ram[k].start, len |-> mem.ram[k].len - PAGE_SIZE]]]
    <3>1. \/ /\ Fitting(mem.ram, PAGE_SIZE) = {}
             /\ GetRam(mem, PAGE_SIZE) = [mem |-> mem, addr |-> 0]
          \/ \E k \in 1 .. Len(mem.ram) :
               /\ mem.ram[k].len >= PAGE_SIZE
               /\ GetRam(mem, PAGE_SIZE).addr = mem.ram[k].start + (mem.ram[k].len - PAGE_SIZE)
               /\ GetRam(mem, PAGE_SIZE).mem = [mem EXCEPT !.ram = [mem.ram EXCEPT ![k] =
                    [start |-> mem.ram[k].start, len |-> mem.ram[k].len - PAGE_SIZE]]]
      BY <1>1, <1>2, GetRamCases
    <3> QED
      BY <1>0, <1>5, <3>1
  <2> DEFINE cut == [start |-> mem.ram[k].start, len |-> mem.ram[k].len - PAGE_SIZE]
             list == [mem.ram EXCEPT ![k] = cut]
  <2>2. g.mem.ram = list
    BY <1>2, <2>1 DEF Memory
  <2>3. Len(list) = Len(mem.ram) /\ list[i] = IF i = k THEN cut ELSE mem.ram[i]
    BY <1>2
  <2>4. cut.len = mem.ram[k].len - PAGE_SIZE
    OBVIOUS
  <2> HIDE DEF cut, list
  <2>5. list[i].len >= n
    BY <1>1, <1>3, <1>4, <2>3, <2>4
  <2> QED
    BY <2>2, <2>3, <2>5 DEF Room
<1>9. Page(g.addr) \in Section
  BY <1>7, SectionFacts
<1> QED
  BY <1>0, <1>7, <1>8, <1>9 DEF PageTaken, Page

(* Three pages put to use.                                                 *)
LEMMA HoldingThree ==
  ASSUME NEW list \in Seq(Section), NEW p \in Section, NEW q \in Section, NEW s \in Section
  PROVE  /\ list \o <<p, q, s>> \in Seq(Section)
         /\ \A a : Holding(list \o <<p, q, s>>, a)
                    = Holding(list, a) + In(p, a) + In(q, a) + In(s, a)
<1> DEFINE one == Append(list, p)
           two == Append(one, q)
           all == Append(two, s)
<1>1. list \o <<p, q, s>> = all
  OBVIOUS
<1>2. one \in Seq(Section) /\ \A a : Holding(one, a) = Holding(list, a) + In(p, a)
  BY HoldingAppend
<1> HIDE DEF one
<1>3. two \in Seq(Section) /\ \A a : Holding(two, a) = Holding(one, a) + In(q, a)
  BY <1>2, HoldingAppend
<1> HIDE DEF two
<1>4. all \in Seq(Section) /\ \A a : Holding(all, a) = Holding(two, a) + In(s, a)
  BY <1>3, HoldingAppend
<1> QED
  BY <1>1, <1>2, <1>3, <1>4

-----------------------------------------------------------------------------
(* get_io. *)

LEMMA GetIoCases ==
  ASSUME NEW mem \in Memory, NEW addr, NEW len
  PROVE  \/ /\ \A i \in 1 .. Len(mem.io) : ~ Covers(mem.io[i], addr, len)
            /\ GetIo(mem, addr, len) = [mem |-> mem, addr |-> 0]
         \/ \E i \in 1 .. Len(mem.io) :
              /\ Covers(mem.io[i], addr, len)
              /\ GetIo(mem, addr, len) = [mem |-> Carve(mem, i, addr, len), addr |-> addr]
<1> DEFINE S == {i \in DOMAIN mem.io : Covers(mem.io[i], addr, len)}
<1>1. DOMAIN mem.io = 1 .. Len(mem.io)
  BY DEF Memory
<1>2. GetIo(mem, addr, len) = IF S = {} THEN [mem |-> mem, addr |-> 0]
                              ELSE [mem |-> Carve(mem, First(S), addr, len), addr |-> addr]
  BY DEF GetIo, nil
<1>3. S \subseteq 1 .. Len(mem.io)
  BY <1>1
<1>4. S # {} => First(S) \in S
  <2> HIDE DEF S
  <2> QED
    BY <1>3, FirstFacts
<1>5. S = {} => \A i \in 1 .. Len(mem.io) : ~ Covers(mem.io[i], addr, len)
  BY <1>1
<1>6. \A i \in S : i \in 1 .. Len(mem.io) /\ Covers(mem.io[i], addr, len)
  BY <1>1
<1> HIDE DEF S
<1> QED
  BY <1>2, <1>4, <1>5, <1>6

(* A section of io shortened. *)
Cut(mem, i, len) == [mem EXCEPT !.io[i].len = len]

LEMMA CutFacts ==
  ASSUME NEW mem, Sound(mem), NEW i \in 1 .. Len(mem.io), NEW len \in Word
  PROVE  LET left == [start |-> mem.io[i].start, len |-> len]
             mm   == Cut(mem, i, len)
         IN  /\ Sound(mm) /\ left \in Section /\ mm.io = [mem.io EXCEPT ![i] = left]
             /\ mm.ram = mem.ram /\ mm.holders = mem.holders /\ mm.dropped = mem.dropped
<1> DEFINE left == [start |-> mem.io[i].start, len |-> len]
           io == [mem.io EXCEPT ![i] = left]
           mm == Cut(mem, i, len)
<1>1. mem \in Memory /\ mem.io \in Seq(Section)
  BY DEF Sound, Memory
<1>2. mem.io[i] \in Section
  BY <1>1
<1>3. mem.io[i].start \in Word /\ left \in Section
  BY <1>2, SectionFacts
<1>4. mm = [mem EXCEPT !.io = io]
  <2>1. [mem.io[i] EXCEPT !.len = len] = left
    BY <1>2 DEF Section
  <2> QED
    BY <1>1, <2>1 DEF Cut
<1>5. io \in Seq(Section) /\ Len(io) = Len(mem.io)
  BY <1>1, <1>3
<1> HIDE DEF io, left, mm
<1>6. /\ mm \in Memory /\ mm.io = io /\ mm.ram = mem.ram
      /\ mm.holders = mem.holders /\ mm.dropped = mem.dropped
  BY <1>1, <1>4, <1>5 DEF Memory
<1>7. Sound(mm)
  BY <1>5, <1>6 DEF Sound
<1> QED
  BY <1>3, <1>6, <1>7 DEF io, left, mm

(* Whatever range is taken out, wrapping or not, the lists stay lists and  *)
(* memory in the list or under holders stays there.                        *)
LEMMA CarveSound ==
  ASSUME NEW mem, Sound(mem), NEW i \in 1 .. Len(mem.io), NEW addr \in Word, NEW len \in Word
  PROVE  /\ Sound(Carve(mem, i, addr, len))
         /\ \A a : RamShare(Carve(mem, i, addr, len), a) = RamShare(mem, a)
<1> DEFINE s == mem.io[i]
           start == Plus(addr, len)
           rlen == Minus(Minus(Plus(s.start, s.len), addr), len)
           rest == IF start < Plus(s.start, s.len) THEN AddrAdd(mem, "io", start, rlen) ELSE mem
           cut == Minus(addr, s.start)
<1>1. Carve(mem, i, addr, len) = Cut(rest, i, cut)
  BY DEF Carve, GiveBack, Cut
<1>2. mem \in Memory /\ mem.io \in Seq(Section) /\ Len(mem.io) \in Nat
  BY DEF Sound, Memory
<1>3. s.start \in Word /\ s.len \in Word
  <2>1. s \in Section
    BY <1>2
  <2> QED
    BY <2>1, SectionFacts
<1>4. start \in Word /\ rlen \in Word /\ cut \in Word
  <2>1. Word \subseteq Int
    BY DEF Word
  <2>2. Plus(s.start, s.len) \in Word /\ start \in Word /\ cut \in Word
    BY <1>3, <2>1, NoWrap
  <2>3. Minus(Plus(s.start, s.len), addr) \in Word
    BY <2>1, <2>2, NoWrap
  <2> QED
    BY <2>1, <2>2, <2>3, NoWrap
<1> HIDE DEF start, rlen, cut, s
<1>5. Sound(rest) /\ i \in 1 .. Len(rest.io) /\ \A a : RamShare(rest, a) = RamShare(mem, a)
  <2>1. CASE start < Plus(s.start, s.len)
    <3> DEFINE r == [start |-> start, len |-> rlen]
    <3>1. IoAdded(mem, r, rest)
      <4>1. IoAdded(mem, r, AddrAdd(mem, "io", start, rlen))
        BY <1>4, AddIoFacts
      <4>2. rest = AddrAdd(mem, "io", start, rlen)
        BY <2>1
      <4> HIDE DEF r, rest
      <4> QED
        BY <4>1, <4>2
    <3> HIDE DEF r
    <3>2. Sound(rest) /\ Len(mem.io) <= Len(rest.io) /\ \A a : RamShare(rest, a) = RamShare(mem, a)
      BY <3>1 DEF IoAdded, PlacedAt
    <3>3. Len(rest.io) \in Nat
      BY <3>2 DEF Sound, Memory
    <3> HIDE DEF rest
    <3> QED
      BY <1>2, <3>2, <3>3
  <2>2. CASE ~ (start < Plus(s.start, s.len))
    BY <2>2
  <2> QED
    BY <2>1, <2>2
<1> HIDE DEF rest
<1>6. /\ Sound(Cut(rest, i, cut))
      /\ Cut(rest, i, cut).ram = rest.ram /\ Cut(rest, i, cut).holders = rest.holders
  BY <1>4, <1>5, CutFacts
<1>7. \A a : RamShare(Cut(rest, i, cut), a) = RamShare(rest, a)
  BY <1>6 DEF RamShare
<1> QED
  BY <1>1, <1>5, <1>6, <1>7

(* No part of a device's registers that is one in the kernel page ends up  *)
(* in two sections: both addresses are in one region and in no other.      *)
Sole(r, b) == b \in Span(IoRegions[r]) /\ Holding(IoRegions, b) = 1

InOnePiece(list) ==
  \A r \in 1 .. Len(IoRegions), b \in Word :
    Sole(r, b) /\ Sole(r, b + 1) =>
      \A i, j \in 1 .. Len(list) : b \in Span(list[i]) /\ b + 1 \in Span(list[j]) => i = j

(* A range that reaches no end of the addresses: what follows it goes to   *)
(* another section.                                                        *)
LEMMA CarveCases ==
  ASSUME NEW mem, Sound(mem), AllFit(mem.io), NEW k \in 1 .. Len(mem.io),
         NEW addr \in Word, NEW len \in Word, len # 0, addr + len < WORD,
         Covers(mem.io[k], addr, len)
  PROVE  LET s     == mem.io[k]
             right == [start |-> addr + len, len |-> s.start + s.len - (addr + len)]
             left  == [start |-> s.start, len |-> addr - s.start]
             mm    == Carve(mem, k, addr, len)
         IN  /\ s.start <= addr /\ addr + len <= s.start + s.len
             /\ left \in Section /\ right \in Section
             /\ \E rest, e :
                  /\ e \in Nat \ {k} /\ IoAdded(mem, right, rest)
                  /\ PlacedAt(mem.io, rest.io, right, e)
                  /\ Sound(mm)
                  /\ mm.io = [rest.io EXCEPT ![k] = left] /\ rest.io[k] = s
                  /\ mm.ram = rest.ram /\ mm.holders = rest.holders /\ mm.dropped = rest.dropped
<1> DEFINE s == mem.io[k]
           x == s.start
           y == s.len
           right == [start |-> addr + len, len |-> x + y - (addr + len)]
           left == [start |-> x, len |-> addr - x]
           mm == Carve(mem, k, addr, len)
           start == Plus(addr, len)
           rlen == Minus(Minus(Plus(x, y), addr), len)
           rest == IF start < Plus(x, y) THEN AddrAdd(mem, "io", start, rlen) ELSE mem
           cut == Minus(addr, x)
<1>1. mm = Cut(rest, k, cut)
  BY DEF Carve, GiveBack, Cut
<1>2. mem \in Memory /\ mem.io \in Seq(Section) /\ Len(mem.io) \in Nat
  BY DEF Sound, Memory
<1>3. s \in Section /\ Fits(s)
  BY <1>2 DEF AllFit
<1>4. /\ x \in Word /\ y \in Word /\ x \in Nat /\ y \in Nat /\ x + y < WORD /\ s = [start |-> x, len |-> y]
      /\ addr \in Nat /\ len \in Nat /\ WORD \in Nat
  BY <1>3, SectionFacts, SizesAre DEF Fits, Word
<1>5. x <= addr /\ Plus(addr, len) <= Plus(x, y)
  BY DEF Covers
<1> HIDE DEF x, y
<1>6. Plus(addr, len) = addr + len /\ Plus(x, y) = x + y
  BY <1>4, NoWrap
<1>7. x <= addr /\ addr + len <= x + y
  BY <1>5, <1>6
<1>8. start = addr + len /\ rlen = x + y - (addr + len) /\ cut = addr - x
  <2>1. Minus(x + y, addr) = x + y - addr
    BY <1>4, <1>7, NoWrap
  <2>2. x + y - addr \in Nat /\ len <= x + y - addr /\ x + y - addr < WORD
    BY <1>4, <1>7
  <2>3. Minus(x + y - addr, len) = (x + y - addr) - len
    BY <1>4, <2>2, NoWrap
  <2>4. Minus(addr, x) = addr - x
    BY <1>4, <1>7, NoWrap
  <2> QED
    BY <1>4, <1>6, <2>1, <2>3, <2>4
<1>9. start \in Word /\ rlen \in Word /\ cut \in Word /\ y # 0
  BY <1>4, <1>7, <1>8 DEF Word
<1>10. right \in Section /\ left \in Section /\ right = [start |-> start, len |-> rlen]
       /\ left = [start |-> x, len |-> cut]
  BY <1>4, <1>8, <1>9, SectionFacts
<1> HIDE DEF start, rlen, cut
<1>11. IoAdded(mem, right, rest) /\ \E e \in Nat : PlacedAt(mem.io, rest.io, right, e)
  <2>1. CASE start < Plus(x, y)
    <3>1. IoAdded(mem, [start |-> start, len |-> rlen], AddrAdd(mem, "io", start, rlen))
      BY <1>9, AddIoFacts
    <3>2. rest = AddrAdd(mem, "io", start, rlen)
      BY <2>1
    <3> HIDE DEF right, rest
    <3>3. IoAdded(mem, right, rest)
      BY <1>10, <3>1, <3>2
    <3> QED
      BY <3>3 DEF IoAdded
  <2>2. CASE ~ (start < Plus(x, y))
    <3>1. rest = mem
      BY <2>2
    <3>2. right.len = 0
      BY <1>4, <1>6, <1>7, <1>8, <2>2
    <3> HIDE DEF right, rest
    <3>3. \A a : In(right, a) = 0
      BY <1>10, <3>2, HoldsNothing
    <3>4. \A a : Total(mem, a) \in Nat /\ Holding(mem.io, a) \in Nat
      BY <1>2, Naturals
    <3>5. PlacedAt(mem.io, mem.io, right, 0)
      <4>1. \A j \in 1 .. Len(mem.io) : j <= Len(mem.io) /\ j # 0
        BY <1>2
      <4>2. Len(mem.io) <= Len(mem.io) /\ 0 \notin 1 .. Len(mem.io)
        BY <1>2
      <4> QED
        BY <4>1, <4>2 DEF PlacedAt
    <3>6. 0 \in Nat
      OBVIOUS
    <3> QED
      BY <3>1, <3>3, <3>4, <3>5, <3>6 DEF IoAdded
  <2> QED
    BY <2>1, <2>2
<1>12. PICK e \in Nat : PlacedAt(mem.io, rest.io, right, e)
  BY <1>11
<1> HIDE DEF rest, right
<1>13. e # k
  <2>1. e = k => mem.io[k].len = 0
    BY <1>12 DEF PlacedAt
  <2> QED
    BY <1>9, <2>1 DEF y
<1>14. k \in 1 .. Len(rest.io) /\ rest.io[k] = s /\ Sound(rest)
  <2>1. Sound(rest) /\ Len(mem.io) <= Len(rest.io)
    BY <1>11, <1>12 DEF IoAdded, PlacedAt
  <2>2. Len(rest.io) \in Nat
    BY <2>1 DEF Sound, Memory
  <2>3. k \in 1 .. Len(rest.io) /\ k <= Len(mem.io)
    BY <1>2, <2>1, <2>2
  <2> QED
    BY <1>12, <1>13, <2>1, <2>3 DEF PlacedAt
<1>15. /\ Sound(mm) /\ mm.io = [rest.io EXCEPT ![k] = left]
       /\ mm.ram = rest.ram /\ mm.holders = rest.holders /\ mm.dropped = rest.dropped
  <2>1. rest.io[k].start = x
    BY <1>14 DEF x
  <2> HIDE DEF mm, s, left
  <2> QED
    BY <1>1, <1>9, <1>10, <1>14, <2>1, CutFacts
<1> HIDE DEF mm, left
<1>16. \E q, f : /\ f \in Nat \ {k} /\ IoAdded(mem, right, q)
                 /\ PlacedAt(mem.io, q.io, right, f)
                 /\ Sound(mm)
                 /\ mm.io = [q.io EXCEPT ![k] = left] /\ q.io[k] = s
                 /\ mm.ram = q.ram /\ mm.holders = q.holders /\ mm.dropped = q.dropped
  BY <1>11, <1>12, <1>13, <1>14, <1>15
<1> QED
  BY <1>7, <1>10, <1>16 DEF mm, left, right, x, y

LEMMA CarveFacts ==
  ASSUME NEW mem, Sound(mem), AllFit(mem.io), NEW k \in 1 .. Len(mem.io),
         NEW addr \in Word, NEW len \in Word, len # 0, addr + len < WORD,
         Covers(mem.io[k], addr, len)
  PROVE  LET mm == Carve(mem, k, addr, len)
         IN  /\ Sound(mm) /\ AllFit(mm.io)
             /\ \A a : Total(mm, a) + In([start |-> addr, len |-> len], a) = Total(mem, a)
             /\ \A a : RamShare(mm, a) = RamShare(mem, a)
             /\ \A a : Holding(mm.io, a) <= Holding(mem.io, a)
             /\ InOnePiece(mem.io) => InOnePiece(mm.io)
<1> DEFINE s == mem.io[k]
           x == s.start
           y == s.len
           right == [start |-> addr + len, len |-> x + y - (addr + len)]
           mid == [start |-> addr, len |-> len]
           left == [start |-> x, len |-> addr - x]
           mm == Carve(mem, k, addr, len)
<1>1. /\ x <= addr /\ addr + len <= x + y
      /\ left \in Section /\ right \in Section
      /\ \E rest, e :
           /\ e \in Nat \ {k} /\ IoAdded(mem, right, rest)
           /\ PlacedAt(mem.io, rest.io, right, e)
           /\ Sound(mm)
           /\ mm.io = [rest.io EXCEPT ![k] = left] /\ rest.io[k] = s
           /\ mm.ram = rest.ram /\ mm.holders = rest.holders /\ mm.dropped = rest.dropped
  BY CarveCases
<1>2. PICK rest, e :
           /\ e \in Nat \ {k} /\ IoAdded(mem, right, rest)
           /\ PlacedAt(mem.io, rest.io, right, e)
           /\ Sound(mm)
           /\ mm.io = [rest.io EXCEPT ![k] = left] /\ rest.io[k] = s
           /\ mm.ram = rest.ram /\ mm.holders = rest.holders /\ mm.dropped = rest.dropped
  BY <1>1
<1>3. /\ mem \in Memory /\ mem.io \in Seq(Section) /\ Len(mem.io) \in Nat
      /\ s \in Section /\ Fits(s)
  BY DEF Sound, Memory, AllFit
<1>4. /\ x \in Nat /\ y \in Nat /\ x + y < WORD /\ s = [start |-> x, len |-> y]
      /\ addr \in Nat /\ len \in Nat /\ WORD \in Nat /\ (y # 0 => x # 0)
  BY <1>3, SectionFacts, SizesAre DEF Fits, Word
<1>5. /\ left.start = x /\ left.len = addr - x /\ right.start = addr + len
      /\ right.len = x + y - (addr + len) /\ mid.start = addr /\ mid.len = len
  OBVIOUS
<1>6. /\ Span(s) = x .. x + y - 1 /\ Span(left) = x .. addr - 1
      /\ Span(mid) = addr .. addr + len - 1 /\ Span(right) = addr + len .. x + y - 1
  <2> HIDE DEF left, mid, right, x, y
  <2>1. x + (addr - x) - 1 = addr - 1
        /\ (addr + len) + (x + y - (addr + len)) - 1 = x + y - 1
    BY <1>4
  <2> QED
    BY <1>4, <1>5, <2>1 DEF Span, x, y
<1>7. k \in 1 .. Len(rest.io) /\ rest.io \in Seq(Section) /\ Len(rest.io) \in Nat
      /\ Len(mem.io) <= Len(rest.io) /\ rest \in Memory
  <2>1. Sound(rest) /\ Len(mem.io) <= Len(rest.io)
    BY <1>2 DEF IoAdded, PlacedAt
  <2>2. rest.io \in Seq(Section) /\ Len(rest.io) \in Nat /\ rest \in Memory
    BY <2>1 DEF Sound, Memory
  <2> QED
    BY <1>3, <2>1, <2>2
<1>8. mm \in Memory
  BY <1>2 DEF Sound
<1> HIDE DEF mm, left, right, mid, x, y, s
<1>9. ASSUME NEW a
      PROVE  /\ Total(mm, a) + In(mid, a) = Total(mem, a)
             /\ RamShare(mm, a) = RamShare(mem, a)
             /\ Holding(mm.io, a) <= Holding(mem.io, a)
  <2>1. Holding(mm.io, a) + In(s, a) = Holding(rest.io, a) + In(left, a)
    BY <1>1, <1>2, <1>7, HoldingPut
  <2>2. In(s, a) = In(left, a) + In(mid, a) + In(right, a)
    <3>1. /\ a \in Span(s) <=> (a \in Span(left) \/ a \in Span(mid) \/ a \in Span(right))
          /\ ~ (a \in Span(left) /\ a \in Span(mid))
          /\ ~ (a \in Span(left) /\ a \in Span(right))
          /\ ~ (a \in Span(mid) /\ a \in Span(right))
      BY <1>1, <1>4, <1>6
    <3> QED
      BY <3>1 DEF In
  <2>3. /\ Total(rest, a) = Total(mem, a) + In(right, a)
        /\ RamShare(rest, a) = RamShare(mem, a)
        /\ Holding(rest.io, a) <= Holding(mem.io, a) + In(right, a)
    BY <1>2 DEF IoAdded
  <2>4. /\ Holding(mm.ram, a) = Holding(rest.ram, a)
        /\ Holding(mm.holders, a) = Holding(rest.holders, a)
        /\ Holding(mm.dropped, a) = Holding(rest.dropped, a)
    BY <1>2
  <2>5. /\ Holding(rest.ram, a) \in Nat /\ Holding(rest.io, a) \in Nat
        /\ Holding(rest.holders, a) \in Nat /\ Holding(rest.dropped, a) \in Nat
        /\ In(s, a) \in Nat /\ In(left, a) \in Nat /\ In(mid, a) \in Nat /\ In(right, a) \in Nat
    BY <1>7, Naturals
  <2>6. Total(mem, a) \in Nat /\ Holding(mem.io, a) \in Nat /\ Holding(mm.io, a) \in Nat
    BY <1>3, <1>8, Naturals
  <2>7. Total(mm, a) + Holding(rest.io, a) = Total(rest, a) + Holding(mm.io, a)
    BY <2>4, <2>5, <2>6, SMTT(30) DEF Total
  <2>8. RamShare(mm, a) = RamShare(rest, a)
    BY <2>4 DEF RamShare
  <2>9. Total(mm, a) \in Nat /\ Total(rest, a) \in Nat
    BY <1>7, <1>8, Naturals
  <2>10. /\ In(s, a) \in Nat /\ In(left, a) \in Nat /\ In(mid, a) \in Nat /\ In(right, a) \in Nat
         /\ Holding(rest.io, a) \in Nat
    BY <2>5
  <2>11. Total(mm, a) + In(mid, a) = Total(mem, a)
    <3>1. Total(rest, a) = Total(mem, a) + In(right, a)
      BY <2>3
    <3>2. Holding(mm.io, a) + In(mid, a) + In(right, a) = Holding(rest.io, a)
      <4> DEFINE h1 == Holding(mm.io, a)
                 h3 == Holding(rest.io, a)
                 b == In(s, a)
                 l == In(left, a)
                 c == In(mid, a)
                 d == In(right, a)
      <4>1. /\ h1 + b = h3 + l /\ b = l + c + d
            /\ h1 \in Nat /\ h3 \in Nat /\ b \in Nat /\ l \in Nat /\ c \in Nat /\ d \in Nat
        BY <2>1, <2>2, <2>6, <2>10
      <4> HIDE DEF h1, h3, b, l, c, d
      <4>2. h1 + c + d = h3
        BY <4>1
      <4> QED
        BY <4>2 DEF h1, h3, c, d
    <3> DEFINE t1 == Total(mm, a)
               t2 == Total(mem, a)
               t3 == Total(rest, a)
               h1 == Holding(mm.io, a)
               h3 == Holding(rest.io, a)
               c  == In(mid, a)
               d  == In(right, a)
    <3>3. /\ t3 = t2 + d /\ h1 + c + d = h3 /\ t1 + h3 = t3 + h1
          /\ t1 \in Nat /\ t2 \in Nat /\ t3 \in Nat
          /\ h1 \in Nat /\ h3 \in Nat /\ c \in Nat /\ d \in Nat
      BY <2>6, <2>7, <2>9, <2>10, <3>1, <3>2
    <3> HIDE DEF t1, t2, t3, h1, h3, c, d
    <3>4. t1 + c = t2
      BY <3>3
    <3> QED
      BY <3>4 DEF t1, t2, c
  <2>12. Holding(mm.io, a) <= Holding(mem.io, a)
    <3>1. Holding(rest.io, a) <= Holding(mem.io, a) + In(right, a)
      BY <2>3
    <3> QED
      BY <2>1, <2>2, <2>6, <2>10, <3>1
  <2> QED
    BY <2>3, <2>8, <2>11, <2>12
<1>10. /\ Len(mm.io) = Len(rest.io)
       /\ \A j \in 1 .. Len(rest.io) :
            mm.io[j] = IF j = k THEN left ELSE IF j = e THEN right
                       ELSE IF j <= Len(mem.io) THEN mem.io[j] ELSE Empty
  <2>1. /\ Len(mm.io) = Len(rest.io)
        /\ \A j \in 1 .. Len(rest.io) : mm.io[j] = IF j = k THEN left ELSE rest.io[j]
    BY <1>2, <1>7
  <2> QED
    BY <1>2, <2>1 DEF PlacedAt
<1>11. AllFit(mm.io)
  <2>1. Fits(left) /\ Fits(right) /\ Fits(Empty)
    <3>1. x + (addr - x) < WORD /\ addr + len + (x + y - (addr + len)) < WORD
          /\ (addr - x # 0 => x # 0) /\ addr + len # 0
      BY <1>1, <1>4
    <3> QED
      BY <1>4, <1>5, <3>1, SizesAre DEF Fits, Empty
  <2>2. \A j \in 1 .. Len(rest.io) : j <= Len(mem.io) => Fits(mem.io[j])
    BY <1>3, <1>7 DEF AllFit
  <2> QED
    BY <1>10, <2>1, <2>2 DEF AllFit
<1>12. ASSUME InOnePiece(mem.io) PROVE InOnePiece(mm.io)
  <2>1. SUFFICES ASSUME NEW r \in 1 .. Len(IoRegions), NEW b \in Word,
                        Sole(r, b), Sole(r, b + 1),
                        NEW i \in 1 .. Len(mm.io), NEW j \in 1 .. Len(mm.io),
                        b \in Span(mm.io[i]), b + 1 \in Span(mm.io[j])
                 PROVE  i = j
    BY DEF InOnePiece
  <2> DEFINE Home(n) == IF n = e THEN k ELSE n
  <2>2. b \in Nat
    BY <1>4, <2>1 DEF Word
  <2>3. ASSUME NEW n \in 1 .. Len(mm.io), NEW c \in Nat, c \in Span(mm.io[n])
        PROVE  /\ Home(n) \in 1 .. Len(mem.io) /\ c \in Span(mem.io[Home(n)])
               /\ n = k => c < addr
               /\ n = e => c >= addr + len
    <3>1. CASE n = k
      <4>1. c \in Span(left) /\ Home(n) = k
        BY <1>2, <1>10, <2>3, <3>1
      <4>2. c \in Span(s) /\ c < addr
        BY <1>1, <1>4, <1>6, <4>1
      <4> QED
        BY <1>2, <3>1, <4>1, <4>2 DEF s
    <3>2. CASE n = e
      <4>1. c \in Span(right) /\ Home(n) = k
        BY <1>2, <1>10, <2>3, <3>2
      <4>2. c \in Span(s) /\ c >= addr + len
        BY <1>1, <1>4, <1>6, <4>1
      <4> QED
        BY <1>2, <3>2, <4>1, <4>2 DEF s
    <3>3. CASE n # k /\ n # e
      <4>1. mm.io[n] = IF n <= Len(mem.io) THEN mem.io[n] ELSE Empty
        BY <1>10, <2>3, <3>3
      <4>2. c \notin Span(Empty)
        BY HoldsNothing DEF In
      <4>3. n <= Len(mem.io) /\ c \in Span(mem.io[n])
        BY <2>3, <4>1, <4>2
      <4>4. n \in 1 .. Len(mem.io)
        BY <1>3, <1>7, <1>10, <4>3
      <4> QED
        BY <3>3, <4>3, <4>4
    <3> QED
      BY <3>1, <3>2, <3>3
  <2>4. /\ Home(i) \in 1 .. Len(mem.io) /\ b \in Span(mem.io[Home(i)])
        /\ i = k => b < addr
        /\ i = e => b >= addr + len
    BY <2>1, <2>2, <2>3
  <2>5. /\ Home(j) \in 1 .. Len(mem.io) /\ b + 1 \in Span(mem.io[Home(j)])
        /\ j = k => b + 1 < addr
        /\ j = e => b + 1 >= addr + len
    <3>1. b + 1 \in Nat
      BY <2>2
    <3> HIDE DEF Home
    <3> QED
      BY <2>1, <2>3, <3>1
  <2>6. Home(i) = Home(j)
    <3> HIDE DEF Home
    <3> QED
      BY <1>12, <2>1, <2>4, <2>5 DEF InOnePiece
  <2>7. ~ (i = k /\ j = e) /\ ~ (i = e /\ j = k)
    BY <1>4, <2>2, <2>4, <2>5
  <2> QED
    BY <2>6, <2>7
<1> QED
  BY <1>2, <1>9, <1>11, <1>12 DEF mm, mid

-----------------------------------------------------------------------------
(* The invariant. *)

(* Memory that is free, under a holder or in use for a program never       *)
(* exceeds the regions of memory in the kernel page ...                    *)
InUse == \A a : RamShare(m, a) + Holding(started, a) <= Holding(RamRegions, a)

(* ... nor do the registers that are free those of registers.              *)
Shares == \A a : Holding(m.io, a) <= Holding(IoRegions, a)

AllAccounted ==
  \A a : Total(m, a) + Holding(started, a) + Holding(given, a) + Holding(leaked, a)
           = Holding(RamRegions, a) + Holding(IoRegions, a)

(* While programs are started, there is memory for those to come.          *)
RoomToStart ==
  programs < Programs => Room(m, 3 * (Programs - programs) * PAGE_SIZE)

SectionsInv ==
  /\ TypeOK
  /\ Sound(m)
  /\ InUse
  /\ RoomToStart
  /\ ~wrapped => AllFit(m.io) /\ AllAccounted /\ Shares /\ InOnePiece(m.io)

(* Where every section of io is a region, as at the start, a part that one *)
(* region alone has is in one piece.                                       *)
LEMMA RegionsWhole ==
  ASSUME NEW list \in Seq(Section), FromRegions(list),
         \A a : Holding(list, a) <= Holding(IoRegions, a)
  PROVE  AllFit(list) /\ InOnePiece(list)
<1>1. /\ IoRegions \in Seq(Section) /\ DOMAIN IoRegions = 1 .. Len(IoRegions)
      /\ \A r \in 1 .. Len(IoRegions) : Fits(IoRegions[r])
      /\ WORD \in Nat \ {0}
  BY SizesAre DEF Fits
<1>2. DOMAIN list = 1 .. Len(list) /\ \A j \in 1 .. Len(list) : list[j] \in Section
  OBVIOUS
<1>3. ASSUME NEW j \in 1 .. Len(list) PROVE Fits(list[j])
  <2>1. CASE list[j].len = 0
    <3>1. list[j].start \in Word /\ list[j].start \in Nat
      BY <1>2, SectionFacts
    <3> QED
      BY <1>1, <2>1, <3>1 DEF Fits, Word
  <2>2. CASE \E r \in 1 .. Len(IoRegions) : list[j] = IoRegions[r]
    BY <1>1, <2>2
  <2> QED
    BY <2>1, <2>2 DEF FromRegions
(* Whoever holds an address that one region alone has is that region.      *)
<1>4. ASSUME NEW r \in 1 .. Len(IoRegions), NEW b, Sole(r, b),
             NEW j \in 1 .. Len(list), b \in Span(list[j])
      PROVE  list[j] = IoRegions[r]
  <2>1. list[j].len # 0
    BY <1>2, <1>4, HoldsNothing DEF In
  <2>2. PICK q \in 1 .. Len(IoRegions) : list[j] = IoRegions[q]
    BY <2>1 DEF FromRegions
  <2>3. r \in Hit(IoRegions, b) /\ q \in Hit(IoRegions, b)
    BY <1>1, <1>4, <2>2 DEF Hit, Sole
  <2>4. IsFiniteSet(Hit(IoRegions, b)) /\ Cardinality(Hit(IoRegions, b)) = 1
    BY <1>1, <1>4, HitFinite DEF Sole
  <2>5. q = r
    BY <2>3, <2>4, OnlyOne
  <2> QED
    BY <2>2, <2>5
<1>5. ASSUME NEW r \in 1 .. Len(IoRegions), NEW b \in Word, Sole(r, b), Sole(r, b + 1),
             NEW i \in 1 .. Len(list), NEW j \in 1 .. Len(list),
             b \in Span(list[i]), b + 1 \in Span(list[j])
      PROVE  i = j
  <2>1. list[i] = IoRegions[r] /\ list[j] = IoRegions[r]
    BY <1>4, <1>5
  <2>2. i \in Hit(list, b) /\ j \in Hit(list, b)
    BY <1>2, <1>5, <2>1 DEF Hit
  <2>3. /\ IsFiniteSet(Hit(list, b))
        /\ Cardinality(Hit(list, b)) = Holding(list, b)
        /\ Holding(list, b) \in Nat
        /\ Holding(list, b) <= 1 /\ Holding(list, b) > 0
    <3>1. Holding(list, b) <= Holding(IoRegions, b) /\ Holding(IoRegions, b) = 1
      BY <1>5 DEF Sole
    <3> QED
      BY <1>2, <1>5, <3>1, HitFinite
  <2>4. Cardinality(Hit(list, b)) = 1
    BY <2>3
  <2> QED
    BY <2>2, <2>3, <2>4, OnlyOne
<1> QED
  BY <1>3, <1>5 DEF AllFit, InOnePiece

LEMMA SectionsInitInv == Init => SectionsInv
<1> SUFFICES ASSUME Init PROVE SectionsInv
  OBVIOUS
<1>1. /\ m = InitSections /\ started = <<>> /\ given = <<>> /\ leaked = <<>>
      /\ programs = 0 /\ requests = 0 /\ wrapped = FALSE
  BY DEF Init
<1>2. Sound(m) /\ m \in Memory /\ m.io \in Seq(Section)
  BY <1>1, InitSectionsFacts DEF Sound, Memory
<1>3. TypeOK
  <2>1. Programs \in Nat /\ MAX_REQUESTS \in Nat
    BY SectionsAssumption
  <2>2. 0 \in 0 .. Programs /\ 0 \in 0 .. MAX_REQUESTS
    BY <2>1
  <2>3. <<>> \in Seq(Section) /\ FALSE \in BOOLEAN
    OBVIOUS
  <2>4. Len(m.ram) % NSECTIONS = 0 /\ Len(m.io) % NSECTIONS = 0
    BY <1>2 DEF Sound
  <2>5. /\ started \in Seq(Section) /\ given \in Seq(Section) /\ leaked \in Seq(Section)
        /\ wrapped \in BOOLEAN
        /\ programs \in 0 .. Programs /\ requests \in 0 .. MAX_REQUESTS
    BY <1>1, <2>2, <2>3
  <2> QED
    BY <1>2, <2>4, <2>5 DEF TypeOK
<1>4. AllFit(m.io) /\ InOnePiece(m.io)
  BY <1>1, <1>2, InitSectionsFacts, RegionsWhole
<1>5. Shares
  BY <1>1, InitSectionsFacts DEF Shares
<1>6. AllAccounted
  <2>1. \A a : /\ Holding(started, a) = 0 /\ Holding(given, a) = 0
              /\ Holding(leaked, a) = 0 /\ Total(m, a) \in Nat
    BY <1>1, <1>2, HoldsNothing, Naturals
  <2>2. \A a : Total(m, a) = Holding(RamRegions, a) + Holding(IoRegions, a)
    BY <1>1, InitSectionsFacts
  <2> QED
    BY <2>1, <2>2 DEF AllAccounted
<1>7. InUse
  <2>1. \A a : Holding(started, a) = 0 /\ RamShare(m, a) \in Nat
    BY <1>1, <1>2, HoldsNothing, Naturals
  <2> QED
    BY <1>1, <2>1, InitSectionsFacts DEF InUse
<1>8. RoomToStart
  <2>1. Programs \in Nat /\ Programs - programs = Programs
    BY <1>1, SectionsAssumption
  <2>2. DOMAIN m.ram = 1 .. Len(m.ram)
    BY <1>2 DEF Memory
  <2> QED
    BY <1>1, <2>1, <2>2, StartAssumption DEF RoomToStart, Room
<1> QED
  BY <1>2, <1>3, <1>4, <1>5, <1>6, <1>7, <1>8 DEF SectionsInv

LEMMA StartProgramInv ==
  ASSUME SectionsInv, start_program
  PROVE  SectionsInv'
<1> DEFINE page == GetRam(m, PAGE_SIZE)
           space == GetRam(page.mem, PAGE_SIZE)
           stack == GetRam(space.mem, PAGE_SIZE)
           n == 3 * (Programs - (programs + 1)) * PAGE_SIZE
<1>1. /\ Sound(m) /\ m \in Memory /\ started \in Seq(Section) /\ given \in Seq(Section)
      /\ leaked \in Seq(Section) /\ programs \in 0 .. Programs
      /\ requests \in 0 .. MAX_REQUESTS /\ wrapped \in BOOLEAN
  BY DEF SectionsInv, TypeOK
<1>2. /\ m' = stack.mem
      /\ started' = started \o <<Page(page.addr), Page(space.addr), Page(stack.addr)>>
      /\ programs < Programs /\ programs' = programs + 1
      /\ UNCHANGED <<given, leaked, requests, wrapped>>
  BY DEF start_program
<1>3. PAGE_SIZE \in Nat \ {0} /\ Programs \in Nat /\ programs \in Nat
  BY <1>1, SizesAre, SectionsAssumption
<1>4. n \in Nat /\ Room(m, ((n + PAGE_SIZE) + PAGE_SIZE) + PAGE_SIZE)
  <2> DEFINE k == Programs - (programs + 1)
  <2>1. k \in Nat /\ Programs - programs = k + 1
    BY <1>2, <1>3
  <2>2. n = 3 * k * PAGE_SIZE
    OBVIOUS
  <2> HIDE DEF k, n
  <2>3. 3 * (k + 1) * PAGE_SIZE = ((n + PAGE_SIZE) + PAGE_SIZE) + PAGE_SIZE /\ n \in Nat
    BY <1>3, <2>1, <2>2
  <2>4. Room(m, 3 * (Programs - programs) * PAGE_SIZE)
    BY <1>2 DEF SectionsInv, RoomToStart
  <2>5. 3 * (Programs - programs) * PAGE_SIZE = 3 * (k + 1) * PAGE_SIZE
    BY <2>1
  <2> QED
    BY <2>3, <2>4, <2>5, Zenon
<1>5. /\ page = GetRam(m, PAGE_SIZE) /\ space = GetRam(page.mem, PAGE_SIZE)
      /\ stack = GetRam(space.mem, PAGE_SIZE)
      /\ n = 3 * (Programs - (programs + 1)) * PAGE_SIZE
  OBVIOUS
<1> HIDE DEF page, space, stack, n
<1>6. PageTaken(m, page, (n + PAGE_SIZE) + PAGE_SIZE)
  <2>1. (n + PAGE_SIZE) + PAGE_SIZE \in Nat
    BY <1>3, <1>4
  <2> QED
    BY <1>1, <1>4, <1>5, <2>1, PageFacts
<1>7. PageTaken(page.mem, space, n + PAGE_SIZE)
  <2>1. Sound(page.mem) /\ Room(page.mem, (n + PAGE_SIZE) + PAGE_SIZE)
    BY <1>6 DEF PageTaken
  <2>2. n + PAGE_SIZE \in Nat
    BY <1>3, <1>4
  <2> QED
    BY <1>5, <2>1, <2>2, PageFacts
<1>8. PageTaken(space.mem, stack, n)
  <2>1. Sound(space.mem) /\ Room(space.mem, n + PAGE_SIZE)
    BY <1>7 DEF PageTaken
  <2> QED
    BY <1>4, <1>5, <2>1, PageFacts
<1>9. /\ Sound(m') /\ m' \in Memory /\ m'.io = m.io
      /\ page.mem \in Memory /\ space.mem \in Memory
      /\ Page(page.addr) \in Section /\ Page(space.addr) \in Section
      /\ Page(stack.addr) \in Section
  BY <1>2, <1>6, <1>7, <1>8 DEF PageTaken, Sound
<1> DEFINE Taken(a) == In(Page(page.addr), a) + In(Page(space.addr), a) + In(Page(stack.addr), a)
<1>10. /\ started' \in Seq(Section)
       /\ \A a : Holding(started', a) = Holding(started, a) + Taken(a)
  <2>1. \A a : Holding(started, a) \in Nat
    BY <1>1, HitFinite
  <2>2. \A s, a : In(s, a) \in Nat
    BY DEF In
  <2>3. /\ started' \in Seq(Section)
        /\ \A a : Holding(started', a) = Holding(started, a) + In(Page(page.addr), a)
                   + In(Page(space.addr), a) + In(Page(stack.addr), a)
    BY <1>1, <1>2, <1>9, HoldingThree
  <2> QED
    BY <2>1, <2>2, <2>3
<1>11. \A a : /\ Taken(a) \in Nat
             /\ Total(m', a) + Taken(a) = Total(m, a)
             /\ RamShare(m', a) + Taken(a) = RamShare(m, a)
  <2> TAKE a
  <2>1. /\ In(Page(page.addr), a) \in Nat /\ In(Page(space.addr), a) \in Nat
        /\ In(Page(stack.addr), a) \in Nat
    BY DEF In
  <2>2. /\ Total(m, a) \in Nat /\ Total(page.mem, a) \in Nat
        /\ Total(space.mem, a) \in Nat /\ Total(m', a) \in Nat
        /\ RamShare(m, a) \in Nat /\ RamShare(page.mem, a) \in Nat
        /\ RamShare(space.mem, a) \in Nat /\ RamShare(m', a) \in Nat
    BY <1>1, <1>9, Naturals
  <2>3. /\ Total(page.mem, a) + In(Page(page.addr), a) = Total(m, a)
        /\ Total(space.mem, a) + In(Page(space.addr), a) = Total(page.mem, a)
        /\ Total(m', a) + In(Page(stack.addr), a) = Total(space.mem, a)
        /\ RamShare(page.mem, a) + In(Page(page.addr), a) = RamShare(m, a)
        /\ RamShare(space.mem, a) + In(Page(space.addr), a) = RamShare(page.mem, a)
        /\ RamShare(m', a) + In(Page(stack.addr), a) = RamShare(space.mem, a)
    BY <1>2, <1>6, <1>7, <1>8 DEF PageTaken
  <2> QED
    BY <2>1, <2>2, <2>3
<1> HIDE DEF Taken
<1>12. TypeOK'
  <2>1. programs' \in 0 .. Programs
    BY <1>1, <1>2, SectionsAssumption
  <2>2. Len(m'.ram) % NSECTIONS = 0 /\ Len(m'.io) % NSECTIONS = 0
    BY <1>9 DEF Sound
  <2> QED
    BY <1>1, <1>2, <1>9, <1>10, <2>1, <2>2 DEF TypeOK
<1>13. InUse'
  <2>1. ASSUME NEW a PROVE RamShare(m', a) + Holding(started', a) <= Holding(RamRegions, a)
    <3>1. RamShare(m, a) + Holding(started, a) <= Holding(RamRegions, a)
      BY DEF SectionsInv, InUse
    <3>2. /\ RamShare(m, a) \in Nat /\ RamShare(m', a) \in Nat
          /\ Holding(started, a) \in Nat /\ Taken(a) \in Nat
      BY <1>1, <1>9, <1>11, Naturals, HitFinite
    <3> QED
      BY <1>10, <1>11, <3>1, <3>2
  <2> QED
    BY <2>1 DEF InUse
<1>14. RoomToStart'
  <2>1. Room(m', n)
    BY <1>2, <1>8 DEF PageTaken
  <2> QED
    BY <1>2, <1>5, <2>1 DEF RoomToStart
<1>15. ASSUME ~ wrapped' PROVE AllFit(m'.io) /\ AllAccounted' /\ Shares' /\ InOnePiece(m'.io)
  <2>1. AllFit(m.io) /\ AllAccounted /\ Shares /\ InOnePiece(m.io)
    BY <1>2, <1>15 DEF SectionsInv
  <2>2. ASSUME NEW a
        PROVE  Total(m', a) + Holding(started', a) + Holding(given', a) + Holding(leaked', a)
                 = Holding(RamRegions, a) + Holding(IoRegions, a)
    <3>1. Total(m, a) + Holding(started, a) + Holding(given, a) + Holding(leaked, a)
            = Holding(RamRegions, a) + Holding(IoRegions, a)
      BY <2>1 DEF AllAccounted
    <3>2. /\ Total(m, a) \in Nat /\ Total(m', a) \in Nat
          /\ Holding(started, a) \in Nat /\ Taken(a) \in Nat
      BY <1>1, <1>9, <1>11, Naturals, HitFinite
    <3>3. Total(m', a) + Holding(started', a) = Total(m, a) + Holding(started, a)
      BY <1>10, <1>11, <3>2
    <3> QED
      BY <1>2, <3>1, <3>3
  <2> QED
    BY <1>9, <2>1, <2>2 DEF AllAccounted, Shares
<1> QED
  BY <1>9, <1>12, <1>13, <1>14, <1>15 DEF SectionsInv

LEMMA PageAligned ==
  \A x \in Word : PAGE_ALIGN(x) \in Word
<1> SUFFICES ASSUME NEW x \in Word PROVE PAGE_ALIGN(x) \in Word
  OBVIOUS
<1>1. WORD \in Nat /\ PAGE_SIZE \in Nat \ {0}
  BY SizesAre
<1> DEFINE y == Plus(x, PAGE_SIZE - 1)
<1>2. y \in Word
  <2>1. x \in Int /\ PAGE_SIZE - 1 \in Int
    BY <1>1 DEF Word
  <2> QED
    BY <2>1, NoWrap
<1> HIDE DEF y
<1>3. y \in Nat /\ y < WORD
  BY <1>1, <1>2 DEF Word
<1>4. y % PAGE_SIZE \in Nat /\ y % PAGE_SIZE <= y
  <2>1. y % PAGE_SIZE \in Nat /\ y % PAGE_SIZE < PAGE_SIZE
    BY <1>1, <1>3
  <2>2. y < PAGE_SIZE => y % PAGE_SIZE = y
    BY <1>1, <1>3
  <2> DEFINE q == y % PAGE_SIZE
  <2> HIDE DEF q
  <2>3. q \in Nat /\ q < PAGE_SIZE /\ (y < PAGE_SIZE => q = y)
    BY <2>1, <2>2 DEF q
  <2>4. q \in Nat /\ q <= y
    BY <1>1, <1>3, <2>3
  <2> QED
    BY <2>4 DEF q
<1>5. y - (y % PAGE_SIZE) \in Word
  <2> DEFINE q == y % PAGE_SIZE
  <2>1. q \in Nat /\ q <= y
    BY <1>4
  <2> HIDE DEF q
  <2>2. y - q \in Word
    BY <1>1, <1>3, <2>1 DEF Word
  <2> QED
    BY <2>2 DEF q
<1> QED
  BY <1>5 DEF PAGE_ALIGN, y

(* Whatever a request takes out of memory, the books balance: what is left *)
(* to show is that the section s is what left the lists.                   *)
LEMMA TakenOut ==
  ASSUME SectionsInv, NEW s \in Section, Sound(m'), started' = started,
         \/ given' = Append(given, s) /\ leaked' = leaked
         \/ leaked' = Append(leaked, s) /\ given' = given,
         requests < MAX_REQUESTS, requests' = requests + 1,
         programs = Programs, programs' = programs,
         wrapped' \in BOOLEAN, wrapped => wrapped',
         \A a : RamShare(m', a) <= RamShare(m, a),
         ~ wrapped' => /\ AllFit(m'.io) /\ InOnePiece(m'.io)
                       /\ \A a : Total(m', a) + In(s, a) = Total(m, a)
                       /\ \A a : Holding(m'.io, a) <= Holding(m.io, a)
  PROVE  SectionsInv'
<1>1. /\ m \in Memory /\ started \in Seq(Section) /\ given \in Seq(Section)
      /\ leaked \in Seq(Section)
      /\ programs \in 0 .. Programs /\ requests \in 0 .. MAX_REQUESTS
  BY DEF SectionsInv, TypeOK
<1>2. /\ given' \in Seq(Section) /\ leaked' \in Seq(Section)
      /\ \A a : \/ /\ Holding(given', a) = Holding(given, a) + In(s, a)
                   /\ Holding(leaked', a) = Holding(leaked, a)
                \/ /\ Holding(leaked', a) = Holding(leaked, a) + In(s, a)
                   /\ Holding(given', a) = Holding(given, a)
  <2>1. CASE given' = Append(given, s) /\ leaked' = leaked
    BY <1>1, <2>1, HoldingAppend
  <2>2. CASE leaked' = Append(leaked, s) /\ given' = given
    BY <1>1, <2>2, HoldingAppend
  <2> QED
    BY <2>1, <2>2
<1>3. m' \in Memory /\ Len(m'.ram) % NSECTIONS = 0 /\ Len(m'.io) % NSECTIONS = 0
  BY DEF Sound
<1>4. requests' \in 0 .. MAX_REQUESTS
  BY <1>1, SectionsAssumption
<1>5. TypeOK'
  BY <1>1, <1>2, <1>3, <1>4 DEF TypeOK
<1>6. InUse'
  <2>1. ASSUME NEW a PROVE RamShare(m', a) + Holding(started', a) <= Holding(RamRegions, a)
    <3>1. /\ RamShare(m', a) <= RamShare(m, a)
          /\ RamShare(m, a) + Holding(started, a) <= Holding(RamRegions, a)
      BY DEF SectionsInv, InUse
    <3>2. /\ RamShare(m', a) \in Nat /\ RamShare(m, a) \in Nat
          /\ Holding(started, a) \in Nat /\ Holding(RamRegions, a) \in Nat
      BY <1>1, <1>3, Naturals, HitFinite, SizesAre
    <3> QED
      BY <3>1, <3>2
  <2> QED
    BY <2>1 DEF InUse
<1>7. RoomToStart'
  <2>1. ~ (programs' < Programs)
    BY SectionsAssumption
  <2> QED
    BY <2>1 DEF RoomToStart
<1>8. ASSUME ~ wrapped' PROVE AllAccounted' /\ Shares'
  <2>1. AllAccounted /\ Shares
    BY <1>8 DEF SectionsInv
  <2>2. ASSUME NEW a
        PROVE  /\ Total(m', a) + Holding(started', a) + Holding(given', a) + Holding(leaked', a)
                    = Holding(RamRegions, a) + Holding(IoRegions, a)
               /\ Holding(m'.io, a) <= Holding(IoRegions, a)
    <3> DEFINE t1 == Total(m', a)
               t == Total(m, a)
               b == In(s, a)
               u == Holding(started, a)
               g1 == Holding(given', a)
               g == Holding(given, a)
               l1 == Holding(leaked', a)
               l == Holding(leaked, a)
    <3>1. /\ t1 + b = t
          /\ (g1 = g + b /\ l1 = l) \/ (l1 = l + b /\ g1 = g)
          /\ t1 \in Nat /\ t \in Nat /\ b \in Nat /\ u \in Nat /\ g \in Nat /\ l \in Nat
      BY <1>1, <1>2, <1>3, <1>8, Naturals, HitFinite
    <3>2. t + u + g + l = Holding(RamRegions, a) + Holding(IoRegions, a)
      BY <2>1 DEF AllAccounted
    <3> HIDE DEF t1, t, b, u, g1, g, l1, l
    <3>3. t1 + u + g1 + l1 = t + u + g + l
      BY <3>1
    <3>4. Holding(m'.io, a) <= Holding(m.io, a) /\ Holding(m.io, a) <= Holding(IoRegions, a)
      BY <1>8, <2>1 DEF Shares
    <3>5. /\ Holding(m'.io, a) \in Nat /\ Holding(m.io, a) \in Nat
          /\ Holding(IoRegions, a) \in Nat
      BY <1>1, <1>3, Naturals, SizesAre, HitFinite
    <3>6. Holding(m'.io, a) <= Holding(IoRegions, a)
      BY <3>4, <3>5
    <3>7. Total(m', a) + Holding(started', a) + Holding(given', a) + Holding(leaked', a)
            = Holding(RamRegions, a) + Holding(IoRegions, a)
      BY <3>2, <3>3 DEF t1, u, g1, l1
    <3> QED
      BY <3>6, <3>7
  <2> QED
    BY <2>2 DEF AllAccounted, Shares
<1> QED
  BY <1>5, <1>6, <1>7, <1>8 DEF SectionsInv

LEMMA RequestInv ==
  ASSUME SectionsInv, NEW addr \in Address, NEW reqlen \in Length, NEW accepted \in Accepted,
         handle_addr_request(addr, reqlen, accepted)
  PROVE  SectionsInv'
<1> DEFINE len == PAGE_ALIGN(reqlen)
           got == IF addr # nil THEN GetIo(m, addr, len) ELSE GetRam(m, len)
           s   == [start |-> got.addr, len |-> len]
           TakesOut == /\ len # 0 /\ got.addr # 0
                       /\ m' = got.mem
                       /\ \/ given' = Append(given, s) /\ leaked' = leaked
                          \/ leaked' = Append(leaked, s) /\ given' = given
                       /\ wrapped' = (wrapped \/ addr + len >= WORD)
<1>1. /\ requests < MAX_REQUESTS /\ requests' = requests + 1
      /\ programs = Programs /\ programs' = programs /\ started' = started
      /\ \/ UNCHANGED <<m, given, leaked, wrapped>>
         \/ TakesOut
  BY DEF handle_addr_request, nil
<1>2. /\ Sound(m) /\ m \in Memory /\ wrapped \in BOOLEAN /\ requests \in 0 .. MAX_REQUESTS
      /\ m.io \in Seq(Section)
  BY DEF SectionsInv, TypeOK, Memory
<1>3. addr \in Word /\ reqlen \in Word /\ len \in Word
  BY SectionsAssumption, PageAligned
<1>4. /\ \A n \in Word : n \in Nat /\ n < WORD
      /\ WORD \in Nat
  BY SizesAre DEF Word
<1>5. got = IF addr # 0 THEN GetIo(m, addr, len) ELSE GetRam(m, len)
  BY DEF nil
<1> HIDE DEF len, got
<1>6. CASE UNCHANGED <<m, given, leaked, wrapped>>
  <2>1. TypeOK'
    <3>1. requests' \in 0 .. MAX_REQUESTS
      BY <1>1, <1>2, SectionsAssumption
    <3> QED
      BY <1>1, <1>6, <3>1 DEF TypeOK, SectionsInv
  <2> QED
    BY <1>1, <1>6, <2>1 DEF SectionsInv, InUse, RoomToStart, AllAccounted, Shares
<1>7. ASSUME TakesOut PROVE SectionsInv'
  <2>1. wrapped' \in BOOLEAN /\ (wrapped => wrapped')
    BY <1>2, <1>7
  <2>2. CASE addr # 0
    <3>1. got = GetIo(m, addr, len)
      BY <1>5, <2>2
    <3>2. PICK k \in 1 .. Len(m.io) : /\ Covers(m.io[k], addr, len)
                                      /\ got = [mem |-> Carve(m, k, addr, len), addr |-> addr]
      <4>1. got # [mem |-> m, addr |-> 0]
        BY <1>7
      <4> QED
        BY <1>2, <3>1, <4>1, GetIoCases
    <3>3. m' = Carve(m, k, addr, len) /\ s = [start |-> addr, len |-> len]
      BY <1>7, <3>2
    <3>4. Sound(m') /\ s \in Section /\ \A a : RamShare(m', a) <= RamShare(m, a)
      <4>1. \A a : RamShare(m, a) \in Nat
        BY <1>2, Naturals
      <4>2. Sound(m') /\ \A a : RamShare(m', a) = RamShare(m, a)
        BY <1>2, <1>3, <3>3, CarveSound
      <4>3. s \in Section
        BY <1>3, <3>3, SectionFacts
      <4> HIDE DEF s
      <4> QED
        BY <4>1, <4>2, <4>3
    <3>5. ASSUME ~ wrapped'
          PROVE  /\ AllFit(m'.io) /\ InOnePiece(m'.io)
                 /\ \A a : Total(m', a) + In(s, a) = Total(m, a)
                 /\ \A a : Holding(m'.io, a) <= Holding(m.io, a)
      <4>1. ~ wrapped /\ addr + len < WORD
        <5>1. ~ wrapped /\ ~ (addr + len >= WORD)
          BY <1>7, <3>5, Zenon
        <5> QED
          BY <1>3, <1>4, <5>1
      <4>2. AllFit(m.io) /\ InOnePiece(m.io)
        BY <4>1 DEF SectionsInv
      <4> DEFINE mm == Carve(m, k, addr, len)
      <4>3. /\ AllFit(mm.io) /\ InOnePiece(mm.io)
            /\ \A a : Total(mm, a) + In([start |-> addr, len |-> len], a) = Total(m, a)
            /\ \A a : Holding(mm.io, a) <= Holding(m.io, a)
        BY <1>2, <1>3, <1>7, <3>2, <4>1, <4>2, CarveFacts
      <4>4. m' = mm
        BY <3>3
      <4> HIDE DEF mm, s
      <4> QED
        BY <3>3, <4>3, <4>4
    <3> HIDE DEF s
    <3> QED
      BY <1>1, <1>7, <2>1, <3>4, <3>5, TakenOut
  <2>3. CASE addr = 0
    <3>1. got = GetRam(m, len)
      BY <1>5, <2>3
    <3>2. /\ Sound(m') /\ m'.io = m.io /\ got.addr \in Word
          /\ \A a : RamShare(m', a) <= RamShare(m, a)
          /\ \A a : Total(m', a) + In(s, a) = Total(m, a)
      BY <1>2, <1>3, <1>7, <3>1, TakenFromRam
    <3>3. s \in Section
      BY <1>3, <3>2, SectionFacts
    <3>4. ~ wrapped' => AllFit(m'.io) /\ InOnePiece(m'.io)
      BY <2>1, <3>2 DEF SectionsInv
    <3>5. \A a : Holding(m'.io, a) <= Holding(m.io, a)
      <4>1. \A a : Holding(m.io, a) \in Nat
        BY <1>2, Naturals
      <4> QED
        BY <3>2, <4>1
    <3> HIDE DEF s
    <3> QED
      BY <1>1, <1>7, <2>1, <3>2, <3>3, <3>4, <3>5, TakenOut
  <2> QED
    BY <2>2, <2>3
<1> HIDE DEF TakesOut
<1> QED
  BY <1>1, <1>6, <1>7

LEMMA SectionsStep == SectionsInv /\ [Next]_vars => SectionsInv'
<1> SUFFICES ASSUME SectionsInv, [Next]_vars PROVE SectionsInv'
  OBVIOUS
<1>1. CASE start_program
  BY <1>1, StartProgramInv
<1>2. ASSUME NEW addr \in Address, NEW len \in Length, NEW accepted \in Accepted,
             handle_addr_request(addr, len, accepted)
      PROVE  SectionsInv'
  BY <1>2, RequestInv
<1>3. CASE UNCHANGED vars
  BY <1>3 DEF vars, SectionsInv, TypeOK, InUse, RoomToStart, AllAccounted, Shares
<1> QED
  BY <1>1, <1>2, <1>3 DEF Next

(* In every state, proc0's lists are lists and its account of memory and   *)
(* registers is kept.                                                      *)
THEOREM SpecSectionsInv == Spec => []SectionsInv
<1>1. Init => SectionsInv
  BY SectionsInitInv
<1>2. SectionsInv /\ [Next]_vars => SectionsInv'
  BY SectionsStep
<1> QED
  BY <1>1, <1>2, PTL DEF Spec

(* The variables keep their types. *)
THEOREM SectionsTypeCorrect == Spec => []TypeOK
<1>1. SectionsInv => TypeOK
  BY DEF SectionsInv
<1> QED
  BY <1>1, SpecSectionsInv, PTL

-----------------------------------------------------------------------------
(* What follows from it. *)

(* While no range reached the end of the addresses, each address is in as  *)
(* many places - free, under a holder, in use, given, leaked or dropped -  *)
(* as the kernel page has regions for it: get_ram, get_io and addr_add     *)
(* neither lose nor duplicate memory or registers.                         *)
THEOREM SpecAccounted == Spec => []Accounted
<1>1. SectionsInv => Accounted
  <2> SUFFICES ASSUME SectionsInv, ~ wrapped, NEW a \in Word
               PROVE  Holding(m.ram, a) + Holding(m.io, a) + Holding(m.holders, a)
                        + Holding(m.dropped, a) + Holding(started, a)
                        + Holding(given, a) + Holding(leaked, a)
                      = Holding(RamRegions, a) + Holding(IoRegions, a)
    BY DEF Accounted
  <2>1. Total(m, a) + Holding(started, a) + Holding(given, a) + Holding(leaked, a)
          = Holding(RamRegions, a) + Holding(IoRegions, a)
    BY DEF SectionsInv, AllAccounted
  <2> QED
    BY <2>1 DEF Total
<1> QED
  BY <1>1, SpecSectionsInv, PTL

(* What is in the list of registers came from the regions of registers,    *)
(* what is in the list of memory or under a holder from those of memory.   *)
THEOREM SpecListsApart == Spec => []ListsApart
<1>1. SectionsInv => ListsApart
  <2> SUFFICES ASSUME SectionsInv, ~ wrapped, NEW a \in Word
               PROVE  /\ Holding(m.ram, a) > 0 => Holding(RamRegions, a) > 0
                      /\ Holding(m.io, a) > 0 => Holding(IoRegions, a) > 0
                      /\ Holding(m.holders, a) > 0 => Holding(RamRegions, a) > 0
    BY DEF ListsApart
  <2>1. /\ Holding(m.ram, a) + Holding(m.holders, a) + Holding(started, a)
             <= Holding(RamRegions, a)
        /\ Holding(m.io, a) <= Holding(IoRegions, a)
    BY DEF SectionsInv, InUse, Shares, RamShare
  <2>2. m \in Memory /\ started \in Seq(Section)
    BY DEF SectionsInv, TypeOK
  <2>3. /\ Holding(m.ram, a) \in Nat /\ Holding(m.io, a) \in Nat
        /\ Holding(m.holders, a) \in Nat /\ Holding(started, a) \in Nat
    BY <2>2, Naturals, HitFinite
  <2>4. Holding(RamRegions, a) \in Nat /\ Holding(IoRegions, a) \in Nat
    BY SizesAre, HitFinite
  <2> QED
    BY <2>1, <2>3, <2>4
<1> QED
  BY <1>1, SpecSectionsInv, PTL

(* addr_add loses a section only when no page of memory is left for a      *)
(* holder, and then none ever comes back.                                  *)
THEOREM SpecDroppedForWantOfPage == Spec => []DroppedForWantOfPage
<1>1. SectionsInv => DroppedForWantOfPage
  BY DEF SectionsInv, Sound, DroppedForWantOfPage
<1> QED
  BY <1>1, SpecSectionsInv, PTL

(* Registers that are free can be had: get_io finds a free range that lies *)
(* in one region alone, because no split leaves it in two sections.        *)
THEOREM SpecFreeMeansGrantable == Spec => []FreeMeansGrantable
<1>1. ASSUME SectionsInv, ~ wrapped,
             NEW r \in DOMAIN IoRegions, NEW a \in Span(IoRegions[r]), NEW len \in Word \ {0},
             a .. a + len - 1 \subseteq Span(IoRegions[r]),
             \A b \in a .. a + len - 1 : Holding(IoRegions, b) = 1 /\ Holding(m.io, b) = 1
      PROVE  GetIo(m, a, len).addr = a
  <2>1. /\ m \in Memory /\ m.io \in Seq(Section) /\ DOMAIN m.io = 1 .. Len(m.io)
        /\ AllFit(m.io) /\ InOnePiece(m.io)
    BY <1>1 DEF SectionsInv, TypeOK, Memory
  <2>2. r \in 1 .. Len(IoRegions) /\ IoRegions[r] \in Section /\ Fits(IoRegions[r])
    BY SizesAre DEF Fits
  <2>3. \A b \in Span(IoRegions[r]) : b \in Word /\ b \in Nat
    <3>1. IoRegions[r].start \in Nat /\ IoRegions[r].len \in Nat /\ WORD \in Nat
      BY <2>2, SectionFacts, SizesAre
    <3> QED
      BY <2>2, <3>1 DEF Span, Fits, Word
  <2>4. a \in Nat /\ len \in Nat /\ len # 0 /\ WORD \in Nat
    BY <2>3, SizesAre DEF Word
  <2>5. \A b \in a .. a + len - 1 : Sole(r, b) /\ b \in Word /\ b \in Nat
    BY <1>1, <2>3 DEF Sole
  <2>6. \A b \in a .. a + len - 1 : \E i \in 1 .. Len(m.io) : b \in Span(m.io[i])
    <3>1. ASSUME NEW b \in a .. a + len - 1
          PROVE  \E i \in 1 .. Len(m.io) : b \in Span(m.io[i])
      <4>1. Holding(m.io, b) > 0
        BY <1>1
      <4> QED
        BY <2>1, <4>1, HitFinite
    <3> QED
      BY <3>1
  <2>7. a \in a .. a + len - 1
    BY <2>4
  <2>8. PICK i \in 1 .. Len(m.io) : a \in Span(m.io[i])
    BY <2>6, <2>7
  <2> DEFINE T == {n \in Nat : a + n \in Span(m.io[i])}
             N == len - 1
  <2>9. N \in Nat
    BY <2>4
  <2>10. 0 \in T
    BY <2>4, <2>8
  <2>11. ASSUME NEW n \in 1 .. N, n - 1 \in T PROVE n \in T
    <3> DEFINE b == a + (n - 1)
    <3>1. b \in a .. a + len - 1 /\ b + 1 \in a .. a + len - 1 /\ b + 1 = a + n /\ n \in Nat
      BY <2>4
    <3>2. b \in Span(m.io[i])
      BY <2>11
    <3> HIDE DEF b
    <3>3. PICK j \in 1 .. Len(m.io) : b + 1 \in Span(m.io[j])
      BY <2>6, <3>1
    <3>4. i = j
      BY <2>1, <2>2, <2>5, <3>1, <3>2, <3>3 DEF InOnePiece
    <3> QED
      BY <3>1, <3>3, <3>4
  <2>12. a + N \in Span(m.io[i])
    <3>1. 0 .. N \subseteq T
      <4> HIDE DEF T, N
      <4> QED
        BY <2>9, <2>10, <2>11, EveryTurn
    <3>2. N \in 0 .. N
      BY <2>9
    <3> QED
      BY <3>1, <3>2
  <2>13. Covers(m.io[i], a, len)
    <3> DEFINE x == m.io[i].start
               y == m.io[i].len
    <3>1. m.io[i] \in Section /\ Fits(m.io[i])
      BY <2>1 DEF AllFit
    <3>2. x \in Nat /\ y \in Nat /\ x + y < WORD
      BY <3>1, SectionFacts DEF Fits
    <3>3. a \in x .. x + y - 1 /\ a + N \in x .. x + y - 1
      BY <2>8, <2>12 DEF Span
    <3> HIDE DEF x, y
    <3>4. x <= a /\ a + len <= x + y /\ a + len < WORD
      BY <2>4, <3>2, <3>3
    <3>5. Plus(a, len) = a + len /\ Plus(x, y) = x + y
      BY <2>4, <3>2, <3>4, NoWrap
    <3> QED
      BY <3>4, <3>5 DEF Covers, x, y
  <2>14. GetIo(m, a, len).addr = a
    BY <2>1, <2>13, GetIoCases
  <2> QED
    BY <2>14
<1>2. SectionsInv => FreeMeansGrantable
  BY <1>1 DEF FreeMeansGrantable
<1> QED
  BY <1>2, SpecSectionsInv, PTL
=============================================================================
