-------------------------- MODULE MemoryMapProofs --------------------------
(***************************************************************************)
(* Proofs about MemoryMap for every layout of memory and devices: what is  *)
(* used in place is open to programs and in use once.                      *)
(***************************************************************************)
EXTENDS MemoryMap, SectionsProofs

-----------------------------------------------------------------------------
(* The calls of imap.                                                      *)

KERNELS == Len(KernelRegisters)
OTHERS  == Len(Devices)

LEMMA ExtentsAre ==
  /\ KERNELS \in Nat /\ OTHERS \in Nat
  /\ DOMAIN KernelRegisters = 1 .. KERNELS /\ DOMAIN Devices = 1 .. OTHERS
  /\ Ram \in Extent /\ Kernel \in Extent
  /\ \A i \in 1 .. KERNELS : KernelRegisters[i] \in Extent
  /\ \A i \in 1 .. OTHERS : Devices[i].mapped \in Extent /\ Devices[i].recorded \in Extent
<1>1. KernelRegisters \in Seq(Extent) /\ Devices \in Seq([mapped : Extent, recorded : Extent])
  BY MemoryMapAssumption
<1>2. Ram \in Extent /\ Kernel \in Extent
  BY MemoryMapAssumption
<1> DEFINE D == [mapped : Extent, recorded : Extent]
<1>3. \A i \in 1 .. OTHERS : Devices[i] \in D
  <2>1. Devices \in Seq(D)
    BY <1>1
  <2> HIDE DEF D
  <2> QED
    BY <2>1 DEF OTHERS
<1>4. \A i \in 1 .. OTHERS : Devices[i].mapped \in Extent /\ Devices[i].recorded \in Extent
  BY <1>3
<1>5. \A i \in 1 .. KERNELS : KernelRegisters[i] \in Extent
  <2> HIDE DEF Extent
  <2> QED
    BY <1>1 DEF KERNELS
<1>6. /\ KERNELS \in Nat /\ OTHERS \in Nat
      /\ DOMAIN KernelRegisters = 1 .. KERNELS /\ DOMAIN Devices = 1 .. OTHERS
  <2> HIDE DEF D
  <2> QED
    BY <1>1 DEF KERNELS, OTHERS, D
<1> QED
  BY <1>2, <1>4, <1>5, <1>6

(* Memory first, then the devices of the kernel, then the others.          *)
LEMMA MappingsAre ==
  /\ Len(Mappings) = 1 + KERNELS + OTHERS
  /\ Mappings[1] = Mapping(Ram, AP_RW_RW)
  /\ \A i \in 1 .. KERNELS : Mappings[1 + i] = Mapping(KernelRegisters[i], AP_RW_NO)
  /\ \A i \in 1 .. OTHERS : Mappings[1 + KERNELS + i] = Mapping(Devices[i].mapped, AP_RW_RW)
<1> DEFINE M == {Mapping(Ram, AP_RW_RW)}
                  \cup {Mapping(KernelRegisters[i], AP_RW_NO) : i \in 1 .. KERNELS}
                  \cup {Mapping(Devices[i].mapped, AP_RW_RW) : i \in 1 .. OTHERS}
           first == <<Mapping(Ram, AP_RW_RW)>>
           two   == first \o ForKernel
<1>1. ForKernel \in Seq(M) /\ Len(ForKernel) = KERNELS
      /\ \A i \in 1 .. KERNELS : ForKernel[i] = Mapping(KernelRegisters[i], AP_RW_NO)
  BY ExtentsAre DEF ForKernel
<1>2. ForAll \in Seq(M) /\ Len(ForAll) = OTHERS
      /\ \A i \in 1 .. OTHERS : ForAll[i] = Mapping(Devices[i].mapped, AP_RW_RW)
  BY ExtentsAre DEF ForAll
<1>3. first \in Seq(M) /\ Len(first) = 1 /\ first[1] = Mapping(Ram, AP_RW_RW)
  OBVIOUS
<1> HIDE DEF first, M
<1>4. two \in Seq(M) /\ Len(two) = 1 + KERNELS
      /\ \A i \in 1 .. 1 + KERNELS : two[i] = IF i <= 1 THEN first[i] ELSE ForKernel[i - 1]
  <2>1. /\ two \in Seq(M) /\ Len(two) = Len(first) + Len(ForKernel)
        /\ \A i \in 1 .. Len(first) + Len(ForKernel) :
             two[i] = IF i <= Len(first) THEN first[i] ELSE ForKernel[i - Len(first)]
    BY <1>1, <1>3, ST!ConcatProperties
  <2> HIDE DEF two
  <2> QED
    BY <1>1, <1>3, <2>1
<1>5. Mappings = two \o ForAll
  BY DEF Mappings, first
<1> HIDE DEF two
<1>6. Len(Mappings) = 1 + KERNELS + OTHERS
      /\ \A i \in 1 .. 1 + KERNELS + OTHERS :
           Mappings[i] = IF i <= 1 + KERNELS THEN two[i] ELSE ForAll[i - (1 + KERNELS)]
  <2> DEFINE all == two \o ForAll
  <2>1. /\ Len(all) = Len(two) + Len(ForAll)
        /\ \A i \in 1 .. Len(two) + Len(ForAll) :
             all[i] = IF i <= Len(two) THEN two[i] ELSE ForAll[i - Len(two)]
    BY <1>2, <1>4, ST!ConcatProperties
  <2> HIDE DEF all
  <2>2. Mappings = all
    BY <1>5 DEF all
  <2> QED
    BY <1>2, <1>4, <2>1, <2>2
<1>7. Mappings[1] = Mapping(Ram, AP_RW_RW)
  BY <1>3, <1>4, <1>6, ExtentsAre
<1>8. ASSUME NEW i \in 1 .. KERNELS
      PROVE  Mappings[1 + i] = Mapping(KernelRegisters[i], AP_RW_NO)
  <2>1. 1 + i \in 1 .. 1 + KERNELS + OTHERS /\ 1 + i \in 1 .. 1 + KERNELS
        /\ ~ (1 + i <= 1) /\ 1 + i <= 1 + KERNELS /\ (1 + i) - 1 = i
    BY ExtentsAre
  <2> QED
    BY <1>1, <1>4, <1>6, <2>1
<1>9. ASSUME NEW i \in 1 .. OTHERS
      PROVE  Mappings[1 + KERNELS + i] = Mapping(Devices[i].mapped, AP_RW_RW)
  <2>1. 1 + KERNELS + i \in 1 .. 1 + KERNELS + OTHERS
        /\ ~ (1 + KERNELS + i <= 1 + KERNELS) /\ (1 + KERNELS + i) - (1 + KERNELS) = i
    BY ExtentsAre
  <2> QED
    BY <1>2, <1>6, <2>1
<1> QED
  BY <1>6, <1>7, <1>8, <1>9

-----------------------------------------------------------------------------
(* The table.                                                              *)

LEMMA TableLoop ==
  \E t : /\ t[0] = [x \in Entry |-> L1_FAULT]
         /\ \A k \in 1 .. Len(Mappings) :
              t[k] = imap(t[k - 1], Mappings[k].range, Mappings[k].ap)
         /\ ttb = t[Len(Mappings)]
<1> DEFINE Turn(f, k) == IF k = 0 THEN [x \in Entry |-> L1_FAULT]
                         ELSE imap(f[k - 1], Mappings[k].range, Mappings[k].ap)
           IsLoop(f, n) == f = [k \in 0 .. n |-> Turn(f, k)]
           T == {n \in Nat : \E f : IsLoop(f, n)}
           N == Len(Mappings)
<1>0. N \in Nat
  BY MappingsAre, ExtentsAre
<1>1. 0 \in T
  <2> DEFINE f == [k \in 0 .. 0 |-> [x \in Entry |-> L1_FAULT]]
  <2>1. \A k \in 0 .. 0 : Turn(f, k) = [x \in Entry |-> L1_FAULT]
    OBVIOUS
  <2>2. IsLoop(f, 0)
    BY <2>1
  <2> QED
    BY <2>2
<1>2. ASSUME NEW n \in 1 .. N, n - 1 \in T PROVE n \in T
  <2>1. PICK g : IsLoop(g, n - 1)
    BY <1>2
  <2> DEFINE f == [k \in 0 .. n |-> IF k = n THEN Turn(g, n) ELSE g[k]]
  <2>2. n \in Nat /\ \A k \in 0 .. n : k # n => k \in 0 .. n - 1
    BY <1>0
  <2>3. DOMAIN f = 0 .. n /\ \A k \in 0 .. n : f[k] = IF k = n THEN Turn(g, n) ELSE g[k]
    OBVIOUS
  <2>4. \A k \in 0 .. n - 1 : g[k] = Turn(g, k)
    <3> HIDE DEF Turn
    <3> QED
      BY <2>1
  <2>5. ASSUME NEW k \in 0 .. n, k # 0 PROVE f[k - 1] = g[k - 1]
    <3>1. k - 1 \in 0 .. n /\ k - 1 # n
      BY <2>2, <2>5
    <3> HIDE DEF f
    <3> QED
      BY <2>3, <3>1
  <2> HIDE DEF f
  <2>6. \A k \in 0 .. n : Turn(f, k) = Turn(g, k)
    BY <2>5
  <2>7. \A k \in 0 .. n : f[k] = Turn(f, k)
    <3> HIDE DEF Turn
    <3> QED
      BY <2>2, <2>3, <2>4, <2>6
  <2>8. f = [k \in 0 .. n |-> f[k]]
    BY <2>3 DEF f
  <2>9. IsLoop(f, n)
    <3> HIDE DEF Turn
    <3> QED
      BY <2>7, <2>8
  <2> QED
    BY <2>2, <2>9
<1>3. N \in T
  <2> HIDE DEF T, N
  <2>1. 0 .. N \subseteq T
    BY <1>0, <1>1, <1>2, EveryTurn
  <2> QED
    BY <1>0, <2>1
<1> DEFINE f == CHOOSE f : IsLoop(f, N)
<1>4. IsLoop(f, N)
  BY <1>3
<1>5. ttb = f[N]
  BY DEF ttb
<1> HIDE DEF f
<1>6. \A k \in 0 .. N : f[k] = Turn(f, k)
  <2> HIDE DEF Turn
  <2> QED
    BY <1>4
<1>7. f[0] = [x \in Entry |-> L1_FAULT]
  BY <1>0, <1>6
<1>8. ASSUME NEW k \in 1 .. N
      PROVE  f[k] = imap(f[k - 1], Mappings[k].range, Mappings[k].ap)
  <2>1. k \in 0 .. N /\ k # 0
    BY <1>0
  <2> QED
    BY <1>6, <2>1
<1> QED
  BY <1>5, <1>7, <1>8

(* The last call of imap that touches an entry decides it.                 *)
LEMMA LastDecides ==
  ASSUME NEW x \in Entry, NEW S, NEW j \in 1 .. Len(Mappings),
         Touches(Mappings[j].range, x),
         \A k \in j .. Len(Mappings) : Touches(Mappings[k].range, x) => Mappings[k].ap \in S
  PROVE  ttb[x] \in S
<1> DEFINE N == Len(Mappings)
<1>0. N \in Nat /\ j \in 1 .. N
  BY MappingsAre, ExtentsAre
<1>1. PICK t : /\ t[0] = [y \in Entry |-> L1_FAULT]
               /\ \A k \in 1 .. N : t[k] = imap(t[k - 1], Mappings[k].range, Mappings[k].ap)
               /\ ttb = t[N]
  BY TableLoop
<1> DEFINE T == {k \in Nat : DOMAIN t[k] = Entry /\ (k >= j => t[k][x] \in S)}
<1>2. 0 \in T
  BY <1>0, <1>1
<1>3. ASSUME NEW k \in 1 .. N, k - 1 \in T PROVE k \in T
  <2>1. k \in Nat /\ DOMAIN t[k - 1] = Entry
    BY <1>0, <1>3
  <2>2. /\ DOMAIN t[k] = Entry
        /\ t[k][x] = IF Touches(Mappings[k].range, x) THEN Mappings[k].ap ELSE t[k - 1][x]
    <3>1. t[k] = imap(t[k - 1], Mappings[k].range, Mappings[k].ap)
      BY <1>1
    <3> DEFINE old == t[k - 1]
    <3>2. DOMAIN old = Entry
      BY <2>1
    <3>3. t[k] = imap(old, Mappings[k].range, Mappings[k].ap)
      BY <3>1
    <3> HIDE DEF old
    <3>4. t[k] = [y \in Entry |-> IF Touches(Mappings[k].range, y) THEN Mappings[k].ap ELSE old[y]]
      BY <3>2, <3>3 DEF imap
    <3> QED
      BY <3>4 DEF old
  <2>3. ASSUME k >= j PROVE t[k][x] \in S
    <3>1. CASE Touches(Mappings[k].range, x)
      <4>1. k \in j .. N
        BY <1>0, <2>3
      <4> QED
        BY <2>2, <3>1, <4>1
    <3>2. CASE ~ Touches(Mappings[k].range, x)
      <4>1. k # j
        BY <3>2
      <4>2. k - 1 >= j
        BY <1>0, <2>3, <4>1
      <4> QED
        BY <1>3, <2>2, <3>2, <4>2
    <3> QED
      BY <3>1, <3>2
  <2> QED
    BY <2>1, <2>2, <2>3
<1>4. N \in T
  <2> HIDE DEF T, N
  <2>1. 0 .. N \subseteq T
    BY <1>0, <1>2, <1>3, EveryTurn
  <2> QED
    BY <1>0, <2>1
<1> QED
  BY <1>0, <1>1, <1>4

(* imap of a range touches the entry of every address in it.               *)
LEMMA EntryOf ==
  ASSUME NEW a \in Word, NEW r \in Extent, r.start <= a, a < r.end
  PROVE  L1X(a) \in Entry /\ Touches(r, L1X(a))
<1>1. SECTION \in Nat \ {0} /\ WORD \in Nat \ {0}
  BY MemoryMapAssumption, SizesAre
<1>2. a \in Nat /\ r.start \in Nat /\ r.end \in Nat /\ WORD - 1 \in Nat /\ a <= WORD - 1
  BY <1>1 DEF Word, Extent
<1>3. \A b, c \in Nat : b <= c => b \div SECTION <= c \div SECTION
  BY <1>1
<1>4. \A b \in Nat : b \div SECTION \in Nat /\ (b \div SECTION) * SECTION <= b
  BY <1>1
<1>5. /\ L1X(a) \in Nat /\ L1X(a) * SECTION \in Nat /\ L1X(a) * SECTION <= a
      /\ L1X(a) >= L1X(r.start) /\ L1X(a) <= L1X(WORD - 1) /\ L1X(WORD - 1) \in Nat
  BY <1>1, <1>2, <1>3, <1>4 DEF L1X
<1>6. L1X(a) \in Entry
  BY <1>5 DEF Entry
<1> HIDE DEF L1X
<1>7. L1X(a) * SECTION < r.end
  BY <1>2, <1>5
<1> QED
  BY <1>5, <1>6, <1>7 DEF Touches

-----------------------------------------------------------------------------
(* Who may access what.                                                    *)

(* No device of the kernel shares an entry with memory.                    *)
LEMMA MemoryOpen ==
  ASSUME NEW a \in Word, Ram.start <= a, a < Ram.end
  PROVE  ttb[L1X(a)] = AP_RW_RW
<1> DEFINE x == L1X(a)
<1>1. x \in Entry /\ Touches(Ram, x)
  BY EntryOf, ExtentsAre
<1>2. KERNELS \in Nat /\ OTHERS \in Nat /\ Len(Mappings) = 1 + KERNELS + OTHERS
  BY ExtentsAre, MappingsAre
<1>3. 1 \in 1 .. Len(Mappings) /\ Mappings[1] = Mapping(Ram, AP_RW_RW)
  BY <1>2, MappingsAre
<1>4. ASSUME NEW k \in 1 .. Len(Mappings), Touches(Mappings[k].range, x)
      PROVE  Mappings[k].ap \in {AP_RW_RW}
  <2>1. CASE k = 1
    BY <1>3, <2>1 DEF Mapping
  <2>2. CASE k - 1 \in 1 .. KERNELS
    <3>1. Mappings[1 + (k - 1)] = Mapping(KernelRegisters[k - 1], AP_RW_NO) /\ 1 + (k - 1) = k
      BY <1>2, <2>2, MappingsAre
    <3>2. Touches(KernelRegisters[k - 1], x)
      BY <1>4, <3>1 DEF Mapping
    <3> QED
      BY <1>1, <2>2, <3>2, ExtentsAre, LayoutAssumption
  <2>3. CASE k - (1 + KERNELS) \in 1 .. OTHERS
    <3>1. /\ Mappings[1 + KERNELS + (k - (1 + KERNELS))]
               = Mapping(Devices[k - (1 + KERNELS)].mapped, AP_RW_RW)
          /\ 1 + KERNELS + (k - (1 + KERNELS)) = k
      BY <1>2, <2>3, MappingsAre
    <3> QED
      BY <3>1 DEF Mapping
  <2>4. k = 1 \/ k - 1 \in 1 .. KERNELS \/ k - (1 + KERNELS) \in 1 .. OTHERS
    BY <1>2
  <2> QED
    BY <2>1, <2>2, <2>3, <2>4
<1>5. Touches(Mappings[1].range, x)
  BY <1>1, <1>3 DEF Mapping
<1> HIDE DEF x
<1>6. ttb[x] \in {AP_RW_RW}
  BY <1>1, <1>3, <1>4, <1>5, LastDecides
<1> QED
  BY <1>6 DEF x

(* No call of imap takes away what an earlier one mapped.                  *)
LEMMA KernelReaches ==
  ASSUME NEW j \in 1 .. KERNELS, NEW a \in Word,
         KernelRegisters[j].start <= a, a < KernelRegisters[j].end
  PROVE  ttb[L1X(a)] # L1_FAULT
<1> DEFINE x == L1X(a)
           i == 1 + j
<1>1. x \in Entry /\ Touches(KernelRegisters[j], x)
  BY EntryOf, ExtentsAre
<1>2. KERNELS \in Nat /\ OTHERS \in Nat /\ Len(Mappings) = 1 + KERNELS + OTHERS
  BY ExtentsAre, MappingsAre
<1>3. i \in 1 .. Len(Mappings) /\ Mappings[i] = Mapping(KernelRegisters[j], AP_RW_NO)
  BY <1>2, MappingsAre
<1>4. ASSUME NEW k \in i .. Len(Mappings) PROVE Mappings[k].ap \in {AP_RW_NO, AP_RW_RW}
  <2>1. CASE k - 1 \in 1 .. KERNELS
    <3>1. Mappings[1 + (k - 1)] = Mapping(KernelRegisters[k - 1], AP_RW_NO) /\ 1 + (k - 1) = k
      BY <1>2, <2>1, MappingsAre
    <3> QED
      BY <3>1 DEF Mapping
  <2>2. CASE k - (1 + KERNELS) \in 1 .. OTHERS
    <3>1. /\ Mappings[1 + KERNELS + (k - (1 + KERNELS))]
               = Mapping(Devices[k - (1 + KERNELS)].mapped, AP_RW_RW)
          /\ 1 + KERNELS + (k - (1 + KERNELS)) = k
      BY <1>2, <2>2, MappingsAre
    <3> QED
      BY <3>1 DEF Mapping
  <2>3. k - 1 \in 1 .. KERNELS \/ k - (1 + KERNELS) \in 1 .. OTHERS
    BY <1>2
  <2> QED
    BY <2>1, <2>2, <2>3
<1>5. Touches(Mappings[i].range, x)
  BY <1>1, <1>3 DEF Mapping
<1> HIDE DEF x, i
<1>6. ttb[x] \in {AP_RW_NO, AP_RW_RW}
  BY <1>1, <1>3, <1>4, <1>5, LastDecides
<1> QED
  BY <1>6 DEF x, AP_RW_NO, AP_RW_RW, L1_FAULT

(* A region of memory lies in memory, beside the kernel, and the two are   *)
(* apart.                                                                  *)
LEMMA RamRegionFacts ==
  ASSUME NEW a \in Word, Holding(RamRegions, a) > 0
  PROVE  /\ Ram.start <= a /\ a < Ram.end
         /\ a \notin Kernel.start .. Kernel.end - 1
         /\ Holding(RamRegions, a) = 1
<1>1. RamRegions \in Seq(Section)
  BY SizesAre
<1>2. RamRegions = <<RegionOf(FromTo(Ram.start, Kernel.start)),
                     RegionOf(FromTo(Kernel.end, Ram.end))>>
  BY MemoryMapAssumption DEF RecordedRam
<1>3. /\ DOMAIN RamRegions = {1, 2}
      /\ RamRegions[1] = RegionOf(FromTo(Ram.start, Kernel.start))
      /\ RamRegions[2] = RegionOf(FromTo(Kernel.end, Ram.end))
  BY <1>2
<1>4. /\ Ram.start \in Nat /\ Ram.end \in Nat /\ Kernel.start \in Nat /\ Kernel.end \in Nat
      /\ a \in Nat
  BY ExtentsAre, SizesAre DEF Extent, Word
<1>5. Ram.start <= Kernel.start /\ Kernel.start <= Kernel.end /\ Kernel.end <= Ram.end
  BY MemoryMapAssumption
<1>6. /\ a \in Span(RamRegions[1]) <=> Ram.start <= a /\ a < Kernel.start
      /\ a \in Span(RamRegions[2]) <=> Kernel.end <= a /\ a < Ram.end
  <2>1. /\ RamRegions[1].start = Ram.start /\ RamRegions[1].len = Kernel.start - Ram.start
        /\ RamRegions[2].start = Kernel.end /\ RamRegions[2].len = Ram.end - Kernel.end
    BY <1>3 DEF RegionOf, FromTo
  <2>2. /\ Span(RamRegions[1]) = Ram.start .. Ram.start + (Kernel.start - Ram.start) - 1
        /\ Span(RamRegions[2]) = Kernel.end .. Kernel.end + (Ram.end - Kernel.end) - 1
    BY <2>1 DEF Span
  <2> QED
    BY <1>4, <1>5, <2>2
<1>7. PICK i \in {1, 2} : a \in Span(RamRegions[i])
  BY <1>1, <1>3, HitFinite
<1>8. Hit(RamRegions, a) = {i}
  <2>1. ~ (a \in Span(RamRegions[1]) /\ a \in Span(RamRegions[2]))
    BY <1>4, <1>5, <1>6
  <2> QED
    BY <1>3, <1>7, <2>1 DEF Hit
<1>9. Holding(RamRegions, a) = 1
  <2>1. Cardinality({i}) = 1
    BY FS_Singleton
  <2> QED
    BY <1>1, <1>8, <2>1, HitFinite
<1>10. /\ Ram.start <= a /\ a < Ram.end
       /\ a \notin Kernel.start .. Kernel.end - 1
  BY <1>4, <1>5, <1>6, <1>7
<1> QED
  BY <1>9, <1>10

(* The pages of the lists and of the programs are memory that programs may *)
(* access in the one table there is; no page is in the kernel, free as     *)
(* well or in use twice; and the kernel reaches its devices: for every     *)
(* layout of memory and devices and every sequence of requests, a wrap in  *)
(* get_io included.                                                        *)
THEOREM SpecUsedInPlace == Spec => []UsedInPlace
<1>1. SectionsInv => UsedInPlace
  <2> SUFFICES ASSUME SectionsInv PROVE UsedInPlace
    OBVIOUS
  <2>1. ASSUME NEW a \in Word, InPlace(a) > 0
        PROVE  /\ ttb[L1X(a)] = AP_RW_RW
               /\ a \notin Kernel.start .. Kernel.end - 1
               /\ InPlace(a) + Holding(m.ram, a) = 1
    <3>1. Holding(m.ram, a) + Holding(m.holders, a) + Holding(started, a)
            <= Holding(RamRegions, a)
      BY DEF SectionsInv, InUse, RamShare
    <3>2. m \in Memory /\ started \in Seq(Section)
      BY DEF SectionsInv, TypeOK
    <3>3. /\ Holding(m.ram, a) \in Nat /\ Holding(m.holders, a) \in Nat
          /\ Holding(started, a) \in Nat /\ Holding(RamRegions, a) \in Nat
      BY <3>2, Naturals, HitFinite, SizesAre
    <3>4. Holding(started, a) + Holding(m.holders, a) > 0
      BY <2>1 DEF InPlace
    <3>5. Holding(RamRegions, a) > 0
      BY <3>1, <3>3, <3>4
    <3>6. /\ Ram.start <= a /\ a < Ram.end
          /\ a \notin Kernel.start .. Kernel.end - 1
          /\ Holding(RamRegions, a) = 1
      BY <3>5, RamRegionFacts
    <3>7. InPlace(a) + Holding(m.ram, a) = 1
      BY <3>1, <3>3, <3>4, <3>6 DEF InPlace
    <3> QED
      BY <3>6, <3>7, MemoryOpen
  <2>2. ASSUME NEW i \in DOMAIN KernelRegisters,
               NEW a \in KernelRegisters[i].start .. KernelRegisters[i].end - 1
        PROVE  ttb[L1X(a)] # L1_FAULT
    <3>1. i \in 1 .. KERNELS /\ KernelRegisters[i] \in Extent
      BY ExtentsAre
    <3>2. /\ KernelRegisters[i].start \in Word /\ KernelRegisters[i].end \in Word
          /\ WORD \in Nat
      BY <3>1, SizesAre DEF Extent
    <3>3. a \in Word /\ KernelRegisters[i].start <= a /\ a < KernelRegisters[i].end
      BY <3>2 DEF Word
    <3> QED
      BY <3>1, <3>3, KernelReaches
  <2> QED
    BY <2>1, <2>2 DEF UsedInPlace
<1> QED
  BY <1>1, SpecSectionsInv, PTL
=============================================================================
