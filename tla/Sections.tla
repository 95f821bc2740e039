------------------------------ MODULE Sections ------------------------------
(***************************************************************************)
(* proc0's allocator of memory and device registers, and the addr request  *)
(* that uses it (am335x/proc0/main.c).                                     *)
(*                                                                         *)
(* ram and io are the section lists.  A list is a chain of holders, pages  *)
(* with NSECTIONS sections each; as every search goes through the sections *)
(* of all holders in order, a list is the sequence of all its sections.    *)
(* Addresses are words of the size WORD.                                   *)
(***************************************************************************)
EXTENDS Integers, Sequences, FiniteSets, SequencesExt

CONSTANTS
  WORD,          (* 2^32 in the code: addresses are 0 .. WORD - 1          *)
  PAGE_SIZE,
  NSECTIONS,     (* sections of a holder                                   *)
  RamRegions,    (* the REGION_ram entries of the kernel page, in order    *)
  IoRegions,     (* its REGION_io entries                                  *)
  Programs,      (* how many programs procs[] lists                        *)
  Address,       (* the addr fields of the requests of an instance, nil too*)
  Length,        (* their len fields                                       *)
  Accepted,      (* outcomes of addr_accept: TRUE for OK, FALSE for ERR    *)
  MAX_REQUESTS   (* bound: requests handled                                *)

nil  == 0
Word == 0 .. WORD - 1

Section == [start : Word, len : Word]
Span(s) == s.start .. s.start + s.len - 1
Empty   == [start |-> 0, len |-> 0]
Page(a) == [start |-> a, len |-> PAGE_SIZE]

ASSUME SectionsAssumption ==
  /\ PAGE_SIZE \in Nat \ {0} /\ NSECTIONS \in Nat \ {0}
  /\ WORD \in Nat /\ WORD % PAGE_SIZE = 0
  /\ RamRegions \in Seq(Section) /\ IoRegions \in Seq(Section)
  /\ RamRegions # <<>> /\ RamRegions[1].len > PAGE_SIZE
  /\ \A s \in ToSet(RamRegions) \cup ToSet(IoRegions) :
       s.start # nil /\ s.start + s.len < WORD
  /\ Programs \in Nat /\ MAX_REQUESTS \in Nat
  /\ Address \subseteq Word /\ Length \subseteq Word
  /\ Accepted \subseteq BOOLEAN

VARIABLES
  m,         (* proc0's memory: the lists ram and io, and the pages of     *)
             (* their holders; with them, the sections addr_add lost       *)
  started,   (* pages put to use for the programs, at their own addresses  *)
  given,     (* sections handed to clients                                 *)
  leaked,    (* sections taken out for a client that did not get them      *)
  programs,  (* programs started                                           *)
  requests,  (* requests handled                                           *)
  wrapped    (* has a range handed out reached the end of the addresses?  *)

vars == <<m, started, given, leaked, programs, requests, wrapped>>

(* Fault: the difference is computed as a signed number. *)
FaultSigned(a, b) == a - b

(* Sum and difference of two reg_t.                                        *)
Minus(a, b) == (a - b) % WORD
Plus(a, b)  == (a + b) % WORD

PAGE_ALIGN(x) == LET y == Plus(x, PAGE_SIZE - 1) IN y - (y % PAGE_SIZE)

First(S) == CHOOSE i \in S : \A j \in S : i <= j

(* get_ram takes the end of a section.                                     *)
TakenAt(s, len) == Plus(s.start, s.len - len)

(* get_ram: the first section that is long enough.                         *)
Fitting(list, len) == {i \in DOMAIN list : list[i].len >= len}

GetRam(mem, len) ==
  IF Fitting(mem.ram, len) = {} THEN [mem |-> mem, addr |-> nil]
  ELSE LET i == First(Fitting(mem.ram, len))
       IN  [mem  |-> [mem EXCEPT !.ram[i].len = @ - len],
            addr |-> TakenAt(mem.ram[i], len)]

(* Fault: a list never gets another holder. *)
FaultNoHolder(mem) == [mem |-> mem, addr |-> nil]

NewHolder(mem) == GetRam(mem, PAGE_SIZE)

(* addr_add to a list ("ram" or "io"): the first empty slot, or else the   *)
(* first of a new holder, or else nowhere.                                 *)
AddrAdd(mem, list, start, len) ==
  LET s     == [start |-> start, len |-> len]
      empty == {i \in DOMAIN mem[list] : mem[list][i].len = 0}
      h     == NewHolder(mem)
  IN  IF empty # {} THEN [mem EXCEPT ![list][First(empty)] = s]
      ELSE IF h.addr = nil THEN [mem EXCEPT !.dropped = Append(@, s)]
      ELSE [h.mem EXCEPT
              ![list] = @ \o [i \in 1 .. NSECTIONS |-> IF i = 1 THEN s ELSE Empty],
              !.holders = Append(@, Page(h.addr))]

(* Fault: the last page of a section cannot be had. *)
FaultStrict(s, addr, len) ==
  s.start <= addr /\ Plus(addr, len) < Plus(s.start, s.len)

(* get_io's test.                                                          *)
Covers(s, addr, len) ==
  s.start <= addr /\ Plus(addr, len) <= Plus(s.start, s.len)

(* Fault: what follows goes to the list of memory. *)
FaultWrongList(mem, start, len) == AddrAdd(mem, "ram", start, len)

GiveBack(mem, start, len) == AddrAdd(mem, "io", start, len)

(* Fault: the section is cut before what follows the range is computed. *)
FaultCutFirst(mem, i, addr, len) ==
  LET cut == [mem EXCEPT !.io[i].len = Minus(addr, mem.io[i].start)]
      s   == cut.io[i]
  IN  IF Plus(addr, len) < Plus(s.start, s.len)
      THEN GiveBack(cut, Plus(addr, len),
                    Minus(Minus(Plus(s.start, s.len), addr), len))
      ELSE cut

(* get_io takes the range out of section i: what follows it becomes a      *)
(* section of its own, what precedes it stays.                             *)
Carve(mem, i, addr, len) ==
  LET s    == mem.io[i]
      rest == IF Plus(addr, len) < Plus(s.start, s.len)
              THEN GiveBack(mem, Plus(addr, len),
                            Minus(Minus(Plus(s.start, s.len), addr), len))
              ELSE mem
  IN  [rest EXCEPT !.io[i].len = Minus(addr, s.start)]

GetIo(mem, addr, len) ==
  LET S == {i \in DOMAIN mem.io : Covers(mem.io[i], addr, len)}
  IN  IF S = {} THEN [mem |-> mem, addr |-> nil]
      ELSE [mem |-> Carve(mem, First(S), addr, len), addr |-> addr]

-----------------------------------------------------------------------------
(* init_sections: the first holder of ram is the first page of the first   *)
(* region, the first of io is taken from ram.                              *)
EmptyHolder == [i \in 1 .. NSECTIONS |-> Empty]

AddRegions(mem, list, regions) ==
  LET added[k \in 0 .. Len(regions)] ==
        IF k = 0 THEN mem
        ELSE AddrAdd(added[k - 1], list, regions[k].start, regions[k].len)
  IN  added[Len(regions)]

InitRam ==
  LET r == Head(RamRegions)
      first == [ram |-> EmptyHolder, io |-> <<>>,
                holders |-> <<Page(r.start)>>, dropped |-> <<>>]
  IN  AddRegions(AddrAdd(first, "ram", r.start + PAGE_SIZE, r.len - PAGE_SIZE),
                 "ram", Tail(RamRegions))

(* init_io_sections writes its holder wherever get_ram says, unchecked.    *)
ASSUME HolderAssumption == GetRam(InitRam, PAGE_SIZE).addr # nil

InitSections ==
  LET h == GetRam(InitRam, PAGE_SIZE)
  IN  AddRegions([h.mem EXCEPT !.io = EmptyHolder,
                               !.holders = Append(@, Page(h.addr))],
                 "io", IoRegions)

(* init_procs checks no page either: there is memory for all programs.     *)
ASSUME StartAssumption ==
  \E i \in DOMAIN InitSections.ram :
    InitSections.ram[i].len >= 3 * Programs * PAGE_SIZE

Init ==
  /\ m = InitSections
  /\ started = <<>>
  /\ given = <<>>
  /\ leaked = <<>>
  /\ programs = 0
  /\ requests = 0
  /\ wrapped = FALSE

(* One turn of init_procs: page, space and stack.                          *)
start_program ==
  /\ programs < Programs
  /\ LET page  == GetRam(m, PAGE_SIZE)
         space == GetRam(page.mem, PAGE_SIZE)
         stack == GetRam(space.mem, PAGE_SIZE)
     IN  /\ m' = stack.mem
         /\ started' = started \o <<Page(page.addr), Page(space.addr), Page(stack.addr)>>
  /\ programs' = programs + 1
  /\ UNCHANGED <<given, leaked, requests, wrapped>>

(* handle_addr_request.  accepted is the outcome of addr_accept.           *)
handle_addr_request(addr, reqlen, accepted) ==
  /\ programs = Programs
  /\ requests < MAX_REQUESTS
  /\ requests' = requests + 1
  /\ LET len == PAGE_ALIGN(reqlen)
         got == IF addr # nil THEN GetIo(m, addr, len) ELSE GetRam(m, len)
         s   == [start |-> got.addr, len |-> len]
     IN  IF len = 0 \/ got.addr = nil THEN UNCHANGED <<m, given, leaked, wrapped>>
         ELSE /\ m' = got.mem
              /\ IF accepted
                 THEN given' = Append(given, s) /\ UNCHANGED leaked
                 ELSE leaked' = Append(leaked, s) /\ UNCHANGED given
              /\ wrapped' = (wrapped \/ addr + len >= WORD)
  /\ UNCHANGED <<started, programs>>

Next ==
  \/ start_program
  \/ \E addr \in Address, len \in Length, accepted \in Accepted :
       handle_addr_request(addr, len, accepted)

Spec == Init /\ [][Next]_vars
-----------------------------------------------------------------------------
(* Properties. *)

Memory == [ram : Seq(Section), io : Seq(Section),
           holders : Seq(Section), dropped : Seq(Section)]

TypeOK ==
  /\ m \in Memory
  /\ Len(m.ram) % NSECTIONS = 0 /\ Len(m.io) % NSECTIONS = 0
  /\ started \in Seq(Section) /\ given \in Seq(Section) /\ leaked \in Seq(Section)
  /\ programs \in 0 .. Programs /\ requests \in 0 .. MAX_REQUESTS
  /\ wrapped \in BOOLEAN

(* How many of the sections of a list hold address a.                      *)
Holding(list, a) == Cardinality({i \in DOMAIN list : a \in Span(list[i])})

(* While no range reached the end of the address space, every address      *)
(* is in as many places as the kernel page has regions for it: free, under *)
(* a holder, in use for a program, given to a client, leaked or dropped.   *)
(* In particular nothing is both given and free, or given twice, unless    *)
(* two regions overlap.                                                    *)
Accounted ==
  ~wrapped => \A a \in Word :
    Holding(m.ram, a) + Holding(m.io, a) + Holding(m.holders, a)
      + Holding(m.dropped, a) + Holding(started, a)
      + Holding(given, a) + Holding(leaked, a)
    = Holding(RamRegions, a) + Holding(IoRegions, a)

(* Splitting and growing the lists never mixes memory and registers.       *)
ListsApart ==
  ~wrapped => \A a \in Word :
    /\ Holding(m.ram, a) > 0 => Holding(RamRegions, a) > 0
    /\ Holding(m.io, a) > 0 => Holding(IoRegions, a) > 0
    /\ Holding(m.holders, a) > 0 => Holding(RamRegions, a) > 0

(* addr_add loses a section only for want of a page of memory.             *)
DroppedForWantOfPage ==
  m.dropped # <<>> => Fitting(m.ram, PAGE_SIZE) = {}

(* Registers that are free can be had: if a page-aligned range lies in one *)
(* region, apart from the others, and all of it is in free sections, then  *)
(* get_io finds it: the splitting leaves no range in two pieces.           *)
FreeMeansGrantable ==
  ~wrapped =>
    \A r \in DOMAIN IoRegions : \A a \in Span(IoRegions[r]), len \in Word \ {0} :
      LET range == a .. a + len - 1
      IN  (/\ range \subseteq Span(IoRegions[r])
           /\ \A b \in range : Holding(IoRegions, b) = 1 /\ Holding(m.io, b) = 1)
         => GetIo(m, a, len).addr = a

InRegions == UNION {Span(s) : s \in ToSet(IoRegions)}

(* A device register is taken out for at most one request, whether its     *)
(* client got it or addr_accept failed.                                    *)
NoDeviceTwice ==
  ~wrapped => \A a \in InRegions : Holding(given, a) + Holding(leaked, a) <= 1
=============================================================================
