------------------------- MODULE KernelMemoryProofs -------------------------
(***************************************************************************)
(* KernelMemory implements PhysicalMemory, for every memory map and every  *)
(* position of the kernel: map(), walking the page tables it fills, asks   *)
(* for a frame exactly when init_physical's count of frames says so, and   *)
(* everything else that is requested is a request of PhysicalMemory.  With *)
(* that its invariants are invariants of the kernel's memory set-up.       *)
(*                                                                         *)
(* The second half is about the page map that init_virtual builds: it is a *)
(* tree of tables, so that map() changes one page and RAM stays mapped to  *)
(* itself.                                                                 *)
(***************************************************************************)
EXTENDS KernelMemory, PhysicalMemoryProofs

\* The tables that a page below the limit of the built-in bitmap is reached
\* through: prekernel_pml4, pml3 and pml2.
pml4 == PrekernelTables[1]
pml3 == PrekernelTables[2]
pml2 == PrekernelTables[4]
Upper == {pml4, pml3, pml2}

(***************************************************************************)
(* The inductive invariant.  Until the final bitmap is in use, the upper   *)
(* tables of the prekernel's page map are those it started with, except    *)
(* that pml2 has its first n entries: init_physical's tables were entered  *)
(* there in order.  The map() that runs is at one of them, or at a table   *)
(* that is none of them, and the pages it has reached lie below what the n *)
(* tables map.  A machine that the bitmap has been the end of does nothing *)
(* any more.                                                               *)
(***************************************************************************)
UpperTables(r, n) ==
    /\ \A t \in Upper : DOMAIN Table(r, t) = Slots
    /\ Table(r, pml4)[0] = To(pml3)
    /\ Table(r, pml3)[0] = To(pml2)
    /\ \A i \in Slots :
          /\ Table(r, pml2)[i].present <=> i < n
          /\ i < n => Table(r, pml2)[i].frame \notin Upper

Walking ==
    /\ at \in 1 .. FramesMapped
    /\ mapping = [root |-> pml4, page |-> at - 1, frame |-> at - 1,
                  level |-> mapping.level, table |-> mapping.table]
    /\ \/ mapping.level = 4 /\ mapping.table = pml4
       \/ mapping.level = 3 /\ mapping.table = pml3
       \/ mapping.level = 2 /\ mapping.table = pml2
       \/ mapping.level = 1 /\ mapping.table \notin Upper

\* The pages whose table is known to be there.
Reached == IF mapping.level > 1 THEN at - 1 ELSE at

MapsLowMemory ==
    /\ UpperTables(ram, entry)
    /\ KernelFrames \subseteq mem.PageMap.bits
    /\ (mapping = NoMapping /\ at \in Nat) \/ Walking
    /\ Reached <= entry * EntriesPerTable

Booting ==
    /\ pc = "init_physical"
    /\ active = pml4
    /\ IF phase = "map" THEN MapsLowMemory
       ELSE UpperTables(ram, 1) /\ mapping = NoMapping /\ at = 0

InOrder ==
    /\ pc \notin {"init_physical", "lost"} => phase = "ready"
    /\ cloning # NotCloning => pc = "running"
    /\ phase # "ready" => IF pc = "lost" THEN phase = "map" /\ mapping = NoMapping
                          ELSE Booting

KInv == IInv /\ InOrder

-----------------------------------------------------------------------------
(* Arithmetic of indexes, and what the tables hold after a write.          *)

LEMMA PutTable ==
  ASSUME NEW r, NEW f, NEW t, NEW g
  PROVE  Table(Put(r, f, t), g) = IF g = f THEN t ELSE Table(r, g)
BY DEF Table, Put

LEMMA WriteTable ==
  ASSUME NEW r, NEW f, NEW i, NEW e, NEW g
  PROVE  Table(Write(r, f, i, e), g) =
           IF g = f THEN [Table(r, f) EXCEPT ![i] = e] ELSE Table(r, g)
BY PutTable DEF Write

LEMMA TimesGrows ==
  ASSUME NEW x \in Nat, NEW y \in Nat, x <= y, NEW d \in Nat
  PROVE  x * d \in Nat /\ y * d \in Nat /\ x * d <= y * d
OBVIOUS

LEMMA DivBelow ==
  ASSUME NEW d \in Nat \ {0}, NEW p \in Nat, NEW k \in Nat
  PROVE  /\ p \div d \in Nat
         /\ p \div d < k <=> p < k * d
         /\ k <= p \div d <=> k * d <= p
<1> DEFINE q == p \div d
<1>1. q \in Nat /\ q * d <= p /\ p < (q + 1) * d
  OBVIOUS
<1> HIDE DEF q
<1>2. CASE q < k
  <2>1. q + 1 <= k
    BY <1>1, <1>2
  <2>2. (q + 1) * d <= k * d
    BY <1>1, <2>1
  <2>3. (q + 1) * d \in Nat /\ k * d \in Nat
    BY <1>1
  <2>4. p < k * d
    BY <1>1, <2>2, <2>3
  <2> QED BY <1>1, <1>2, <2>3, <2>4 DEF q
<1>3. CASE k <= q
  <2>1. k * d <= q * d
    BY <1>1, <1>3
  <2>2. q * d \in Nat /\ k * d \in Nat
    BY <1>1
  <2>3. k * d <= p
    BY <1>1, <2>1, <2>2
  <2> QED BY <1>1, <1>3, <2>2, <2>3 DEF q
<1> QED BY <1>1, <1>2, <1>3

LEMMA LowIndexes ==
  ASSUME NEW page \in Nat, page < EntriesPerTable * EntriesPerTable
  PROVE  /\ Index(page, 4) = 0
         /\ Index(page, 3) = 0
         /\ Index(page, 2) = page \div EntriesPerTable
         /\ 0 \in Slots
         /\ page \div EntriesPerTable \in Slots
<1> DEFINE n == EntriesPerTable
<1>1. n \in Nat /\ n > 1
  BY ConstantsAssumption, KernelMemoryAssumption
<1>2. n * n \in Nat \ {0} /\ n * n * n \in Nat \ {0} /\ n * n <= n * n * n
  BY <1>1
<1>3. Span[2] = n /\ Span[3] = n * n /\ Span[4] = n * n * n
  BY DEF Span
<1> HIDE DEF n
<1>4. page \div n \in Nat /\ page \div n < n
  BY <1>1, <1>2, DivBelow DEF n
<1>5. page \div (n * n) = 0
  <2>1. page < 1 * (n * n)
    BY <1>2 DEF n
  <2>2. page \div (n * n) \in Nat /\ page \div (n * n) < 1
    BY <1>2, <2>1, DivBelow
  <2> QED BY <2>2
<1>6. page \div (n * n * n) = 0
  <2>1. page < 1 * (n * n * n)
    BY <1>2 DEF n
  <2>2. page \div (n * n * n) \in Nat /\ page \div (n * n * n) < 1
    BY <1>2, <2>1, DivBelow
  <2> QED BY <2>2
<1>7. 0 % n = 0 /\ (page \div n) % n = page \div n
  BY <1>1, <1>4
<1>8. Slots = 0 .. n - 1
  BY DEF Slots, n
<1> QED BY <1>1, <1>3, <1>4, <1>5, <1>6, <1>7, <1>8 DEF Index, n

LEMMA UpperFrames ==
  /\ Upper \subseteq KernelFrames
  /\ Upper \subseteq Nat \ {0}
  /\ pml4 # pml3 /\ pml4 # pml2 /\ pml3 # pml2
  /\ KernelFrames \subseteq 0 .. 8 * (InitialPageBitmapPageCount \div 8) - 1
<1>1. /\ KernelPhysical \in Nat \ {0}
      /\ kernelPageCount \in Nat
  BY ConstantsAssumption, KernelMemoryAssumption DEF kernelPageCount
<1>2. InitialPageBitmapPageCount \div 8 \in Nat
  BY ConstantsAssumption
<1>3. KernelFrames \subseteq Nat \ {0}
  BY <1>1 DEF KernelFrames, Frames
<1>4. Upper \subseteq KernelFrames
  BY KernelMemoryAssumption DEF Upper, pml4, pml3, pml2
<1>5. pml4 # pml3 /\ pml4 # pml2 /\ pml3 # pml2
  BY KernelMemoryAssumption DEF pml4, pml3, pml2
<1>6. KernelFrames \subseteq 0 .. 8 * (InitialPageBitmapPageCount \div 8) - 1
  BY <1>1, <1>2, KernelMemoryAssumption DEF KernelFrames, Frames
<1> QED BY <1>3, <1>4, <1>5, <1>6

LEMMA LevelOfNoMapping ==
  NoMapping.level = 0 /\ NotCloning.level = 0
BY DEF NoMapping, NotCloning

(* request_page never answers with an upper table: these are the kernel's, *)
(* which is locked, and none is frame 0, which is the answer when there is *)
(* no memory left.                                                         *)
LEMMA TableRequest ==
  ASSUME IInv, KernelFrames \subseteq mem.PageMap.bits
  PROVE  /\ request_page(mem).frame \notin Upper
         /\ KernelFrames \subseteq request_page(mem).mem.PageMap.bits
<1> DEFINE a == request_page(mem)
<1>1. /\ PageFramesType(mem)
      /\ RequestType(mem, a)
      /\ \/ Refused(mem, a) /\ a.frame = nullptr
         \/ Granted(mem, a, 1)
  BY SoundNow, RequestPage1 DEF Sound
<1> HIDE DEF a
<1>2. CASE Refused(mem, a) /\ a.frame = nullptr
  BY <1>2, UpperFrames DEF Refused, nullptr, a
<1>3. CASE Granted(mem, a, 1)
  <2>1. a.frame \in Nat /\ a.frame \in Frames(a.frame, 1)
    BY <1>1 DEF RequestType, Frames
  <2>2. a.frame \notin mem.PageMap.bits
    BY <1>1, <1>3, <2>1, LockedIsBit DEF Granted
  <2>3. mem.PageMap.bits \subseteq a.mem.PageMap.bits
    BY <1>3 DEF Granted
  <2> QED BY <2>2, <2>3, UpperFrames DEF a
<1> QED BY <1>1, <1>2, <1>3 DEF a

(* Writing a table other than the upper ones leaves those as they are.     *)
LEMMA UpperTablesKept ==
  ASSUME NEW r, NEW n, UpperTables(r, n), NEW s,
         \A t \in Upper : Table(s, t) = Table(r, t)
  PROVE  UpperTables(s, n)
BY DEF UpperTables, Upper

-----------------------------------------------------------------------------
(* The steps of init_physical.                                             *)

LEMMA KInvInit ==
  ASSUME KInit
  PROVE  KInv
<1>1. /\ Init
      /\ ram = Prekernel /\ active = pml4 /\ pc = "init_physical" /\ at = 0
      /\ mapping = NoMapping /\ cloning = NotCloning /\ phase = "scan"
  BY DEF KInit, Init, pml4
<1>2. IInv
  BY <1>1, InvariantInit
<1>3. UpperTables(Prekernel, 1)
  <2> DEFINE pml1 == PrekernelTables[5]
             high == PrekernelTables[3]
             last == EntriesPerTable - 1
  <2>1. /\ 0 \in Slots /\ last \in Slots /\ last # 0
        /\ Slots \subseteq Nat
    BY ConstantsAssumption, KernelMemoryAssumption DEF Slots
  <2>2. /\ pml4 # pml3 /\ pml4 # high /\ pml4 # pml2 /\ pml4 # pml1
        /\ pml3 # high /\ pml3 # pml2 /\ pml3 # pml1
        /\ high # pml2 /\ high # pml1 /\ pml2 # pml1
    BY KernelMemoryAssumption DEF pml4, pml3, pml2
  <2>3. /\ pml4 \in DOMAIN Prekernel
        /\ pml3 \in DOMAIN Prekernel
        /\ pml2 \in DOMAIN Prekernel
    BY DEF Prekernel, pml4, pml3, pml2
  <2>4. /\ Table(Prekernel, pml4) = [Empty EXCEPT ![0] = To(pml3), ![last] = To(high)]
        /\ Table(Prekernel, pml3) = [Empty EXCEPT ![0] = To(pml2)]
        /\ Table(Prekernel, pml2) = [Empty EXCEPT ![0] = To(pml1)]
    BY <2>2, <2>3 DEF Table, Prekernel, pml4, pml3, pml2
  <2> HIDE DEF pml1, high, last
  <2>5. /\ \A t \in Upper : DOMAIN Table(Prekernel, t) = Slots
        /\ Table(Prekernel, pml4)[0] = To(pml3)
        /\ Table(Prekernel, pml3)[0] = To(pml2)
    BY <2>1, <2>2, <2>4 DEF Empty, Upper
  <2>6. ASSUME NEW i \in Slots
        PROVE  /\ Table(Prekernel, pml2)[i].present <=> i < 1
               /\ i < 1 => Table(Prekernel, pml2)[i].frame \notin Upper
    <3>1. CASE i = 0
      <4>1. Table(Prekernel, pml2)[i] = To(pml1)
        BY <2>1, <2>4, <3>1 DEF Empty
      <4> QED BY <2>2, <3>1, <4>1 DEF To, Upper
    <3>2. CASE i # 0
      <4>1. Table(Prekernel, pml2)[i] = Absent
        BY <2>4, <3>2 DEF Empty
      <4> QED BY <2>1, <3>2, <4>1 DEF Absent
    <3> QED BY <3>1, <3>2
  <2> QED BY <2>5, <2>6 DEF UpperTables
<1>4. InOrder
  BY <1>1, <1>3, LevelOfNoMapping DEF InOrder, Booting
<1> QED BY <1>2, <1>4 DEF KInv

LEMMA ScanKeeps ==
  ASSUME KInv, Scan
  PROVE  Next /\ InOrder'
<1>1. /\ phase = "scan" /\ phase' \in {"scan", "map", "halted"}
      /\ UNCHANGED <<pc, at, mapping, ram, active, cloning>>
      /\ phase' = "map" => UseInitialBitmap
  BY DEF Scan, paging, ScanDescriptor, HaltWithoutSegment, UseInitialBitmap
<1>2. /\ pc = "init_physical" /\ active = pml4
      /\ UpperTables(ram, 1) /\ mapping = NoMapping /\ at = 0
      /\ cloning # NotCloning => pc = "running"
  BY <1>1 DEF KInv, InOrder, Booting
<1>3. CASE phase' = "map"
  <2>1. entry' = 1 /\ mem' = InitialBitmap(mem)
    BY <1>1, <1>3 DEF UseInitialBitmap
  <2>2. KernelFrames \subseteq InitialBitmap(mem).PageMap.bits
    <3>1. InitialPageBitmapPageCount \div 8 \in Nat
      BY ConstantsAssumption
    <3>2. \A p \in KernelFrames : p < 8 * (InitialPageBitmapPageCount \div 8)
      BY <3>1, UpperFrames
    <3> QED BY <1>1, <3>2, InitialBitmapSound DEF KInv
  <2>3. Reached' = 0
    BY <1>1, <1>2, LevelOfNoMapping DEF Reached
  <2>4. EntriesPerTable \in Nat
    BY ConstantsAssumption
  <2>5. MapsLowMemory'
    BY <1>1, <1>2, <2>1, <2>2, <2>3, <2>4 DEF MapsLowMemory
  <2> QED BY <1>1, <1>2, <1>3, <2>5 DEF InOrder, Booting, Scan, Next, Boot
<1>4. CASE phase' # "map"
  BY <1>1, <1>2, <1>4 DEF InOrder, Booting, Scan, Next, Boot
<1> QED BY <1>3, <1>4

\* A map() that runs before the final bitmap is in use is init_physical's.
LEMMA NotLost ==
  ASSUME KInv, phase = "map",
         mapping # NoMapping \/ mapping.level > 0 \/ mapping.level > 1
  PROVE  pc # "lost"
BY LevelOfNoMapping DEF KInv, InOrder

\* What the invariant says while init_physical maps its frames.
LEMMA WhileMapping ==
  ASSUME KInv, phase = "map", pc # "lost"
  PROVE  /\ pc = "init_physical" /\ active = pml4
         /\ MapsLowMemory
         /\ cloning # NotCloning => pc = "running"
         /\ entry \in Nat \ {0}
         /\ mem.TotalPages \in Nat
         /\ FramesMapped \in Nat
         /\ FramesMapped <= mem.TotalPages
         /\ FramesMapped <= InitialPageBitmapPageCount
         /\ FramesMapped = mem.TotalPages \/ FramesMapped = InitialPageBitmapPageCount
         /\ FramesMapped <= EntriesPerTable * EntriesPerTable
<1>1. mem.TotalPages \in Nat /\ entry \in Nat \ {0}
  BY DEF KInv, IInv, TypeOK, PageFramesType
<1>2. /\ InitialPageBitmapPageCount \in Nat /\ EntriesPerTable \in Nat
      /\ InitialPageBitmapPageCount <= EntriesPerTable * EntriesPerTable
  BY ConstantsAssumption, KernelMemoryAssumption
<1>3. EntriesPerTable * EntriesPerTable \in Nat
  BY <1>2
<1> QED BY <1>1, <1>2, <1>3 DEF FramesMapped, KInv, InOrder, Booting

LEMMA MapLowMemoryKeeps ==
  ASSUME KInv, MapLowMemory
  PROVE  UNCHANGED vars /\ InOrder'
<1>1. /\ phase = "map" /\ at < FramesMapped /\ mapping = NoMapping /\ pc = "init_physical"
      /\ mapping' = Mapping(active, at, at)
      /\ at' = at + 1
      /\ UNCHANGED <<vars, pc, ram, active, cloning>>
  BY DEF MapLowMemory, At, MapNext, paging
<1>2. /\ pc = "init_physical" /\ active = pml4
      /\ MapsLowMemory
      /\ cloning # NotCloning => pc = "running"
      /\ FramesMapped \in Nat
  BY <1>1, WhileMapping
<1>3. at \in Nat /\ Reached = at
  BY <1>1, <1>2, LevelOfNoMapping DEF MapsLowMemory, Walking, Reached
<1>4. mapping' = [root |-> pml4, page |-> at, frame |-> at, level |-> 4, table |-> pml4]
  BY <1>1, <1>2, UpperFrames DEF Mapping, nullptr, Upper
<1>5. Walking' /\ Reached' = at
  <2>1. /\ mapping'.level = 4 /\ mapping'.table = pml4
        /\ at' \in Nat /\ at' - 1 = at
    BY <1>1, <1>3, <1>4
  <2>2. FramesMapped' = FramesMapped
    BY <1>1 DEF FramesMapped, vars
  <2>3. Reached' = at
    BY <2>1 DEF Reached
  <2> QED BY <1>1, <1>2, <1>3, <1>4, <2>1, <2>2, <2>3 DEF Walking
<1>6. MapsLowMemory'
  BY <1>1, <1>2, <1>3, <1>5 DEF MapsLowMemory, vars
<1> QED BY <1>1, <1>2, <1>6 DEF InOrder, Booting, vars

LEMMA SwitchBitmapKeeps ==
  ASSUME KInv, SwitchBitmap
  PROVE  UseFinalBitmap /\ InOrder'
<1>1. /\ phase = "map" /\ phase' = "ready" /\ mapping = NoMapping /\ pc = "init_physical"
      /\ at >= FramesMapped
      /\ mem' = FinalBitmap(mem)
      /\ UNCHANGED <<memMap, entry, largest, tables, devices, held, panicked, cloning>>
  BY DEF SwitchBitmap, At
<1>2. /\ MapsLowMemory
      /\ cloning # NotCloning => pc = "running"
      /\ pc = "init_physical"
      /\ entry \in Nat
      /\ mem.TotalPages \in Nat
      /\ FramesMapped = mem.TotalPages \/ FramesMapped = InitialPageBitmapPageCount
  BY <1>1, WhileMapping
<1>3. at \in Nat /\ at <= entry * EntriesPerTable
  BY <1>1, <1>2, LevelOfNoMapping DEF MapsLowMemory, Walking, Reached
<1>4. ~MappingTable
  <2>1. /\ InitialPageBitmapPageCount \in Nat
        /\ entry * EntriesPerTable \in Nat
    BY <1>2, ConstantsAssumption
  <2> QED BY <1>1, <1>2, <1>3, <2>1 DEF MappingTable
<1>5. UseFinalBitmap
  BY <1>1, <1>4 DEF UseFinalBitmap
<1> QED BY <1>1, <1>2, <1>5 DEF InOrder

LEMMA LoseMachineKeeps ==
  ASSUME KInv, LoseMachine
  PROVE  UNCHANGED vars /\ InOrder'
<1>1. /\ phase = "map" /\ mapping = NoMapping /\ pc' = "lost"
      /\ UNCHANGED <<vars, phase, mapping, cloning>>
      /\ pc = "init_physical"
  BY DEF LoseMachine, At, Go, paging, vars
<1>2. cloning = NotCloning
  BY <1>1 DEF KInv, InOrder
<1> QED BY <1>1, <1>2 DEF InOrder

-----------------------------------------------------------------------------
(* map() while init_physical maps its frames: only a page of the first     *)
(* pml2 entry that is missing needs a table, and that is the next one that *)
(* PhysicalMemory's count of frames asks for.                              *)

LEMMA WalkFacts ==
  ASSUME KInv, phase = "map", mapping.level > 0
  PROVE  /\ Walking
         /\ mapping.page = at - 1
         /\ mapping.page \in Nat
         /\ mapping.page < mem.TotalPages
         /\ mapping.page < InitialPageBitmapPageCount
         /\ mapping.page < EntriesPerTable * EntriesPerTable
         /\ at \in Nat
<1>1. /\ MapsLowMemory
      /\ mem.TotalPages \in Nat
      /\ FramesMapped \in Nat
      /\ FramesMapped <= mem.TotalPages
      /\ FramesMapped <= InitialPageBitmapPageCount
      /\ FramesMapped <= EntriesPerTable * EntriesPerTable
  BY WhileMapping, NotLost
<1>2. /\ InitialPageBitmapPageCount \in Nat
      /\ EntriesPerTable * EntriesPerTable \in Nat
  BY ConstantsAssumption
<1>3. Walking
  BY <1>1, LevelOfNoMapping DEF MapsLowMemory
<1>4. mapping.page = at - 1 /\ at \in 1 .. FramesMapped
  BY <1>3 DEF Walking
<1> QED BY <1>1, <1>2, <1>3, <1>4

\* What map() finds at each level.
LEMMA BelowIs ==
  ASSUME KInv, phase = "map", mapping.level > 1
  PROVE  /\ mapping.level = 4 => Below = To(pml3)
         /\ mapping.level = 3 => Below = To(pml2)
         /\ mapping.level = 2 =>
               /\ Below.present <=> mapping.page < entry * EntriesPerTable
               /\ Below.present => Below.frame \notin Upper
         /\ mapping.level \in {2, 3, 4}
<1> DEFINE i == mapping.page \div EntriesPerTable
<1>1. /\ Walking
      /\ mapping.page \in Nat
      /\ mapping.page < EntriesPerTable * EntriesPerTable
      /\ UpperTables(ram, entry)
      /\ entry \in Nat
  <2>1. mapping.level > 0
    <3>1. \/ mapping.level \in {1, 2, 3, 4}
          \/ mapping.level = 0
      BY WhileMapping, NotLost, LevelOfNoMapping DEF MapsLowMemory, Walking
    <3> QED BY <3>1
  <2> QED BY <2>1, WalkFacts, WhileMapping, NotLost DEF MapsLowMemory
<1>2. /\ Index(mapping.page, 4) = 0
      /\ Index(mapping.page, 3) = 0
      /\ Index(mapping.page, 2) = i
      /\ i \in Slots
  BY <1>1, LowIndexes
<1>3. i < entry <=> mapping.page < entry * EntriesPerTable
  BY <1>1, ConstantsAssumption, DivBelow
<1> HIDE DEF i
<1>4. CASE mapping.level = 4
  BY <1>1, <1>2, <1>4 DEF Walking, Below, Entry, UpperTables
<1>5. CASE mapping.level = 3
  BY <1>1, <1>2, <1>5 DEF Walking, Below, Entry, UpperTables
<1>6. CASE mapping.level = 2
  <2>1. Below = Table(ram, pml2)[i]
    BY <1>1, <1>2, <1>6 DEF Walking, Below, Entry
  <2> QED BY <1>1, <1>2, <1>3, <1>6, <2>1 DEF UpperTables
<1> QED BY <1>1, <1>4, <1>5, <1>6 DEF Walking

\* One level down: the map() stays in step with the tables that are there.
LEMMA WalkDown ==
  ASSUME KInv, phase = "map", mapping.level > 1, NEW table, Enter(table),
         mapping.level = 4 => table = pml3,
         mapping.level = 3 => table = pml2,
         mapping.level = 2 => table \notin Upper,
         FramesMapped' = FramesMapped, UNCHANGED <<phase, pc, at, active, cloning>>,
         UpperTables(ram', entry'),
         (KernelFrames \subseteq mem.PageMap.bits)',
         entry' \in Nat, entry' >= entry,
         mapping.level = 2 => mapping.page < entry' * EntriesPerTable
  PROVE  InOrder'
<1>1. /\ pc = "init_physical" /\ active = pml4
      /\ MapsLowMemory
      /\ cloning # NotCloning => pc = "running"
      /\ entry \in Nat
  BY WhileMapping, NotLost
<1>2. /\ mapping.level \in {2, 3, 4}
      /\ Walking /\ at \in Nat /\ mapping.page = at - 1
  <2>1. mapping.level \in {2, 3, 4}
    BY BelowIs
  <2> QED BY <2>1, WalkFacts
<1>3. /\ mapping'.level = mapping.level - 1
      /\ mapping' = [root |-> pml4, page |-> at - 1, frame |-> at - 1,
                     level |-> mapping.level - 1, table |-> table]
  <2>1. \E l, t : mapping = [root |-> pml4, page |-> at - 1, frame |-> at - 1,
                            level |-> l, table |-> t]
    BY <1>2 DEF Walking
  <2>2. PICK l, t : mapping = [root |-> pml4, page |-> at - 1, frame |-> at - 1,
                               level |-> l, table |-> t]
    BY <2>1
  <2>3. mapping.level = l
    BY <2>2
  <2>4. mapping' = [root |-> pml4, page |-> at - 1, frame |-> at - 1,
                    level |-> l - 1, table |-> table]
    BY <2>2, <2>3 DEF Enter
  <2> QED BY <2>3, <2>4
<1>4. Walking'
  <2>1. mapping'.level = mapping.level - 1 /\ mapping'.table = table
    BY <1>3
  <2>2. at' \in 1 .. FramesMapped'
    BY <1>2 DEF Walking
  <2>3. \/ mapping'.level = 4 /\ mapping'.table = pml4
        \/ mapping'.level = 3 /\ mapping'.table = pml3
        \/ mapping'.level = 2 /\ mapping'.table = pml2
        \/ mapping'.level = 1 /\ mapping'.table \notin Upper
    BY <1>2, <2>1
  <2> QED BY <1>3, <2>1, <2>2, <2>3 DEF Walking
<1>5. Reached' <= entry' * EntriesPerTable
  <2>1. /\ EntriesPerTable \in Nat
        /\ entry' * EntriesPerTable \in Nat
        /\ entry * EntriesPerTable \in Nat
        /\ entry * EntriesPerTable <= entry' * EntriesPerTable
    <3>1. EntriesPerTable \in Nat
      BY ConstantsAssumption
    <3> QED BY <1>1, <3>1, TimesGrows
  <2>2. CASE mapping.level = 2
    <3>1. Reached' = at
      BY <1>3, <2>2 DEF Reached
    <3> DEFINE limit == entry' * EntriesPerTable
    <3>2. limit \in Nat /\ mapping.page < limit
      BY <2>1, <2>2
    <3> HIDE DEF limit
    <3>3. at <= limit
      BY <1>2, <3>2
    <3> QED BY <3>1, <3>3, Zenon DEF limit
  <2>3. CASE mapping.level # 2
    <3>1. Reached' = at - 1 /\ Reached = at - 1
      BY <1>2, <1>3, <2>3 DEF Reached
    <3>2. Reached <= entry * EntriesPerTable
      BY <1>1 DEF MapsLowMemory
    <3> DEFINE low == entry * EntriesPerTable
               limit == entry' * EntriesPerTable
    <3>3. /\ low \in Nat /\ limit \in Nat /\ low <= limit
          /\ at - 1 <= low
      BY <2>1, <3>1, <3>2
    <3> HIDE DEF low, limit
    <3>4. at - 1 <= limit
      BY <1>2, <3>3
    <3> QED BY <3>1, <3>4, Zenon DEF limit
  <2> QED BY <2>2, <2>3
<1>6. MapsLowMemory'
  BY <1>4, <1>5 DEF MapsLowMemory
<1> QED BY <1>1, <1>6 DEF InOrder, Booting

LEMMA MapThroughTableKeeps ==
  ASSUME KInv, phase = "map", MapThroughTable
  PROVE  UNCHANGED vars /\ InOrder'
<1>1. /\ mapping.level > 1 /\ Below.present
      /\ Enter(Below.frame)
      /\ UNCHANGED <<vars, pc, at, ram, active, cloning>>
  BY DEF MapThroughTable, paging
<1>2. /\ MapsLowMemory
      /\ entry \in Nat
  BY <1>1, WhileMapping, NotLost
<1>3. /\ FramesMapped' = FramesMapped
      /\ UNCHANGED <<phase, pc, at, active, cloning>>
      /\ entry' \in Nat /\ entry' = entry /\ entry' >= entry
      /\ UpperTables(ram', entry')
      /\ (KernelFrames \subseteq mem.PageMap.bits)'
  BY <1>1, <1>2 DEF vars, FramesMapped, MapsLowMemory
<1>4. /\ mapping.level = 4 => Below.frame = pml3
      /\ mapping.level = 3 => Below.frame = pml2
      /\ mapping.level = 2 => /\ Below.frame \notin Upper
                              /\ mapping.page < entry' * EntriesPerTable
  BY <1>1, <1>3, BelowIs DEF To
<1> QED BY <1>1, <1>3, <1>4, WalkDown

LEMMA MapNewTableKeeps ==
  ASSUME KInv, phase = "map", MapNewTable
  PROVE  MapTable /\ InOrder'
<1> DEFINE answer == request_page(mem)
           new == answer.frame
           i == mapping.page \div EntriesPerTable
<1>1. /\ mapping.level > 1 /\ ~Below.present
      /\ TakeTable(answer)
      /\ ram' = Write(Clear(ram, new), mapping.table,
                      Index(mapping.page, mapping.level), To(new))
      /\ Enter(new)
      /\ UNCHANGED <<active, pc, at, cloning>>
  BY DEF MapNewTable
<1>2. mapping.level = 2 /\ entry * EntriesPerTable <= mapping.page
  <2>1. mapping.level = 2 /\ ~(mapping.page < entry * EntriesPerTable)
    BY <1>1, BelowIs DEF To
  <2>2. mapping.page \in Nat /\ entry * EntriesPerTable \in Nat
    BY <2>1, WalkFacts, WhileMapping, NotLost, ConstantsAssumption
  <2> QED BY <2>1, <2>2
<1>3. /\ Walking /\ mapping.table = pml2
      /\ mapping.page = at - 1
      /\ mapping.page \in Nat
      /\ mapping.page < mem.TotalPages
      /\ mapping.page < InitialPageBitmapPageCount
      /\ mapping.page < EntriesPerTable * EntriesPerTable
      /\ at \in Nat
  BY <1>2, WalkFacts DEF Walking
<1>4. /\ MapsLowMemory
      /\ entry \in Nat
      /\ EntriesPerTable \in Nat \ {0}
      /\ entry * EntriesPerTable \in Nat
      /\ InitialPageBitmapPageCount \in Nat
      /\ mem.TotalPages \in Nat
  BY <1>1, WhileMapping, NotLost, ConstantsAssumption
<1>5. MapTable
  <2>1. MappingTable
    BY <1>2, <1>3, <1>4 DEF MappingTable
  <2> QED BY <1>1, <2>1 DEF TakeTable, MapTable
<1>6. /\ phase' = phase /\ entry' = entry + 1
      /\ mem' = answer.mem
  BY <1>1 DEF TakeTable
<1>7. new \notin Upper /\ KernelFrames \subseteq answer.mem.PageMap.bits
  BY <1>4, TableRequest DEF KInv, MapsLowMemory
<1>8. FramesMapped' = FramesMapped
  <2>1. answer.mem.TotalPages = mem.TotalPages
    BY SoundNow, RequestPage1 DEF KInv, Sound, RequestType
  <2> HIDE DEF answer
  <2> QED BY <1>6, <2>1 DEF FramesMapped
<1> HIDE DEF answer
<1>9. i = entry /\ i \in Slots /\ Index(mapping.page, mapping.level) = i
      /\ mapping.page < (entry + 1) * EntriesPerTable
  <2>1. mapping.page <= entry * EntriesPerTable
    BY <1>2, <1>3, <1>4 DEF MapsLowMemory, Reached
  <2>2. entry * EntriesPerTable < (entry + 1) * EntriesPerTable
    BY <1>4
  <2>3. (entry + 1) * EntriesPerTable \in Nat
    BY <1>4
  <2>4. mapping.page < (entry + 1) * EntriesPerTable
    BY <1>3, <1>4, <2>1, <2>2, <2>3
  <2>5. i \in Nat /\ entry <= i /\ i < entry + 1
    <3>1. entry + 1 \in Nat
      BY <1>4
    <3> QED BY <1>2, <1>3, <1>4, <2>4, <3>1, DivBelow
  <2>6. i \in Slots /\ Index(mapping.page, 2) = i
    BY <1>3, LowIndexes
  <2> HIDE DEF i
  <2> QED BY <1>2, <1>4, <2>4, <2>5, <2>6
<1> HIDE DEF i, new
<1>10. UpperTables(ram', entry + 1)
  <2>1. UpperTables(ram, entry)
    BY <1>4 DEF MapsLowMemory
  <2>2. \A t \in Upper : Table(Clear(ram, new), t) = Table(ram, t)
    BY <1>7, PutTable DEF Clear
  <2>3. pml2 \in Upper /\ pml3 \in Upper /\ pml4 \in Upper
    BY DEF Upper
  <2>4. /\ Table(ram', pml4) = Table(ram, pml4)
        /\ Table(ram', pml3) = Table(ram, pml3)
        /\ Table(ram', pml2) = [Table(ram, pml2) EXCEPT ![i] = To(new)]
    BY <1>1, <1>3, <1>9, <2>2, <2>3, WriteTable, UpperFrames
  <2>5. ASSUME NEW j \in Slots
        PROVE  /\ Table(ram', pml2)[j].present <=> j < entry + 1
               /\ j < entry + 1 => Table(ram', pml2)[j].frame \notin Upper
    <3>1. DOMAIN Table(ram, pml2) = Slots /\ j \in Nat
      BY <2>1, <2>3 DEF UpperTables, Slots
    <3>2. CASE j = i
      <4>1. Table(ram', pml2)[j] = To(new)
        BY <2>4, <3>1, <3>2
      <4> QED BY <1>4, <1>7, <1>9, <3>1, <3>2, <4>1 DEF To
    <3>3. CASE j # i
      <4>1. Table(ram', pml2)[j] = Table(ram, pml2)[j]
        BY <2>4, <3>1, <3>3
      <4>2. j < entry + 1 <=> j < entry
        BY <1>4, <1>9, <3>1, <3>3
      <4> QED BY <2>1, <4>1, <4>2 DEF UpperTables
    <3> QED BY <3>2, <3>3
  <2>6. \A t \in Upper : DOMAIN Table(ram', t) = Slots
    BY <2>1, <2>4 DEF UpperTables, Upper
  <2> QED BY <2>1, <2>4, <2>5, <2>6 DEF UpperTables
<1>11. InOrder'
  <2>1. entry' \in Nat /\ entry' >= entry
    BY <1>4, <1>6
  <2>2. UpperTables(ram', entry')
    BY <1>6, <1>10
  <2>3. mapping.level = 2 => mapping.page < entry' * EntriesPerTable
    BY <1>6, <1>9
  <2>4. (KernelFrames \subseteq mem.PageMap.bits)'
    BY <1>6, <1>7
  <2>5. /\ mapping.level = 4 => new = pml3
        /\ mapping.level = 3 => new = pml2
        /\ mapping.level = 2 => new \notin Upper
    BY <1>2, <1>7
  <2> QED BY <1>1, <1>6, <1>8, <2>1, <2>2, <2>3, <2>4, <2>5, WalkDown
<1> QED BY <1>5, <1>11

LEMMA MapPageKeeps ==
  ASSUME KInv, phase = "map", MapPage
  PROVE  UNCHANGED vars /\ InOrder'
<1>1. /\ mapping.level = 1
      /\ ram' = Write(ram, mapping.table, Index(mapping.page, 1), To(mapping.frame))
      /\ mapping' = NoMapping
      /\ UNCHANGED <<vars, active, pc, at, cloning>>
  BY DEF MapPage
<1>2. /\ pc = "init_physical" /\ active = pml4
      /\ MapsLowMemory
      /\ cloning # NotCloning => pc = "running"
      /\ Walking
      /\ at \in Nat
  BY <1>1, WhileMapping, NotLost, WalkFacts
<1>3. UpperTables(ram', entry)
  <2>1. mapping.table \notin Upper
    BY <1>1, <1>2 DEF Walking
  <2>2. \A t \in Upper : Table(ram', t) = Table(ram, t)
    BY <1>1, <2>1, WriteTable
  <2> QED BY <1>2, <2>2, UpperTablesKept DEF MapsLowMemory
<1>4. Reached' = at /\ Reached = at
  BY <1>1, LevelOfNoMapping DEF Reached
<1>5. MapsLowMemory'
  BY <1>1, <1>2, <1>3, <1>4 DEF MapsLowMemory, vars
<1> QED BY <1>1, <1>2, <1>5 DEF InOrder, Booting, vars

-----------------------------------------------------------------------------
(* Once the final bitmap is in use, every request is one of PhysicalMemory *)
(* and nothing else touches the allocator.                                 *)

LEMMA GrantIsRequest ==
  ASSUME phase = "ready", NEW o \in {"tables", "heap", "renderer"},
         Grant(o, request_page(mem), 1)
  PROVE  Next /\ phase' = "ready"
<1>1. o \in Owner
  BY KernelMemoryAssumption
<1>2. RequestPage(o) /\ phase' = phase
  BY DEF RequestPage, Grant
<1> QED BY <1>1, <1>2 DEF Next, Run

LEMMA ReadyInOrder ==
  ASSUME phase' = "ready", cloning' # NotCloning => pc' = "running"
  PROVE  InOrder'
BY DEF InOrder

\* init_virtual, init_heap and the renderer's constructor.
LEMMA SetUpKeeps ==
  ASSUME KInv,
         \/ NewPageMap \/ MapRam \/ MapKernel \/ UnmapNull \/ flush_page_map
         \/ init_heap
         \/ LockFramebuffer \/ MapFramebuffer \/ RequestTarget \/ MapTarget
  PROVE  [Next]_vars /\ InOrder'
<1>1. /\ pc \notin {"init_physical", "lost"} => phase = "ready"
      /\ cloning # NotCloning => pc = "running"
  BY DEF KInv, InOrder
<1>2. ASSUME pc \notin {"init_physical", "lost", "running"}, cloning' = cloning,
             [Next]_vars, phase' = phase
      PROVE  [Next]_vars /\ InOrder'
  BY <1>1, <1>2, ReadyInOrder
<1>3. CASE NewPageMap
  <2>1. /\ pc \notin {"init_physical", "lost", "running"} /\ cloning' = cloning
        /\ Grant("tables", request_page(mem), 1)
    BY <1>3 DEF NewPageMap, At
  <2> QED BY <1>1, <1>2, <2>1, GrantIsRequest
<1>4. ASSUME NEW label, NEW turns, NEW root, NEW page, NEW frame, NEW next,
             label \notin {"init_physical", "lost", "running"},
             Loop(label, turns, root, page, frame, next)
      PROVE  [Next]_vars /\ InOrder'
  <2>1. /\ pc \notin {"init_physical", "lost", "running"}
        /\ UNCHANGED <<vars, cloning>>
    BY <1>4 DEF Loop, At, MapNext, paging
  <2> QED BY <1>2, <2>1 DEF vars
<1>5. CASE MapRam \/ MapKernel \/ MapFramebuffer \/ MapTarget
  BY <1>4, <1>5 DEF MapRam, MapKernel, MapFramebuffer, MapTarget
<1>6. CASE UnmapNull \/ flush_page_map
  <2>1. /\ pc \notin {"init_physical", "lost", "running"}
        /\ UNCHANGED <<vars, cloning>>
    BY <1>6 DEF UnmapNull, flush_page_map, At
  <2> QED BY <1>2, <2>1 DEF vars
<1>7. CASE init_heap
  <2>1. /\ pc \notin {"init_physical", "lost", "running"} /\ cloning' = cloning
        /\ Grant("heap", request_page(mem), 1)
    BY <1>7 DEF init_heap, At, HeapPage
  <2> QED BY <1>1, <1>2, <2>1, GrantIsRequest
<1>8. CASE LockFramebuffer
  <2>1. /\ pc \notin {"init_physical", "lost", "running"} /\ cloning' = cloning
        /\ LockDevice(FramebufferFrames)
    BY <1>8 DEF LockFramebuffer, At, paging
  <2>2. Next /\ phase' = phase
    BY <2>1, KernelMemoryAssumption DEF Next, Run, LockDevice
  <2> QED BY <1>2, <2>1, <2>2
<1>9. CASE RequestTarget
  <2>1. /\ pc \notin {"init_physical", "lost", "running"} /\ cloning' = cloning
        /\ Grant("renderer", request_pages(mem, fbPages), fbPages)
    BY <1>9 DEF RequestTarget, At
  <2>2. RequestPages("renderer", fbPages) /\ phase' = phase
    BY <1>1, <2>1 DEF RequestPages, Grant
  <2>3. "renderer" \in Owner /\ fbPages \in RunSizes
    BY KernelMemoryAssumption
  <2>4. Next
    BY <2>2, <2>3 DEF Next, Run
  <2> QED BY <1>2, <2>1, <2>2, <2>4
<1> QED BY <1>3, <1>5, <1>6, <1>7, <1>8, <1>9

LEMMA MapKeeps ==
  ASSUME KInv, map
  PROVE  [Next]_vars /\ InOrder'
<1>1. mapping # NoMapping
  BY LevelOfNoMapping DEF map, MapThroughTable, MapNewTable, MapPage
<1>2. /\ pc \notin {"init_physical", "lost"} => phase = "ready"
      /\ cloning # NotCloning => pc = "running"
      /\ phase \in {"map", "ready"}
  BY <1>1 DEF KInv, IInv, TypeOK, InOrder, Booting
<1>3. CASE phase = "map"
  BY <1>3, MapThroughTableKeeps, MapNewTableKeeps, MapPageKeeps DEF map, Next, Boot
<1>4. CASE phase = "ready"
  <2>1. pc' = pc /\ cloning' = cloning
    BY DEF map, MapThroughTable, MapNewTable, MapPage, paging
  <2>2. [Next]_vars /\ phase' = "ready"
    <3>1. CASE MapNewTable
      <4>1. Grant("tables", request_page(mem), 1)
        BY <1>4, <3>1 DEF MapNewTable, TakeTable
      <4> QED BY <1>4, <4>1, GrantIsRequest
    <3>2. CASE MapThroughTable \/ MapPage
      BY <1>4, <3>2 DEF MapThroughTable, MapPage, vars
    <3> QED BY <3>1, <3>2 DEF map
  <2> QED BY <1>2, <2>1, <2>2, ReadyInOrder
<1> QED BY <1>2, <1>3, <1>4

LEMMA RunningKeeps ==
  ASSUME KInv, Running
  PROVE  [Next]_vars /\ InOrder'
<1>1. pc = "running" /\ phase = "ready"
  <2>1. CASE expand_heap \/ clone_active_page_map
    BY <2>1 DEF expand_heap, clone_active_page_map, Idle, At, KInv, InOrder
  <2>2. CASE CloneTable \/ CloneEntered \/ CloneReturns
    <3>1. cloning.level > 1 \/ cloning.level \in {2, 3} \/ cloning.level = 4
      BY <2>2 DEF CloneTable, CloneEntered, CloneReturns
    <3>2. cloning # NotCloning
      BY <3>1, LevelOfNoMapping
    <3> QED BY <3>2 DEF KInv, InOrder
  <2> QED BY <2>1, <2>2 DEF Running
<1>2. pc' = "running"
  BY <1>1 DEF Running, expand_heap, clone_active_page_map, CloneTable, CloneEntered,
              CloneReturns, CloneUnchanged
<1>3. CASE \/ Grant("heap", request_page(mem), 1)
           \/ Grant("tables", request_page(mem), 1)
  BY <1>1, <1>2, <1>3, GrantIsRequest, ReadyInOrder
<1>4. CASE UNCHANGED vars
  BY <1>1, <1>2, <1>4, ReadyInOrder DEF vars
<1>5. \/ Grant("heap", request_page(mem), 1)
      \/ Grant("tables", request_page(mem), 1)
      \/ UNCHANGED vars
  BY DEF Running, expand_heap, HeapPage, clone_active_page_map, CloneTable,
         CloneEntered, CloneReturns
<1> QED BY <1>3, <1>4, <1>5

LEMMA KInvStep ==
  ASSUME KInv, [KNext]_kvars
  PROVE  [Next]_vars /\ KInv'
<1>1. [Next]_vars /\ InOrder'
  <2>1. CASE UNCHANGED kvars
    <3>1. UNCHANGED <<vars, ram, active, pc, at, mapping, cloning>>
      BY <2>1 DEF kvars
    <3>2. FramesMapped' = FramesMapped /\ Reached' = Reached /\ phase' = phase
      BY <3>1 DEF FramesMapped, Reached, vars
    <3>3. Walking' <=> Walking
      BY <3>1, <3>2 DEF Walking
    <3>4. MapsLowMemory' <=> MapsLowMemory
      BY <3>1, <3>2, <3>3 DEF MapsLowMemory, vars
    <3> QED BY <3>1, <3>2, <3>4 DEF KInv, InOrder, Booting
  <2>2. CASE KStage1
    BY <2>2, ScanKeeps, MapLowMemoryKeeps, SwitchBitmapKeeps, LoseMachineKeeps, SetUpKeeps
       DEF KStage1, Next, Boot
  <2>3. CASE map
    BY <2>3, MapKeeps
  <2>4. CASE Running
    BY <2>4, RunningKeeps
  <2> QED BY <2>1, <2>2, <2>3, <2>4 DEF KNext
<1> QED BY <1>1, InvariantStep DEF KInv

(* The inductive invariant of the whole, from power-on through kstage1 to  *)
(* the running kernel: in particular that of PhysicalMemory.               *)
THEOREM KernelInvariant == KSpec => []KInv
<1>1. KInit => KInv
  BY KInvInit
<1>2. KInv /\ [KNext]_kvars => KInv'
  BY KInvStep
<1> QED BY <1>1, <1>2, PTL DEF KSpec

(* map() and kstage1 use the page frame allocator as physical_memory_      *)
(* manager.cc's own loops count on: in init_physical a page table is       *)
(* requested exactly when EntriesPerTable more frames have been mapped,    *)
(* and from the switch of bitmaps on every step is a request of an owner,  *)
(* a lock of the framebuffer, or leaves the allocator alone.               *)
THEOREM MemorySetUpImplementsAllocator == KSpec => ImplementsPhysicalMemory
<1>1. KInit => Init
  BY DEF KInit
<1>2. KInv /\ [KNext]_kvars => [Next]_vars
  BY KInvStep
<1> QED BY <1>1, <1>2, KernelInvariant, PTL DEF KSpec, ImplementsPhysicalMemory

(* So what the allocator promises it promises to the booting kernel: types *)
(* and counters are right, the bitmap is exact, no search reaches a page   *)
(* table, through init_virtual, the heap, the renderer and every clone.    *)
THEOREM AllocatorInvariantsCarryOver ==
  KSpec => [](TypeOK /\ CountersMatch /\ TablesBelowSearch)
<1>1. KInv => TypeOK /\ CountersMatch /\ TablesBelowSearch
  BY DEF KInv, IInv
<1> QED BY <1>1, KernelInvariant, PTL

-----------------------------------------------------------------------------
(***************************************************************************)
(* The page map that init_virtual builds.  Its tables form a tree of four  *)
(* levels: no frame is a table of two levels, and no table is entered      *)
(* twice.  So a page map is changed where it is written, and there only.   *)
(***************************************************************************)
Level3(r, root) == Children(r, {root})
Level2(r, root) == Children(r, Level3(r, root))
Level1(r, root) == Children(r, Level2(r, root))
Nodes(r, root) == {root} \cup Level3(r, root) \cup Level2(r, root) \cup Level1(r, root)

NoSharing(r, S) ==
    \A t, u \in S : \A i, j \in Slots :
        /\ Table(r, t)[i].present
        /\ Table(r, u)[j].present
        /\ Table(r, t)[i].frame = Table(r, u)[j].frame
        => t = u /\ i = j

Tree(r, root) ==
    /\ \A t \in Nodes(r, root) : DOMAIN Table(r, t) = Slots
    /\ root \notin Level3(r, root) \cup Level2(r, root) \cup Level1(r, root)
    /\ Level3(r, root) \cap (Level2(r, root) \cup Level1(r, root)) = {}
    /\ Level2(r, root) \cap Level1(r, root) = {}
    /\ NoSharing(r, {root})
    /\ NoSharing(r, Level3(r, root))
    /\ NoSharing(r, Level2(r, root))

\* The entries on the way to a page; Leaf is the last.
Entry4(r, root, page) == Entry(r, root, page, 4)
Entry3(r, root, page) == Follow(r, Entry4(r, root, page), page, 3)
Entry2(r, root, page) == Follow(r, Entry3(r, root, page), page, 2)

Leads(e, table) == e.present /\ e.frame = table

Pages == 0 .. EntriesPerTable * EntriesPerTable * EntriesPerTable * EntriesPerTable - 1

(***************************************************************************)
(* The invariant.  Before the final bitmap is in use, tables are written   *)
(* to the kernel's frames and to those handed to map() only, and the first *)
(* entry of pml2 is pml1.  From then on pageMap is a tree of frames that   *)
(* are held for page tables; a running map() is on the way to its page; a  *)
(* running clone writes to held frames outside of the tree; and the pages  *)
(* of RAM that init_virtual has come to lead to themselves.                *)
(***************************************************************************)
pml1 == PrekernelTables[5]
Known == KernelFrames \cup tables

BootTables ==
    /\ pageMap = nullptr
    /\ ~starved
    /\ DOMAIN ram \subseteq Known
    /\ \A i \in Slots : Table(ram, pml2)[i].present => Table(ram, pml2)[i].frame \in Known
    /\ mapping # NoMapping => mapping.table \in Known

OldMap ==
    /\ active = pml4
    /\ Table(ram, pml4)[0] = To(pml3)
    /\ Table(ram, pml3)[0] = To(pml2)
    /\ Table(ram, pml2)[0] = To(pml1)

OnTheWay ==
    /\ mapping = [root |-> pageMap, page |-> mapping.page, frame |-> mapping.frame,
                  level |-> mapping.level, table |-> mapping.table]
    /\ mapping.page \in Pages
    /\ mapping.page < mem.TotalPages => mapping.frame = mapping.page
    /\ \/ mapping.level = 4 /\ mapping.table = pageMap
       \/ mapping.level = 3 /\ Leads(Entry4(ram, pageMap, mapping.page), mapping.table)
       \/ mapping.level = 2 /\ Leads(Entry3(ram, pageMap, mapping.page), mapping.table)
       \/ mapping.level = 1 /\ Leads(Entry2(ram, pageMap, mapping.page), mapping.table)

ClonesInto(c, S) ==
    /\ c = [level |-> c.level, old |-> c.old, new |-> c.new, slot |-> c.slot]
    /\ c.level \in {2, 3, 4}
    /\ DOMAIN c.new = 2 .. 4
    /\ \A l \in c.level .. 4 : c.new[l] \in S

CloneOutside == ClonesInto(cloning, held["tables"] \ Nodes(ram, pageMap))

\* The pages of RAM that lead to themselves.
RamTurns ==
    IF pc = "map_ram" THEN IF mapping = NoMapping THEN at ELSE mapping.page
    ELSE mem.TotalPages

PageMapBuilt ==
    /\ pageMap # nullptr
    /\ Tree(ram, pageMap)
    /\ Nodes(ram, pageMap) \subseteq held["tables"]
    /\ mapping # NoMapping => OnTheWay
    /\ cloning # NotCloning => CloneOutside
    /\ pc = "map_ram" /\ mapping # NoMapping => at = mapping.page + 1
    /\ \A p \in 0 .. mem.TotalPages - 1 : p < RamTurns => Maps(ram, pageMap, p, p)

Places ==
    /\ at \in Nat
    /\ heapPages \in 0 .. MaxHeapPages
    /\ ~Switched \/ pc = "init_heap" => heapPages = 0
    /\ pc \in {"init_physical", "lost"} => phase # "ready"
    /\ pc = "init_virtual" \/ cloning # NotCloning => mapping = NoMapping
    /\ Switched => active = pageMap

TreeInv ==
    /\ KInv
    /\ Places
    /\ pc \in {"init_physical", "lost", "init_virtual"} => BootTables
    /\ ~Switched /\ ~starved => OldMap
    /\ pc \notin {"init_physical", "lost", "init_virtual"} /\ ~starved => PageMapBuilt

-----------------------------------------------------------------------------
(* Indexes.                                                                *)

LEMMA Entries ==
  /\ EntriesPerTable \in Nat \ {0, 1}
  /\ Slots \subseteq Nat
  /\ 0 \in Slots
BY ConstantsAssumption, KernelMemoryAssumption DEF Slots

LEMMA IndexIsSlot ==
  ASSUME NEW page \in Nat, NEW level \in 1 .. 4
  PROVE  Index(page, level) \in Slots
<1> DEFINE n == EntriesPerTable
<1>1. n \in Nat \ {0}
  BY Entries
<1> HIDE DEF n
<1>2. n * n \in Nat \ {0} /\ n * n * n \in Nat \ {0}
  BY <1>1
<1>3. /\ Span[1] = 1 /\ Span[2] = n /\ Span[3] = n * n /\ Span[4] = n * n * n
  BY DEF Span, n
<1>4. Span[level] \in Nat \ {0}
  <2>1. level = 1 \/ level = 2 \/ level = 3 \/ level = 4
    OBVIOUS
  <2> QED BY <1>1, <1>2, <1>3, <2>1
<1>5. page \div Span[level] \in Nat
  BY <1>4
<1>6. (page \div Span[level]) % n \in 0 .. n - 1
  BY <1>1, <1>5
<1> QED BY <1>6 DEF Index, Slots, n

LEMMA DivMod ==
  ASSUME NEW p \in Nat, NEW d \in Nat \ {0}
  PROVE  /\ p \div d \in Nat /\ p % d \in Nat
         /\ p = (p \div d) * d + (p % d)
OBVIOUS

LEMMA DivUnique ==
  ASSUME NEW p \in Nat, NEW d \in Nat \ {0}, NEW q \in Nat, q * d <= p, p < (q + 1) * d
  PROVE  p \div d = q
<1>1. q <= p \div d /\ p \div d < q + 1
  BY DivBelow
<1>2. p \div d \in Nat
  BY DivMod
<1> QED BY <1>1, <1>2

LEMMA DivTwice ==
  ASSUME NEW p \in Nat, NEW c \in Nat \ {0}, NEW d \in Nat \ {0}
  PROVE  p \div (c * d) = (p \div c) \div d
<1> DEFINE a == p \div c
           q == a \div d
<1>1. a \in Nat /\ q \in Nat /\ c * d \in Nat \ {0}
  BY DivMod
<1>2. q * d <= a /\ a < (q + 1) * d
  <2>1. q <= a \div d /\ a \div d < q + 1
    BY <1>1
  <2> HIDE DEF q, a
  <2> QED BY <1>1, <2>1, DivBelow
<1>3. a * c <= p /\ p < (a + 1) * c
  BY <1>1, DivBelow
<1> HIDE DEF q, a
<1>4. q * (c * d) <= p
  <2>1. (q * d) * c <= a * c
    BY <1>1, <1>2, TimesGrows
  <2>2. (q * d) * c = q * (c * d)
    BY <1>1
  <2>3. (q * d) * c \in Nat /\ a * c \in Nat
    BY <1>1
  <2> QED BY <1>3, <2>1, <2>2, <2>3
<1>5. p < (q + 1) * (c * d)
  <2>1. a + 1 <= (q + 1) * d /\ (q + 1) * d \in Nat
    BY <1>1, <1>2
  <2>2. (a + 1) * c <= ((q + 1) * d) * c
    BY <1>1, <2>1, TimesGrows
  <2>3. ((q + 1) * d) * c = (q + 1) * (c * d)
    BY <1>1
  <2>4. (a + 1) * c \in Nat /\ ((q + 1) * d) * c \in Nat
    BY <1>1, <2>1
  <2> QED BY <1>3, <2>2, <2>3, <2>4
<1>6. p \div (c * d) = q
  BY <1>1, <1>4, <1>5, DivUnique
<1> QED BY <1>6 DEF q, a

(* A page is known by its four indexes.                                    *)
LEMMA IndexesTell ==
  ASSUME NEW p \in Pages, NEW q \in Pages,
         Index(p, 4) = Index(q, 4), Index(p, 3) = Index(q, 3),
         Index(p, 2) = Index(q, 2), Index(p, 1) = Index(q, 1)
  PROVE  p = q
<1> DEFINE n == EntriesPerTable
<1>1. n \in Nat \ {0}
  BY Entries
<1>2. ASSUME NEW x \in Pages
      PROVE  /\ x \in Nat
             /\ Index(x, 1) = x % n
             /\ Index(x, 2) = (x \div n) % n
             /\ Index(x, 3) = ((x \div n) \div n) % n
             /\ Index(x, 4) = ((x \div n) \div n) \div n
  <2> HIDE DEF n
  <2>1. n * n \in Nat \ {0} /\ n * n * n \in Nat \ {0} /\ n * n * n * n \in Nat \ {0}
    BY <1>1
  <2>2. x \in Nat /\ x < n * (n * n * n)
    <3>1. n * (n * n * n) = n * n * n * n
      BY <1>1
    <3> QED BY <2>1, <3>1 DEF Pages, n
  <2>3. /\ Span[1] = 1 /\ Span[2] = n /\ Span[3] = n * n /\ Span[4] = n * n * n
    BY DEF Span, n
  <2>4. x \div 1 = x
    BY <2>2
  <2>5. x \div (n * n) = (x \div n) \div n
    BY <1>1, <2>2, DivTwice
  <2>6. x \div (n * n * n) = ((x \div n) \div n) \div n
    <3>1. x \div ((n * n) * n) = (x \div (n * n)) \div n
      BY <1>1, <2>1, <2>2, DivTwice
    <3> QED BY <2>5, <3>1
  <2>7. x \div (n * n * n) \in Nat /\ x \div (n * n * n) < n
    BY <1>1, <2>1, <2>2, DivBelow
  <2>8. (x \div (n * n * n)) % n = x \div (n * n * n)
    BY <1>1, <2>7
  <2>9. /\ Index(x, 1) = (x \div Span[1]) % n
        /\ Index(x, 2) = (x \div Span[2]) % n
        /\ Index(x, 3) = (x \div Span[3]) % n
        /\ Index(x, 4) = (x \div Span[4]) % n
    BY DEF Index, n
  <2> QED BY <2>2, <2>3, <2>4, <2>5, <2>6, <2>8, <2>9, Zenon
<1>3. /\ p \in Nat /\ q \in Nat
      /\ p % n = q % n
      /\ (p \div n) % n = (q \div n) % n
      /\ ((p \div n) \div n) % n = ((q \div n) \div n) % n
      /\ ((p \div n) \div n) \div n = ((q \div n) \div n) \div n
  BY <1>2, Zenon
<1> HIDE DEF n
<1>4. ASSUME NEW x \in Nat, NEW y \in Nat, x % n = y % n, x \div n = y \div n
      PROVE  x = y
  <2>1. x = (x \div n) * n + (x % n) /\ y = (y \div n) * n + (y % n)
    BY <1>1, DivMod
  <2> QED BY <1>4, <2>1, Zenon
<1>5. /\ p \div n \in Nat /\ q \div n \in Nat
      /\ (p \div n) \div n \in Nat /\ (q \div n) \div n \in Nat
  BY <1>1, <1>3, DivMod
<1>6. (p \div n) \div n = (q \div n) \div n
  BY <1>3, <1>4, <1>5, Zenon
<1>7. p \div n = q \div n
  BY <1>3, <1>4, <1>5, <1>6, Zenon
<1> QED BY <1>3, <1>4, <1>7, Zenon

-----------------------------------------------------------------------------
(* Trees of page tables under writes.                                      *)

LEMMA ChildrenAre ==
  ASSUME NEW r, NEW S, NEW f
  PROVE  f \in Children(r, S) <=>
           \E t \in S : \E i \in Slots : Table(r, t)[i].present /\ f = Table(r, t)[i].frame
<1>1. ASSUME NEW t \in S, NEW i \in Slots, Table(r, t)[i].present
      PROVE  Table(r, t)[i].frame \in Children(r, S)
  <2> DEFINE x == <<t, i>>
  <2>1. x \in {y \in S \X Slots : Table(r, y[1])[y[2]].present}
    BY <1>1
  <2>2. Table(r, x[1])[x[2]].frame \in Children(r, S)
    BY <2>1, Zenon DEF Children
  <2> QED BY <2>2
<1>2. ASSUME f \in Children(r, S)
      PROVE  \E t \in S : \E i \in Slots : Table(r, t)[i].present /\ f = Table(r, t)[i].frame
  <2>1. PICK x \in {y \in S \X Slots : Table(r, y[1])[y[2]].present} :
            f = Table(r, x[1])[x[2]].frame
    BY <1>2, Zenon DEF Children
  <2>2. x[1] \in S /\ x[2] \in Slots /\ Table(r, x[1])[x[2]].present
    BY <2>1
  <2> QED BY <2>1, <2>2
<1> QED BY <1>1, <1>2

LEMMA SameChildren ==
  ASSUME NEW r, NEW s, NEW S, \A t \in S : Table(s, t) = Table(r, t)
  PROVE  /\ Children(s, S) = Children(r, S)
         /\ NoSharing(r, S) => NoSharing(s, S)
<1>1. ASSUME NEW f PROVE f \in Children(s, S) <=> f \in Children(r, S)
  BY ChildrenAre
<1>2. Children(s, S) = Children(r, S)
  BY <1>1
<1> QED BY <1>2 DEF NoSharing

(* What is written elsewhere leaves a page map as it is.                   *)
LEMMA TreeElsewhere ==
  ASSUME NEW r, NEW s, NEW root, Tree(r, root),
         \A t \in Nodes(r, root) : Table(s, t) = Table(r, t)
  PROVE  /\ Tree(s, root)
         /\ Level3(s, root) = Level3(r, root)
         /\ Level2(s, root) = Level2(r, root)
         /\ Level1(s, root) = Level1(r, root)
         /\ Nodes(s, root) = Nodes(r, root)
<1>1. Level3(s, root) = Level3(r, root) /\ NoSharing(s, {root})
  BY SameChildren DEF Level3, Nodes, Tree
<1>2. Level2(s, root) = Level2(r, root) /\ NoSharing(s, Level3(s, root))
  BY <1>1, SameChildren DEF Level2, Nodes, Tree
<1>3. Level1(s, root) = Level1(r, root) /\ NoSharing(s, Level2(s, root))
  BY <1>2, SameChildren DEF Level1, Nodes, Tree
<1>4. Nodes(s, root) = Nodes(r, root)
  BY <1>1, <1>2, <1>3 DEF Nodes
<1> QED BY <1>1, <1>2, <1>3, <1>4 DEF Tree

(* The tables on the way to a page.                                        *)
LEMMA WayIsInTree ==
  ASSUME NEW r, NEW root, NEW page \in Nat
  PROVE  /\ Entry4(r, root, page).present => Entry4(r, root, page).frame \in Level3(r, root)
         /\ Entry3(r, root, page).present =>
               /\ Entry4(r, root, page).present
               /\ Entry3(r, root, page).frame \in Level2(r, root)
         /\ Entry2(r, root, page).present =>
               /\ Entry3(r, root, page).present
               /\ Entry2(r, root, page).frame \in Level1(r, root)
         /\ Leaf(r, root, page).present => Entry2(r, root, page).present
<1>1. \A level \in 1 .. 4 : Index(page, level) \in Slots
  BY IndexIsSlot
<1>2. ~Absent.present
  BY DEF Absent
<1>3. Entry4(r, root, page).present => Entry4(r, root, page).frame \in Level3(r, root)
  BY <1>1, ChildrenAre DEF Entry4, Entry, Level3
<1>4. Entry3(r, root, page).present =>
         /\ Entry4(r, root, page).present
         /\ Entry3(r, root, page).frame \in Level2(r, root)
  BY <1>1, <1>2, <1>3, ChildrenAre DEF Entry3, Follow, Entry, Level2
<1>5. Entry2(r, root, page).present =>
         /\ Entry3(r, root, page).present
         /\ Entry2(r, root, page).frame \in Level1(r, root)
  BY <1>1, <1>2, <1>4, ChildrenAre DEF Entry2, Follow, Entry, Level1
<1>6. Leaf(r, root, page) = Follow(r, Entry2(r, root, page), page, 1)
  BY DEF Leaf, Entry2, Entry3, Entry4
<1> QED BY <1>2, <1>3, <1>4, <1>5, <1>6 DEF Follow

(* The entries on the way are those of the tables: where the tables of a   *)
(* level are unchanged, so is what they say.                               *)
LEMMA SameWay ==
  ASSUME NEW r, NEW s, NEW root, NEW page \in Nat
  PROVE  /\ Table(s, root) = Table(r, root) =>
               Entry4(s, root, page) = Entry4(r, root, page)
         /\ /\ Entry4(s, root, page) = Entry4(r, root, page)
            /\ \A t \in Level3(r, root) : Table(s, t) = Table(r, t)
            => Entry3(s, root, page) = Entry3(r, root, page)
         /\ /\ Entry3(s, root, page) = Entry3(r, root, page)
            /\ \A t \in Level2(r, root) : Table(s, t) = Table(r, t)
            => Entry2(s, root, page) = Entry2(r, root, page)
         /\ /\ Entry2(s, root, page) = Entry2(r, root, page)
            /\ \A t \in Level1(r, root) : Table(s, t) = Table(r, t)
            => Leaf(s, root, page) = Leaf(r, root, page)
<1>1. Table(s, root) = Table(r, root) =>
         Entry4(s, root, page) = Entry4(r, root, page)
  BY DEF Entry4, Entry
<1>2. /\ Entry4(s, root, page) = Entry4(r, root, page)
      /\ \A t \in Level3(r, root) : Table(s, t) = Table(r, t)
      => Entry3(s, root, page) = Entry3(r, root, page)
  BY WayIsInTree DEF Entry3, Follow, Entry
<1>3. /\ Entry3(s, root, page) = Entry3(r, root, page)
      /\ \A t \in Level2(r, root) : Table(s, t) = Table(r, t)
      => Entry2(s, root, page) = Entry2(r, root, page)
  BY WayIsInTree DEF Entry2, Follow, Entry
<1>4. /\ Leaf(r, root, page) = Follow(r, Entry2(r, root, page), page, 1)
      /\ Leaf(s, root, page) = Follow(s, Entry2(s, root, page), page, 1)
  BY DEF Leaf, Entry2, Entry3, Entry4
<1>5. /\ Entry2(s, root, page) = Entry2(r, root, page)
      /\ \A t \in Level1(r, root) : Table(s, t) = Table(r, t)
      => Leaf(s, root, page) = Leaf(r, root, page)
  BY <1>4, WayIsInTree DEF Follow, Entry
<1> QED BY <1>1, <1>2, <1>3, <1>5

LEMMA WayElsewhere ==
  ASSUME NEW r, NEW s, NEW root, NEW page \in Nat,
         \A t \in Nodes(r, root) : Table(s, t) = Table(r, t)
  PROVE  /\ Entry4(s, root, page) = Entry4(r, root, page)
         /\ Entry3(s, root, page) = Entry3(r, root, page)
         /\ Entry2(s, root, page) = Entry2(r, root, page)
         /\ Leaf(s, root, page) = Leaf(r, root, page)
BY SameWay DEF Nodes

(* The entry of a page, written in its table of the last level.            *)
LEMMA LeafWritten ==
  ASSUME NEW r, NEW root, Tree(r, root), NEW t \in Level1(r, root), NEW i \in Slots, NEW e
  PROVE  LET s == Write(r, t, i, e) IN
         /\ Tree(s, root)
         /\ Nodes(s, root) = Nodes(r, root)
         /\ \A page \in Nat :
               /\ Entry4(s, root, page) = Entry4(r, root, page)
               /\ Entry3(s, root, page) = Entry3(r, root, page)
               /\ Entry2(s, root, page) = Entry2(r, root, page)
               /\ Leaf(s, root, page) =
                     IF /\ Entry2(r, root, page).present
                        /\ Entry2(r, root, page).frame = t
                        /\ Index(page, 1) = i
                     THEN e ELSE Leaf(r, root, page)
<1> DEFINE s == Write(r, t, i, e)
<1>1. \A g : Table(s, g) = IF g = t THEN [Table(r, t) EXCEPT ![i] = e] ELSE Table(r, g)
  BY WriteTable
<1> HIDE DEF s
<1>2. /\ t # root /\ t \notin Level3(r, root) /\ t \notin Level2(r, root)
      /\ DOMAIN Table(r, t) = Slots
  BY DEF Tree, Nodes
<1>3. /\ Table(s, root) = Table(r, root)
      /\ \A u \in Level3(r, root) \cup Level2(r, root) : Table(s, u) = Table(r, u)
  BY <1>1, <1>2
<1>4. Level3(s, root) = Level3(r, root) /\ NoSharing(s, {root})
  BY <1>3, SameChildren DEF Level3, Tree
<1>5. Level2(s, root) = Level2(r, root) /\ NoSharing(s, Level3(s, root))
  BY <1>3, <1>4, SameChildren DEF Level2, Tree
<1>6. Level1(s, root) = Level1(r, root) /\ NoSharing(s, Level2(s, root))
  BY <1>3, <1>5, SameChildren DEF Level1, Tree
<1>7. Nodes(s, root) = Nodes(r, root)
  BY <1>4, <1>5, <1>6 DEF Nodes
<1>8. \A u \in Nodes(s, root) : DOMAIN Table(s, u) = Slots
  BY <1>1, <1>2, <1>7 DEF Tree
<1>9. Tree(s, root)
  BY <1>4, <1>5, <1>6, <1>8 DEF Tree
<1>10. ASSUME NEW page \in Nat
       PROVE  /\ Entry4(s, root, page) = Entry4(r, root, page)
              /\ Entry3(s, root, page) = Entry3(r, root, page)
              /\ Entry2(s, root, page) = Entry2(r, root, page)
              /\ Leaf(s, root, page) =
                     IF /\ Entry2(r, root, page).present
                        /\ Entry2(r, root, page).frame = t
                        /\ Index(page, 1) = i
                     THEN e ELSE Leaf(r, root, page)
  <2>1. /\ Entry4(s, root, page) = Entry4(r, root, page)
        /\ Entry3(s, root, page) = Entry3(r, root, page)
        /\ Entry2(s, root, page) = Entry2(r, root, page)
    BY <1>3, SameWay
  <2>2. /\ Leaf(r, root, page) = Follow(r, Entry2(r, root, page), page, 1)
        /\ Leaf(s, root, page) = Follow(s, Entry2(r, root, page), page, 1)
    BY <2>1 DEF Leaf, Entry2, Entry3, Entry4
  <2>3. Index(page, 1) \in Slots
    BY IndexIsSlot
  <2> QED BY <1>1, <1>2, <2>1, <2>2, <2>3 DEF Follow, Entry
<1> QED BY <1>7, <1>9, <1>10 DEF s

(* Two pages never share the place of their entry.                         *)
LEMMA OnePage ==
  ASSUME NEW r, NEW root, Tree(r, root), NEW p \in Pages, NEW q \in Pages,
         Entry2(r, root, p).present, Entry2(r, root, q).present,
         Entry2(r, root, p).frame = Entry2(r, root, q).frame,
         Index(p, 1) = Index(q, 1)
  PROVE  p = q
<1>1. p \in Nat /\ q \in Nat
  BY DEF Pages
<1>2. \A level \in 1 .. 4 : Index(p, level) \in Slots /\ Index(q, level) \in Slots
  BY <1>1, IndexIsSlot
<1>3. /\ Entry3(r, root, p).present /\ Entry3(r, root, q).present
      /\ Entry4(r, root, p).present /\ Entry4(r, root, q).present
      /\ Entry4(r, root, p).frame \in Level3(r, root)
      /\ Entry4(r, root, q).frame \in Level3(r, root)
      /\ Entry3(r, root, p).frame \in Level2(r, root)
      /\ Entry3(r, root, q).frame \in Level2(r, root)
  BY <1>1, WayIsInTree
<1>4. Entry3(r, root, p).frame = Entry3(r, root, q).frame /\ Index(p, 2) = Index(q, 2)
  BY <1>2, <1>3 DEF Tree, NoSharing, Entry2, Follow, Entry
<1>5. Entry4(r, root, p).frame = Entry4(r, root, q).frame /\ Index(p, 3) = Index(q, 3)
  BY <1>2, <1>3, <1>4 DEF Tree, NoSharing, Entry3, Follow, Entry
<1>6. Index(p, 4) = Index(q, 4)
  BY <1>2, <1>3, <1>5 DEF Tree, NoSharing, Entry4, Entry
<1> QED BY <1>4, <1>5, <1>6, IndexesTell

(* A new table, cleared and entered where there was none.                  *)
Entered(r, s, t, i, f) ==
    \A g : Table(s, g) = IF g = t THEN [Table(r, t) EXCEPT ![i] = To(f)]
                         ELSE IF g = f THEN Empty ELSE Table(r, g)

LEMMA EnteredIs ==
  ASSUME NEW r, NEW t, NEW i, NEW f, f # t
  PROVE  Entered(r, Write(Clear(r, f), t, i, To(f)), t, i, f)
BY PutTable, WriteTable DEF Entered, Clear

LEMMA GrownChildren ==
  ASSUME NEW r, NEW s, NEW S, NEW t \in S, NEW i \in Slots, NEW f, f \notin S,
         Entered(r, s, t, i, f), DOMAIN Table(r, t) = Slots, ~Table(r, t)[i].present
  PROVE  /\ Children(s, S) = Children(r, S) \cup {f}
         /\ NoSharing(r, S) /\ f \notin Children(r, S) => NoSharing(s, S)
<1>1. ASSUME NEW u \in S, NEW j \in Slots
      PROVE  /\ u = t /\ j = i => Table(s, u)[j].present /\ Table(s, u)[j].frame = f
             /\ ~(u = t /\ j = i) => Table(s, u)[j] = Table(r, u)[j]
  <2>1. CASE u = t /\ j = i
    <3>1. Table(s, u)[j] = To(f)
      BY <2>1 DEF Entered
    <3> QED BY <2>1, <3>1 DEF To
  <2>2. CASE u = t /\ j # i
    BY <2>2 DEF Entered
  <2>3. CASE u # t
    BY <2>3 DEF Entered
  <2> QED BY <2>1, <2>2, <2>3
<1>2. ASSUME NEW g PROVE g \in Children(s, S) <=> g \in Children(r, S) \cup {f}
  <2>1. ASSUME g \in Children(s, S) PROVE g \in Children(r, S) \cup {f}
    <3>1. PICK u \in S, j \in Slots : Table(s, u)[j].present /\ g = Table(s, u)[j].frame
      BY <2>1, ChildrenAre
    <3> QED BY <1>1, <3>1, ChildrenAre
  <2>2. ASSUME g \in Children(r, S) PROVE g \in Children(s, S)
    <3>1. PICK u \in S, j \in Slots : Table(r, u)[j].present /\ g = Table(r, u)[j].frame
      BY <2>2, ChildrenAre
    <3> QED BY <1>1, <3>1, ChildrenAre
  <2>3. f \in Children(s, S)
    BY <1>1, ChildrenAre
  <2> QED BY <2>1, <2>2, <2>3
<1>3. ASSUME NoSharing(r, S), f \notin Children(r, S),
             NEW u \in S, NEW v \in S, NEW j \in Slots, NEW k \in Slots,
             Table(s, u)[j].present, Table(s, v)[k].present,
             Table(s, u)[j].frame = Table(s, v)[k].frame
      PROVE  u = v /\ j = k
  <2>1. \A w \in S : \A l \in Slots : Table(r, w)[l].present => Table(r, w)[l].frame # f
    BY <1>3, ChildrenAre
  <2> QED BY <1>1, <1>3, <2>1 DEF NoSharing
<1>4. Children(s, S) = Children(r, S) \cup {f}
  BY <1>2
<1>5. NoSharing(r, S) /\ f \notin Children(r, S) => NoSharing(s, S)
  BY <1>3 DEF NoSharing
<1> QED BY <1>4, <1>5

LEMMA ChildlessTable ==
  ASSUME NEW r, NEW s, NEW S, NEW f, Table(s, f) = Empty,
         \A u \in S : Table(s, u) = Table(r, u)
  PROVE  /\ Children(s, S \cup {f}) = Children(r, S)
         /\ NoSharing(r, S) => NoSharing(s, S \cup {f})
<1>1. \A j \in Slots : ~Table(s, f)[j].present
  BY DEF Empty, Absent
<1>2. ASSUME NEW g PROVE g \in Children(s, S \cup {f}) <=> g \in Children(r, S)
  BY <1>1, ChildrenAre
<1>3. Children(s, S \cup {f}) = Children(r, S)
  BY <1>2
<1>4. NoSharing(r, S) => NoSharing(s, S \cup {f})
  BY <1>1 DEF NoSharing
<1> QED BY <1>3, <1>4

\* The tree has one table more and leads every page where it did.
OneTableMore(r, s, root, f) ==
    /\ Tree(s, root)
    /\ Nodes(s, root) = Nodes(r, root) \cup {f}
    /\ \A page \in Nat : Leaf(s, root, page) = Leaf(r, root, page)

LEMMA EnteredTables ==
  ASSUME NEW r, NEW s, NEW root, NEW t \in Nodes(r, root), NEW i \in Slots,
         NEW f, f \notin Nodes(r, root), Tree(r, root), Entered(r, s, t, i, f)
  PROVE  /\ Table(s, f) = Empty
         /\ \A g \in Nodes(r, root) : g # t => Table(s, g) = Table(r, g)
         /\ \A g \in Nodes(r, root) \cup {f} : DOMAIN Table(s, g) = Slots
         /\ \A page \in Nat : \A level \in 1 .. 4 :
               Follow(s, To(f), page, level) = Absent
<1>1. Table(s, f) = Empty
  BY DEF Entered
<1>2. \A g \in Nodes(r, root) : g # t => Table(s, g) = Table(r, g)
  BY DEF Entered
<1>3. Table(s, t) = [Table(r, t) EXCEPT ![i] = To(f)]
  BY DEF Entered
<1>4. \A g \in Nodes(r, root) \cup {f} : DOMAIN Table(s, g) = Slots
  BY <1>1, <1>2, <1>3 DEF Tree, Empty
<1>5. \A page \in Nat : \A level \in 1 .. 4 : Follow(s, To(f), page, level) = Absent
  BY <1>1, IndexIsSlot DEF Follow, To, Entry, Empty
<1> QED BY <1>1, <1>2, <1>4, <1>5

(* A table of the second level from above, entered in the root.            *)
LEMMA TableInRoot ==
  ASSUME NEW r, NEW s, NEW root, NEW i \in Slots, NEW f, f \notin Nodes(r, root),
         Tree(r, root), Entered(r, s, root, i, f), ~Table(r, root)[i].present
  PROVE  /\ OneTableMore(r, s, root, f)
         /\ \A page \in Nat : Index(page, 4) = i => Leads(Entry4(s, root, page), f)
<1>1. /\ root \in Nodes(r, root) /\ DOMAIN Table(r, root) = Slots
      /\ f # root /\ f \notin Level3(r, root)
      /\ f \notin Level2(r, root) /\ f \notin Level1(r, root)
      /\ root \notin Level3(r, root) /\ root \notin Level2(r, root)
      /\ root \notin Level1(r, root)
  BY DEF Nodes, Tree
<1>2. /\ Table(s, f) = Empty
      /\ \A g \in Level3(r, root) \cup Level2(r, root) \cup Level1(r, root) :
            Table(s, g) = Table(r, g)
      /\ \A g \in Nodes(r, root) \cup {f} : DOMAIN Table(s, g) = Slots
      /\ \A page \in Nat : \A level \in 1 .. 4 : Follow(s, To(f), page, level) = Absent
  <2>1. /\ Table(s, f) = Empty
        /\ \A g \in Nodes(r, root) : g # root => Table(s, g) = Table(r, g)
        /\ \A g \in Nodes(r, root) \cup {f} : DOMAIN Table(s, g) = Slots
        /\ \A page \in Nat : \A level \in 1 .. 4 :
              Follow(s, To(f), page, level) = Absent
    BY <1>1, EnteredTables
  <2> QED BY <1>1, <2>1 DEF Nodes
<1>3. Level3(s, root) = Level3(r, root) \cup {f} /\ NoSharing(s, {root})
  BY <1>1, GrownChildren DEF Level3, Tree
<1>4. /\ Level2(s, root) = Level2(r, root)
      /\ NoSharing(s, Level3(s, root))
  BY <1>2, <1>3, ChildlessTable DEF Level2, Tree
<1>5. Level1(s, root) = Level1(r, root) /\ NoSharing(s, Level2(s, root))
  BY <1>2, <1>4, SameChildren DEF Level1, Tree
<1>6. Nodes(s, root) = Nodes(r, root) \cup {f}
  BY <1>3, <1>4, <1>5 DEF Nodes
<1>7. Tree(s, root)
  <2>1. /\ root \notin Level3(s, root) \cup Level2(s, root) \cup Level1(s, root)
        /\ Level3(s, root) \cap (Level2(s, root) \cup Level1(s, root)) = {}
        /\ Level2(s, root) \cap Level1(s, root) = {}
    BY <1>1, <1>3, <1>4, <1>5 DEF Tree
  <2> QED BY <1>2, <1>3, <1>4, <1>5, <1>6, <2>1 DEF Tree
<1>8. ASSUME NEW page \in Nat
      PROVE  /\ Index(page, 4) = i => Leads(Entry4(s, root, page), f)
             /\ Leaf(s, root, page) = Leaf(r, root, page)
  <2>1. Index(page, 4) \in Slots
    BY IndexIsSlot
  <2>2. CASE Index(page, 4) = i
    <3>1. Entry4(s, root, page) = To(f) /\ ~Entry4(r, root, page).present
      BY <1>1, <2>2 DEF Entry4, Entry, Entered
    <3>2. Entry3(s, root, page) = Absent
      BY <1>2, <3>1 DEF Entry3
    <3>3. ~Leaf(s, root, page).present /\ ~Absent.present
      BY <3>2, WayIsInTree DEF Absent
    <3>4. Leaf(s, root, page) = Absent /\ Leaf(r, root, page) = Absent
      BY <3>1, <3>2, <3>3 DEF Leaf, Entry4, Entry3, Follow
    <3> QED BY <3>1, <3>4 DEF Leads, To
  <2>3. CASE Index(page, 4) # i
    <3>1. Entry4(s, root, page) = Entry4(r, root, page)
      BY <1>1, <2>1, <2>3 DEF Entry4, Entry, Entered
    <3> QED BY <1>2, <2>3, <3>1, SameWay
  <2> QED BY <2>2, <2>3
<1> QED BY <1>6, <1>7, <1>8 DEF OneTableMore

(* A table of the third level, entered in one of the second.               *)
LEMMA TableInLevel3 ==
  ASSUME NEW r, NEW s, NEW root, NEW t \in Level3(r, root), NEW i \in Slots,
         NEW f, f \notin Nodes(r, root),
         Tree(r, root), Entered(r, s, t, i, f), ~Table(r, t)[i].present
  PROVE  /\ OneTableMore(r, s, root, f)
         /\ \A page \in Nat :
               Leads(Entry4(r, root, page), t) /\ Index(page, 3) = i =>
                   Leads(Entry3(s, root, page), f)
<1>1. /\ t \in Nodes(r, root) /\ DOMAIN Table(r, t) = Slots
      /\ f # root /\ f \notin Level3(r, root)
      /\ f \notin Level2(r, root) /\ f \notin Level1(r, root)
      /\ t # root /\ t \notin Level2(r, root) /\ t \notin Level1(r, root)
  BY DEF Nodes, Tree
<1>2. /\ Table(s, f) = Empty
      /\ Table(s, root) = Table(r, root)
      /\ \A g \in Level2(r, root) \cup Level1(r, root) : Table(s, g) = Table(r, g)
      /\ \A g \in Level3(r, root) : g # t => Table(s, g) = Table(r, g)
      /\ \A g \in Nodes(r, root) \cup {f} : DOMAIN Table(s, g) = Slots
      /\ \A page \in Nat : \A level \in 1 .. 4 : Follow(s, To(f), page, level) = Absent
  <2>1. /\ Table(s, f) = Empty
        /\ \A g \in Nodes(r, root) : g # t => Table(s, g) = Table(r, g)
        /\ \A g \in Nodes(r, root) \cup {f} : DOMAIN Table(s, g) = Slots
        /\ \A page \in Nat : \A level \in 1 .. 4 :
              Follow(s, To(f), page, level) = Absent
    BY <1>1, EnteredTables
  <2> QED BY <1>1, <2>1 DEF Nodes
<1>3. Level3(s, root) = Level3(r, root) /\ NoSharing(s, {root})
  BY <1>2, SameChildren DEF Level3, Tree
<1>4. /\ Level2(s, root) = Level2(r, root) \cup {f}
      /\ NoSharing(s, Level3(s, root))
  BY <1>1, <1>3, GrownChildren DEF Level2, Tree
<1>5. Level1(s, root) = Level1(r, root) /\ NoSharing(s, Level2(s, root))
  BY <1>2, <1>4, ChildlessTable DEF Level1, Tree
<1>6. Nodes(s, root) = Nodes(r, root) \cup {f}
  BY <1>3, <1>4, <1>5 DEF Nodes
<1>7. Tree(s, root)
  <2>1. /\ root \notin Level3(s, root) \cup Level2(s, root) \cup Level1(s, root)
        /\ Level3(s, root) \cap (Level2(s, root) \cup Level1(s, root)) = {}
        /\ Level2(s, root) \cap Level1(s, root) = {}
    BY <1>1, <1>3, <1>4, <1>5 DEF Tree
  <2> QED BY <1>2, <1>3, <1>4, <1>5, <1>6, <2>1 DEF Tree
<1>8. ASSUME NEW page \in Nat
      PROVE  /\ Leads(Entry4(r, root, page), t) /\ Index(page, 3) = i =>
                   Leads(Entry3(s, root, page), f)
             /\ Leaf(s, root, page) = Leaf(r, root, page)
  <2>1. Index(page, 3) \in Slots
    BY IndexIsSlot
  <2>2. Entry4(s, root, page) = Entry4(r, root, page)
    BY <1>2, SameWay
  <2> DEFINE here == /\ Entry4(r, root, page).present
                     /\ Entry4(r, root, page).frame = t
                     /\ Index(page, 3) = i
  <2>3. CASE here
    <3>1. Entry3(s, root, page) = To(f) /\ ~Entry3(r, root, page).present
      BY <1>1, <2>2, <2>3 DEF Entry3, Follow, Entry, Entered
    <3>2. Entry2(s, root, page) = Absent
      BY <1>2, <3>1 DEF Entry2
    <3>3. Entry2(r, root, page) = Absent /\ ~Absent.present
      BY <3>1 DEF Entry2, Follow, Absent
    <3>4. Leaf(s, root, page) = Absent /\ Leaf(r, root, page) = Absent
      BY <3>2, <3>3 DEF Leaf, Entry4, Entry3, Entry2, Follow
    <3> QED BY <3>1, <3>4 DEF Leads, To
  <2>4. CASE ~here
    <3>1. Entry3(s, root, page) = Entry3(r, root, page)
      BY <1>1, <1>2, <2>1, <2>2, <2>4, WayIsInTree DEF Entry3, Follow, Entry, Entered
    <3>2. Leaf(s, root, page) = Leaf(r, root, page)
      BY <1>2, <3>1, SameWay
    <3>3. ~(Leads(Entry4(r, root, page), t) /\ Index(page, 3) = i)
      BY <2>4 DEF Leads
    <3> QED BY <3>2, <3>3
  <2> QED BY <2>3, <2>4
<1> QED BY <1>6, <1>7, <1>8 DEF OneTableMore

(* A table of the last level, entered in one of the third.                 *)
LEMMA TableInLevel2 ==
  ASSUME NEW r, NEW s, NEW root, NEW t \in Level2(r, root), NEW i \in Slots,
         NEW f, f \notin Nodes(r, root),
         Tree(r, root), Entered(r, s, t, i, f), ~Table(r, t)[i].present
  PROVE  /\ OneTableMore(r, s, root, f)
         /\ \A page \in Nat :
               Leads(Entry3(r, root, page), t) /\ Index(page, 2) = i =>
                   Leads(Entry2(s, root, page), f)
<1>1. /\ t \in Nodes(r, root) /\ DOMAIN Table(r, t) = Slots
      /\ f # root /\ f \notin Level3(r, root)
      /\ f \notin Level2(r, root) /\ f \notin Level1(r, root)
      /\ t # root /\ t \notin Level3(r, root) /\ t \notin Level1(r, root)
  BY DEF Nodes, Tree
<1>2. /\ Table(s, f) = Empty
      /\ Table(s, root) = Table(r, root)
      /\ \A g \in Level3(r, root) \cup Level1(r, root) : Table(s, g) = Table(r, g)
      /\ \A g \in Level2(r, root) : g # t => Table(s, g) = Table(r, g)
      /\ \A g \in Nodes(r, root) \cup {f} : DOMAIN Table(s, g) = Slots
      /\ \A page \in Nat : \A level \in 1 .. 4 : Follow(s, To(f), page, level) = Absent
  <2>1. /\ Table(s, f) = Empty
        /\ \A g \in Nodes(r, root) : g # t => Table(s, g) = Table(r, g)
        /\ \A g \in Nodes(r, root) \cup {f} : DOMAIN Table(s, g) = Slots
        /\ \A page \in Nat : \A level \in 1 .. 4 :
              Follow(s, To(f), page, level) = Absent
    BY <1>1, EnteredTables
  <2> QED BY <1>1, <2>1 DEF Nodes
<1>3. Level3(s, root) = Level3(r, root) /\ NoSharing(s, {root})
  BY <1>2, SameChildren DEF Level3, Tree
<1>4. Level2(s, root) = Level2(r, root) /\ NoSharing(s, Level3(s, root))
  BY <1>2, <1>3, SameChildren DEF Level2, Tree
<1>5. /\ Level1(s, root) = Level1(r, root) \cup {f}
      /\ NoSharing(s, Level2(s, root))
  BY <1>1, <1>4, GrownChildren DEF Level1, Tree
<1>6. Nodes(s, root) = Nodes(r, root) \cup {f}
  BY <1>3, <1>4, <1>5 DEF Nodes
<1>7. Tree(s, root)
  <2>1. /\ root \notin Level3(s, root) \cup Level2(s, root) \cup Level1(s, root)
        /\ Level3(s, root) \cap (Level2(s, root) \cup Level1(s, root)) = {}
        /\ Level2(s, root) \cap Level1(s, root) = {}
    BY <1>1, <1>3, <1>4, <1>5 DEF Tree
  <2> QED BY <1>2, <1>3, <1>4, <1>5, <1>6, <2>1 DEF Tree
<1>8. ASSUME NEW page \in Nat
      PROVE  /\ Leads(Entry3(r, root, page), t) /\ Index(page, 2) = i =>
                   Leads(Entry2(s, root, page), f)
             /\ Leaf(s, root, page) = Leaf(r, root, page)
  <2>1. Index(page, 2) \in Slots
    BY IndexIsSlot
  <2>2. Entry3(s, root, page) = Entry3(r, root, page)
    BY <1>2, SameWay
  <2> DEFINE here == /\ Entry3(r, root, page).present
                     /\ Entry3(r, root, page).frame = t
                     /\ Index(page, 2) = i
  <2>3. CASE here
    <3>1. Entry2(s, root, page) = To(f) /\ ~Entry2(r, root, page).present
      BY <1>1, <2>2, <2>3 DEF Entry2, Follow, Entry, Entered
    <3>2. /\ Leaf(s, root, page) = Follow(s, Entry2(s, root, page), page, 1)
          /\ Leaf(r, root, page) = Follow(r, Entry2(r, root, page), page, 1)
      BY DEF Leaf, Entry4, Entry3, Entry2
    <3>3. Leaf(s, root, page) = Absent /\ Leaf(r, root, page) = Absent
      BY <1>2, <3>1, <3>2 DEF Follow
    <3> QED BY <3>1, <3>3 DEF Leads, To
  <2>4. CASE ~here
    <3>1. Entry2(s, root, page) = Entry2(r, root, page)
      BY <1>1, <1>2, <2>1, <2>2, <2>4, WayIsInTree DEF Entry2, Follow, Entry, Entered
    <3>2. Leaf(s, root, page) = Leaf(r, root, page)
      BY <1>2, <3>1, SameWay
    <3>3. ~(Leads(Entry3(r, root, page), t) /\ Index(page, 2) = i)
      BY <2>4 DEF Leads
    <3> QED BY <3>2, <3>3
  <2> QED BY <2>3, <2>4
<1> QED BY <1>6, <1>7, <1>8 DEF OneTableMore

-----------------------------------------------------------------------------
(* What the allocator answers, as the page map sees it.                    *)

(* Frames held for page tables are none of the kernel's.                   *)
LEMMA TablesApart ==
  ASSUME KInv
  PROVE  held["tables"] \cap KernelFrames = {}
<1>1. "tables" \in Owner
  BY KernelMemoryAssumption
<1>2. held["tables"] \subseteq Arena
  BY <1>1 DEF KInv, IInv, HeldIsLocked
<1> QED BY <1>2 DEF Arena

LEMMA TotalPagesBounded ==
  ASSUME KInv
  PROVE  mem.TotalPages \in Nat /\ mem.TotalPages <= PageLimit
BY DEF KInv, IInv, TypeOK, PageFramesType, Sizes

(* A page that is granted as a table is nobody's, not the kernel's and not *)
(* one of init_physical's tables.                                          *)
LEMMA FreshTable ==
  ASSUME KInv, phase = "ready", NEW f, f = request_page(mem).frame,
         Grant("tables", request_page(mem), 1), f # nullptr
  PROVE  /\ f \notin held["tables"] \cup KernelFrames \cup tables
         /\ f \in Nat
         /\ held'["tables"] = held["tables"] \cup {f}
<1> DEFINE a == request_page(mem)
<1>1. /\ RequestType(mem, a)
      /\ \/ Refused(mem, a) /\ a.frame = nullptr
         \/ Granted(mem, a, 1) /\ ~a.panics /\ a.frame < mem.TotalPages
  BY SoundNow, RequestPage1 DEF Sound, KInv
<1>2. /\ "tables" \in Owner
      /\ held \in [Owner -> SUBSET Nat]
      /\ mem.TotalPages \in Nat
  BY KernelMemoryAssumption DEF KInv, IInv, TypeOK, PageFramesType
<1>3. held' = IF a.panics \/ a.frame = nullptr
              THEN held ELSE [held EXCEPT !["tables"] = @ \cup Frames(a.frame, 1)]
  BY DEF Grant
<1>4. f = a.frame
  OBVIOUS
<1> HIDE DEF a
<1>5. /\ Granted(mem, a, 1) /\ ~a.panics /\ f < mem.TotalPages
      /\ f \in Nat
  BY <1>1, <1>4 DEF RequestType
<1>6. Frames(a.frame, 1) = {f}
  BY <1>4, <1>5 DEF Frames
<1>7. /\ Frames(a.frame, 1) \subseteq Arena
      /\ \A q \in Owner : Frames(a.frame, 1) \cap held[q] = {}
  <2>1. \A j \in Frames(a.frame, 1) : j < mem.TotalPages
    BY <1>5, <1>6
  <2> QED BY <1>1, <1>4, <1>5, <2>1, GrantedRun DEF KInv
<1>8. f \notin held["tables"] \cup KernelFrames \cup tables
  BY <1>2, <1>6, <1>7 DEF Arena
<1>9. held'["tables"] = held["tables"] \cup {f}
  BY <1>2, <1>3, <1>4, <1>5, <1>6
<1> QED BY <1>5, <1>8, <1>9

(* No request takes a page table back.                                     *)
LEMMA GrantKeepsTables ==
  ASSUME KInv, phase = "ready", NEW o \in {"tables", "heap", "renderer"},
         NEW a, NEW n, RequestType(mem, a), Grant(o, a, n)
  PROVE  /\ held["tables"] \subseteq held'["tables"]
         /\ mem'.TotalPages = mem.TotalPages
         /\ tables' = tables /\ phase' = "ready"
<1>1. /\ {"tables", "heap", "renderer"} \subseteq Owner
      /\ held \in [Owner -> SUBSET Nat]
  BY KernelMemoryAssumption DEF KInv, IInv, TypeOK
<1>2. /\ mem' = a.mem /\ tables' = tables /\ phase' = phase
      /\ held' = IF a.panics \/ a.frame = nullptr
                 THEN held ELSE [held EXCEPT ![o] = @ \cup Frames(a.frame, n)]
  BY DEF Grant
<1>3. held["tables"] \subseteq held'["tables"]
  BY <1>1, <1>2
<1> QED BY <1>2, <1>3 DEF RequestType

LEMMA RequestsTyped ==
  ASSUME KInv
  PROVE  /\ RequestType(mem, request_page(mem))
         /\ RequestType(mem, request_pages(mem, fbPages))
<1>1. fbPages \in Nat
  BY KernelMemoryAssumption DEF fbPages
<1> QED BY <1>1, SoundNow, RequestPage1, RequestPages1 DEF Sound, KInv

-----------------------------------------------------------------------------
(* From power-on to the final bitmap.                                      *)

LEMMA PrekernelTablesAre ==
  /\ DOMAIN Prekernel \subseteq KernelFrames
  /\ Table(Prekernel, pml2) = [Empty EXCEPT ![0] = To(pml1)]
<1>1. DOMAIN Prekernel = {PrekernelTables[k] : k \in 1 .. 5}
  BY DEF Prekernel
<1>2. /\ pml2 # pml4 /\ pml2 # pml3 /\ pml2 # PrekernelTables[3] /\ pml2 # pml1
      /\ \A k \in 1 .. 5 : PrekernelTables[k] \in KernelFrames
  BY KernelMemoryAssumption DEF pml4, pml3, pml2, pml1
<1>3. pml2 \in DOMAIN Prekernel
  BY <1>1 DEF pml2
<1>4. Table(Prekernel, pml2) = [Empty EXCEPT ![0] = To(pml1)]
  BY <1>2, <1>3 DEF Table, Prekernel, pml4, pml3, pml2, pml1
<1> QED BY <1>1, <1>2, <1>4

LEMMA KernelTables ==
  /\ pml4 \in KernelFrames /\ pml3 \in KernelFrames
  /\ pml2 \in KernelFrames /\ pml1 \in KernelFrames
  /\ pml1 \notin Upper /\ pml4 # nullptr
BY UpperFrames, KernelMemoryAssumption DEF pml4, pml3, pml2, pml1, Upper, nullptr

LEMMA NotSwitchedIs ==
  Switched <=> pc \notin {"init_physical", "lost", "init_virtual", "map_ram", "map_kernel",
                          "unmap_null", "flush"}
BY DEF Switched

LEMMA TreeInit ==
  ASSUME KInit
  PROVE  TreeInv
<1>1. /\ KInv
      /\ ram = Prekernel /\ active = pml4 /\ pageMap = nullptr /\ starved = FALSE
      /\ pc = "init_physical" /\ at = 0 /\ mapping = NoMapping
      /\ heapPages = 0 /\ cloning = NotCloning /\ phase = "scan"
  BY KInvInit DEF KInit, Init, pml4
<1>2. UpperTables(ram, 1)
  BY <1>1 DEF KInv, InOrder, Booting
<1>3. /\ Table(ram, pml2)[0] = To(pml1)
      /\ \A i \in Slots : Table(ram, pml2)[i].present => Table(ram, pml2)[i].frame = pml1
  BY <1>1, PrekernelTablesAre, Entries DEF Empty, Absent, To
<1>4. OldMap
  BY <1>1, <1>2, <1>3 DEF OldMap, UpperTables
<1>5. BootTables
  BY <1>1, <1>3, PrekernelTablesAre, KernelTables DEF BootTables, Known
<1>6. Places
  <2>1. MaxHeapPages \in Nat /\ ~Switched
    BY <1>1, KernelMemoryAssumption DEF Switched
  <2> QED BY <1>1, <2>1 DEF Places
<1> QED BY <1>1, <1>4, <1>5, <1>6 DEF TreeInv

\* What the invariant says until the final bitmap is in use.
LEMMA WhileBooting ==
  ASSUME TreeInv, pc = "init_physical"
  PROVE  /\ KInv /\ BootTables /\ OldMap
         /\ phase # "ready" /\ cloning = NotCloning /\ heapPages = 0
         /\ phase \in {"scan", "map", "halted"}
<1>1. KInv /\ BootTables /\ OldMap /\ Places
  BY DEF TreeInv, BootTables, Switched
<1>2. phase # "ready" /\ cloning = NotCloning /\ heapPages = 0
  BY <1>1 DEF Places, Switched, KInv, InOrder
<1> QED BY <1>1, <1>2 DEF KInv, IInv, TypeOK

LEMMA StillBooting ==
  ASSUME TreeInv, KInv', pc = "init_physical", pc' = pc, at' \in Nat,
         phase' # "ready", UNCHANGED <<heapPages, cloning>>, BootTables', OldMap'
  PROVE  TreeInv'
<1>1. cloning' = NotCloning /\ heapPages' = 0
  BY WhileBooting
<1>2. ~Switched'
  BY DEF Switched
<1>3. MaxHeapPages \in Nat
  BY KernelMemoryAssumption
<1>4. Places'
  BY <1>1, <1>2, <1>3 DEF Places
<1> QED BY <1>4 DEF TreeInv

LEMMA ScanTree ==
  ASSUME TreeInv, KInv', Scan
  PROVE  TreeInv'
<1>1. /\ phase = "scan" /\ phase' # "ready"
      /\ UNCHANGED <<tables, pc, at, mapping, ram, active, pageMap, starved, heapPages,
                     cloning>>
  BY DEF Scan, paging, ScanDescriptor, HaltWithoutSegment, UseInitialBitmap
<1>2. pc = "init_physical" /\ at \in Nat
  BY <1>1 DEF TreeInv, KInv, InOrder, Booting, Places
<1>3. BootTables /\ OldMap
  BY <1>2, WhileBooting
<1>4. BootTables' /\ OldMap'
  BY <1>1, <1>3 DEF BootTables, OldMap, Known
<1> QED BY <1>1, <1>2, <1>4, StillBooting

LEMMA MapLowMemoryTree ==
  ASSUME TreeInv, KInv', MapLowMemory
  PROVE  TreeInv'
<1>1. /\ phase = "map" /\ pc = "init_physical"
      /\ mapping' = Mapping(active, at, at)
      /\ at' = at + 1
      /\ UNCHANGED <<tables, phase, pc, ram, active, pageMap, starved, heapPages, cloning>>
  BY DEF MapLowMemory, At, MapNext, paging, vars
<1>2. at \in Nat /\ BootTables /\ OldMap
  BY <1>1, WhileBooting DEF TreeInv, Places
<1>3. mapping'.table = pml4
  BY <1>1, <1>2, KernelTables DEF Mapping, OldMap
<1>4. BootTables' /\ OldMap'
  BY <1>1, <1>2, <1>3, KernelTables DEF BootTables, OldMap, Known
<1> QED BY <1>1, <1>2, <1>4, StillBooting

(* The final bitmap is written over tables of the page map that is active, *)
(* but not over those of the kernel, or the machine is lost.               *)
LEMMA OverwrittenTables ==
  ASSUME NEW e
  PROVE  /\ DOMAIN Overwritten(e) = DOMAIN ram
         /\ \A f : f \notin OverwrittenFrames => Table(Overwritten(e), f) = Table(ram, f)
         /\ \A f : DOMAIN Table(ram, f) = Slots => DOMAIN Table(Overwritten(e), f) = Slots
BY DEF Overwritten, Table

LEMMA KernelSpared ==
  ASSUME BitmapIsWritable
  PROVE  OverwrittenFrames \cap KernelFrames = {}
<1>1. /\ KernelPhysical \in Nat /\ kernelPageCount \in Nat
  BY ConstantsAssumption DEF kernelPageCount
<1>2. KernelFrames \subseteq LoadedFrames
  BY <1>1 DEF KernelFrames, LoadedFrames, Frames
<1> QED BY <1>2 DEF BitmapIsWritable

LEMMA SwitchBitmapTree ==
  ASSUME TreeInv, KInv', SwitchBitmap
  PROVE  TreeInv'
<1>1. /\ pc = "init_physical" /\ pc' = "init_virtual" /\ at' = 0
      /\ mapping = NoMapping
      /\ ram' = Overwritten(Garbled) /\ BitmapIsWritable
      /\ UNCHANGED <<tables, mapping, active, pageMap, starved, heapPages, cloning>>
  BY DEF SwitchBitmap, At, Go
<1>2. BootTables /\ OldMap /\ cloning = NotCloning /\ heapPages = 0
  BY <1>1, WhileBooting
<1>3. /\ DOMAIN ram' = DOMAIN ram
      /\ \A t \in {pml4, pml3, pml2} : Table(ram', t) = Table(ram, t)
  BY <1>1, KernelTables, OverwrittenTables, KernelSpared
<1>4. BootTables' /\ OldMap'
  <2>1. OldMap'
    BY <1>1, <1>2, <1>3 DEF OldMap
  <2>2. BootTables'
    BY <1>1, <1>2, <1>3 DEF BootTables, Known
  <2> QED BY <2>1, <2>2
<1>5. ~Switched' /\ MaxHeapPages \in Nat
  BY <1>1, KernelMemoryAssumption DEF Switched
<1>6. Places'
  <2>1. phase' = "ready"
    BY DEF SwitchBitmap
  <2> QED BY <1>1, <1>2, <1>5, <2>1 DEF Places
<1> QED BY <1>1, <1>4, <1>6 DEF TreeInv

LEMMA LoseMachineTree ==
  ASSUME TreeInv, KInv', LoseMachine
  PROVE  TreeInv'
<1>1. /\ pc = "init_physical" /\ pc' = "lost" /\ at' = 0
      /\ mapping = NoMapping
      /\ phase' # "ready"
      /\ UNCHANGED <<tables, mapping, ram, active, pageMap, starved, heapPages, cloning>>
  BY DEF LoseMachine, At, Go, paging, vars
<1>2. BootTables /\ OldMap /\ cloning = NotCloning /\ heapPages = 0
  BY <1>1, WhileBooting
<1>3. BootTables' /\ OldMap'
  BY <1>1, <1>2 DEF BootTables, OldMap, Known
<1>4. ~Switched' /\ MaxHeapPages \in Nat
  BY <1>1, KernelMemoryAssumption DEF Switched
<1>5. Places'
  BY <1>1, <1>2, <1>4 DEF Places
<1> QED BY <1>1, <1>3, <1>5 DEF TreeInv

(* map() enters its tables in pml2 behind the first, and writes pages to   *)
(* tables of the last level.                                               *)
LEMMA BootMapTree ==
  ASSUME TreeInv, KInv', map, pc = "init_physical"
  PROVE  TreeInv'
<1>1. /\ KInv /\ BootTables /\ OldMap /\ at \in Nat
      /\ phase \in {"scan", "map", "halted"}
  BY WhileBooting DEF TreeInv, Places
<1>2. mapping # NoMapping
  BY LevelOfNoMapping DEF map, MapThroughTable, MapNewTable, MapPage
<1>3. phase = "map" /\ mapping.level > 0
  <2>1. phase = "map"
    BY <1>1, <1>2 DEF KInv, InOrder, Booting
  <2> QED BY <1>1, <1>2, <2>1, WhileMapping DEF MapsLowMemory, Walking
<1>4. /\ Walking /\ mapping.root = pml4
      /\ mapping.table \in Known /\ mapping.root # pageMap
      /\ KernelFrames \subseteq mem.PageMap.bits
      /\ mapping.page \in Nat /\ mapping.page < EntriesPerTable * EntriesPerTable
  <2>1. Walking /\ MapsLowMemory
    BY <1>1, <1>2, <1>3, WalkFacts, WhileMapping
  <2>2. mapping.root = pml4
    BY <2>1 DEF Walking
  <2> QED BY <1>1, <1>2, <1>3, <2>1, <2>2, KernelTables, WalkFacts
          DEF BootTables, MapsLowMemory
<1>5. /\ UNCHANGED <<pc, at, active, pageMap, heapPages, cloning>>
  BY DEF map, MapThroughTable, MapNewTable, MapPage, paging
<1>6. CASE MapThroughTable
  <2>1. /\ mapping.level > 1 /\ Below.present
        /\ mapping' = [mapping EXCEPT !.level = @ - 1, !.table = Below.frame]
        /\ UNCHANGED <<tables, phase, ram, starved>>
    BY <1>6 DEF MapThroughTable, Enter, paging, vars
  <2>2. Below.frame \in Known
    <3>1. mapping.level = 2 => Below.frame \in Known
      <4>1. ASSUME mapping.level = 2 PROVE Below.frame \in Known
        <5>1. mapping.table = pml2
          BY <4>1, <1>4 DEF Walking
        <5>2. Index(mapping.page, 2) \in Slots
          BY <1>4, IndexIsSlot
        <5>3. Below = Table(ram, pml2)[Index(mapping.page, 2)]
          BY <4>1, <5>1 DEF Below, Entry
        <5> QED BY <1>1, <2>1, <5>2, <5>3 DEF BootTables
      <4> QED BY <4>1
    <3>2. /\ mapping.level = 4 => Below = To(pml3)
          /\ mapping.level = 3 => Below = To(pml2)
          /\ mapping.level \in {2, 3, 4}
      BY <1>1, <1>3, <2>1, BelowIs
    <3> QED BY <3>1, <3>2, KernelTables DEF To, Known
  <2>3. mapping'.table = Below.frame
    <3>1. \E m : mapping = [root |-> pml4, page |-> at - 1, frame |-> at - 1,
                           level |-> m, table |-> mapping.table]
      BY <1>4 DEF Walking
    <3> QED BY <2>1, <3>1
  <2>4. BootTables' /\ OldMap'
    BY <1>1, <1>5, <2>1, <2>2, <2>3 DEF BootTables, OldMap, Known
  <2> QED BY <1>1, <1>3, <1>5, <2>1, <2>4, StillBooting
<1>7. CASE MapNewTable
  <2> DEFINE f == request_page(mem).frame
             i == Index(mapping.page, mapping.level)
  <2>1. /\ mapping.level > 1 /\ ~Below.present
        /\ ram' = Write(Clear(ram, f), mapping.table, i, To(f))
        /\ mapping' = [mapping EXCEPT !.level = @ - 1, !.table = f]
        /\ starved' = (starved \/ (mapping.root = pageMap /\ f = nullptr))
        /\ phase' = phase /\ tables' = tables \cup {f}
    BY <1>3, <1>7 DEF MapNewTable, Enter, TakeTable
  <2>2. mapping.level = 2 /\ mapping.table = pml2
    BY <1>1, <1>3, <1>4, <2>1, BelowIs DEF To, Walking
  <2>3. f \notin Upper
    BY <1>1, <1>4, TableRequest DEF KInv
  <2> HIDE DEF f
  <2>4. i \in Slots
    BY <1>4, <2>2, IndexIsSlot
  <2>5. i # 0
    <3>1. Below = Table(ram, pml2)[i]
      BY <2>2 DEF Below, Entry
    <3> QED BY <1>1, <2>1, <3>1 DEF OldMap, To
  <2> HIDE DEF i
  <2>6. /\ Table(ram', pml2) = [Table(ram, pml2) EXCEPT ![i] = To(f)]
        /\ Table(ram', pml4) = Table(ram, pml4)
        /\ Table(ram', pml3) = Table(ram, pml3)
    BY <2>1, <2>2, <2>3, WriteTable, PutTable, UpperFrames DEF Clear, Upper
  <2>7. DOMAIN ram' \subseteq Known'
    BY <1>1, <2>1, <2>2, KernelTables DEF BootTables, Write, Clear, Put, Known
  <2>8. ASSUME NEW j \in Slots, Table(ram', pml2)[j].present
        PROVE  Table(ram', pml2)[j].frame \in Known'
    <3>1. CASE j = i
      <4>1. DOMAIN Table(ram, pml2) = Slots
        BY <1>1, <1>3, WhileMapping DEF MapsLowMemory, UpperTables, Upper
      <4>2. Table(ram', pml2)[j] = To(f)
        BY <2>6, <3>1, <4>1
      <4> QED BY <2>1, <4>2 DEF To, Known
    <3>2. CASE j # i
      <4>1. Table(ram', pml2)[j] = Table(ram, pml2)[j]
        <5>1. DOMAIN Table(ram, pml2) = Slots
          BY <1>1, <1>3, WhileMapping DEF MapsLowMemory, UpperTables, Upper
        <5> QED BY <2>6, <3>2, <5>1
      <4> QED BY <1>1, <2>1, <2>8, <4>1 DEF BootTables, Known
    <3> QED BY <3>1, <3>2
  <2>9. mapping'.table = f
    <3>1. \E m : mapping = [root |-> pml4, page |-> at - 1, frame |-> at - 1,
                           level |-> m, table |-> mapping.table]
      BY <1>4 DEF Walking
    <3> QED BY <2>1, <3>1
  <2>10. BootTables'
    <3>1. ~starved' /\ pageMap' = nullptr
      BY <1>1, <1>4, <1>5, <2>1 DEF BootTables
    <3>2. mapping'.table \in Known'
      BY <2>1, <2>9 DEF Known
    <3> QED BY <2>7, <2>8, <3>1, <3>2 DEF BootTables
  <2>11. OldMap'
    <3>1. Table(ram', pml2)[0] = Table(ram, pml2)[0]
      BY <2>5, <2>6, Entries, <1>1, <1>3, WhileMapping
         DEF MapsLowMemory, UpperTables, Upper
    <3> QED BY <1>1, <1>5, <2>6, <3>1 DEF OldMap
  <2> QED BY <1>1, <1>3, <1>5, <2>1, <2>10, <2>11, StillBooting
<1>8. CASE MapPage
  <2>1. /\ mapping.level = 1
        /\ ram' = Write(ram, mapping.table, Index(mapping.page, 1), To(mapping.frame))
        /\ mapping' = NoMapping
        /\ UNCHANGED <<tables, phase, starved>>
    BY <1>8 DEF MapPage, vars
  <2>2. mapping.table \notin Upper
    BY <1>4, <2>1 DEF Walking
  <2>3. \A t \in Upper : Table(ram', t) = Table(ram, t)
    BY <2>1, <2>2, WriteTable
  <2>4. DOMAIN ram' \subseteq Known
    BY <1>1, <1>4, <2>1 DEF BootTables, Write, Put
  <2>5. BootTables' /\ OldMap'
    BY <1>1, <1>5, <2>1, <2>3, <2>4 DEF BootTables, OldMap, Known, Upper
  <2> QED BY <1>1, <1>3, <1>5, <2>1, <2>5, StillBooting
<1> QED BY <1>6, <1>7, <1>8 DEF map

-----------------------------------------------------------------------------
(* From init_virtual on: steps that write no table.                        *)

LEMMA WhileReady ==
  ASSUME TreeInv, pc \notin {"init_physical", "lost"}
  PROVE  /\ KInv /\ phase = "ready"
         /\ at \in Nat /\ heapPages \in 0 .. MaxHeapPages
         /\ MaxHeapPages \in Nat \ {0}
         /\ mem.TotalPages \in Nat /\ mem.TotalPages <= PageLimit
         /\ cloning # NotCloning => pc = "running" /\ mapping = NoMapping
<1>1. KInv /\ Places
  BY DEF TreeInv
<1> QED BY <1>1, TotalPagesBounded, KernelMemoryAssumption DEF KInv, InOrder, Places

(* init_virtual's page map is the page it was given, and empty.            *)
LEMMA NewPageMapTree ==
  ASSUME Leftover = Empty, TreeInv, KInv', NewPageMap
  PROVE  TreeInv'
<1> DEFINE f == request_page(mem).frame
<1>1. /\ pc = "init_virtual" /\ pc' = "map_ram" /\ at' = 0
      /\ Grant("tables", request_page(mem), 1)
      /\ pageMap' = f
      /\ starved' = (f = nullptr)
      /\ UNCHANGED <<ram, active, mapping, heapPages, target, cloning, clones>>
      /\ mapping = NoMapping
  BY DEF NewPageMap, At, Go
<1>2. /\ KInv /\ phase = "ready" /\ cloning = NotCloning
      /\ BootTables /\ OldMap /\ heapPages = 0
      /\ MaxHeapPages \in Nat
  <2>1. BootTables /\ Places
    BY <1>1 DEF TreeInv
  <2>2. OldMap /\ heapPages = 0
    BY <1>1, <2>1 DEF TreeInv, Switched, Places, BootTables
  <2> QED BY <1>1, <2>1, <2>2, WhileReady
<1>3. ~Switched' /\ OldMap'
  BY <1>1, <1>2 DEF Switched, OldMap
<1>4. Places'
  BY <1>1, <1>2, <1>3 DEF Places
<1>5. ASSUME ~starved'
      PROVE  PageMapBuilt'
  <2>1. f # nullptr
    BY <1>1, <1>5
  <2>2. /\ f \notin held["tables"] \cup KernelFrames \cup tables
        /\ held'["tables"] = held["tables"] \cup {f}
    BY <1>1, <1>2, <2>1, FreshTable
  <2> HIDE DEF f
  <2>3. Table(ram, f) = Empty
    BY <1>2, <2>2 DEF BootTables, Known, Table
  <2>4. \A i \in Slots : ~Table(ram, f)[i].present
    BY <2>3 DEF Empty, Absent
  <2>5. \A S : S \subseteq {f} => Children(ram, S) = {} /\ NoSharing(ram, S)
    <3> SUFFICES ASSUME NEW S, S \subseteq {f}
                 PROVE  Children(ram, S) = {} /\ NoSharing(ram, S)
      OBVIOUS
    <3>1. \A t \in S : \A i \in Slots : ~Table(ram, t)[i].present
      BY <2>4
    <3>2. \A g : g \notin Children(ram, S)
      BY <3>1, ChildrenAre
    <3>3. NoSharing(ram, S)
      BY <3>1 DEF NoSharing
    <3> QED BY <3>2, <3>3
  <2>6. /\ Level3(ram, f) = {} /\ Level2(ram, f) = {} /\ Level1(ram, f) = {}
        /\ NoSharing(ram, {f})
        /\ NoSharing(ram, Level3(ram, f))
        /\ NoSharing(ram, Level2(ram, f))
    <3>1. Level3(ram, f) = {} /\ NoSharing(ram, {f})
      BY <2>5 DEF Level3
    <3>2. Level2(ram, f) = {} /\ NoSharing(ram, Level3(ram, f))
      BY <2>5, <3>1 DEF Level2
    <3>3. Level1(ram, f) = {} /\ NoSharing(ram, Level2(ram, f))
      BY <2>5, <3>2 DEF Level1
    <3> QED BY <3>1, <3>2, <3>3
  <2>7. Nodes(ram, f) = {f}
    BY <2>6 DEF Nodes
  <2>8. Tree(ram, f)
    BY <2>3, <2>6, <2>7 DEF Tree, Empty
  <2>9. Tree(ram, pageMap)' /\ Nodes(ram, pageMap)' = {f} /\ pageMap' # nullptr
    BY <1>1, <2>1, <2>7, <2>8
  <2>10. RamTurns' = 0
    BY <1>1 DEF RamTurns
  <2>11. \A p \in 0 .. mem'.TotalPages - 1 : ~(p < 0)
    OBVIOUS
  <2> QED BY <1>1, <1>2, <2>2, <2>9, <2>10, <2>11 DEF PageMapBuilt
<1> QED BY <1>1, <1>3, <1>4, <1>5 DEF TreeInv

LEMMA PageMapStays ==
  ASSUME PageMapBuilt, UNCHANGED <<ram, pageMap>>,
         held["tables"] \subseteq held'["tables"], mem'.TotalPages = mem.TotalPages,
         mapping' # NoMapping => OnTheWay', cloning' # NotCloning => CloneOutside',
         pc' = "map_ram" /\ mapping' # NoMapping => at' = mapping'.page + 1,
         \A p \in 0 .. mem.TotalPages - 1 : p < RamTurns' => p < RamTurns
  PROVE  PageMapBuilt'
<1>1. /\ pageMap' # nullptr
      /\ Tree(ram, pageMap)'
      /\ Nodes(ram, pageMap)' \subseteq held'["tables"]
  BY DEF PageMapBuilt
<1>2. \A p \in 0 .. mem'.TotalPages - 1 : p < RamTurns' => Maps(ram, pageMap, p, p)'
  BY DEF PageMapBuilt
<1> QED BY <1>1, <1>2 DEF PageMapBuilt

LEMMA Started ==
  ASSUME pageMap # nullptr, NEW page \in Pages, NEW frame,
         page < mem.TotalPages => frame = page, mapping' = Mapping(pageMap, page, frame),
         pageMap' = pageMap, mem'.TotalPages = mem.TotalPages
  PROVE  OnTheWay' /\ mapping'.page = page
BY DEF OnTheWay, Mapping

\* A loop of init_virtual, or one that maps a framebuffer.
LEMMA LoopTree ==
  ASSUME TreeInv, KInv', NEW label, NEW turns \in Nat, NEW root, NEW page \in Nat, NEW frame,
         NEW next, Loop(label, turns, root, page, frame, next),
         \/ /\ label \in {"map_ram", "map_kernel"}
            /\ next \in {"map_kernel", "unmap_null"}
         \/ /\ label \in {"map_framebuffer", "map_target"}
            /\ next \in {"request_target", "running"},
         root = pageMap,
         \A k \in 0 .. turns - 1 :
             page + k \in Pages /\ (page + k < mem.TotalPages => frame + k = page + k),
         label = "map_ram" => page = 0 /\ turns = mem.TotalPages
  PROVE  TreeInv'
<1>1. /\ pc = label /\ mapping = NoMapping
      /\ UNCHANGED <<vars, ram, active, pageMap, starved, heapPages, cloning>>
  BY DEF Loop, At, MapNext, paging
<1>2. /\ KInv /\ at \in Nat /\ Places
      /\ cloning = NotCloning
      /\ mem.TotalPages \in Nat
  <2>1. pc \notin {"init_physical", "lost"} /\ pc # "running"
    BY <1>1
  <2>2. Places
    BY DEF TreeInv
  <2> QED BY <2>1, <2>2, WhileReady
<1>3. /\ ~starved => PageMapBuilt
      /\ ~Switched /\ ~starved => OldMap
  BY <1>1 DEF TreeInv
<1>4. /\ held["tables"] \subseteq held'["tables"] /\ mem'.TotalPages = mem.TotalPages
      /\ cloning' = NotCloning
  BY <1>1, <1>2 DEF vars
<1>5. CASE at < turns /\ MapNext(root, page + at, frame + at)
  <2>1. /\ mapping' = Mapping(root, page + at, frame + at) /\ at' = at + 1 /\ pc' = pc
    BY <1>5 DEF MapNext
  <2>2. Switched' <=> Switched
    BY <2>1 DEF Switched
  <2>3. Places'
    BY <1>1, <1>2, <2>1, <2>2 DEF Places, vars
  <2>4. OldMap' <=> OldMap
    BY <1>1 DEF OldMap
  <2>5. ASSUME ~starved
        PROVE  PageMapBuilt'
    <3>1. PageMapBuilt /\ pageMap # nullptr
      BY <1>3, <2>5 DEF PageMapBuilt
    <3>2. /\ page + at \in Pages /\ (page + at < mem.TotalPages => frame + at = page + at)
      BY <1>2, <1>5
    <3>3. OnTheWay' /\ mapping'.page = page + at
      BY <1>1, <1>4, <2>1, <3>1, <3>2, Started
    <3>4. pc' = "map_ram" => at' = mapping'.page + 1
      BY <1>1, <1>2, <2>1, <3>3
    <3>5. RamTurns' = RamTurns
      <4>1. CASE label = "map_ram"
        <5>1. RamTurns = at
          BY <1>1, <4>1 DEF RamTurns
        <5>2. mapping'.page = at
          BY <1>2, <3>3, <4>1
        <5>3. RamTurns' = IF mapping' = NoMapping THEN at' ELSE mapping'.page
          BY <1>1, <2>1, <4>1 DEF RamTurns
        <5>4. mapping' # NoMapping
          BY <2>1, <3>1 DEF Mapping, NoMapping
        <5> QED BY <5>1, <5>2, <5>3, <5>4
      <4>2. CASE label # "map_ram"
        BY <1>1, <1>4, <2>1, <4>2 DEF RamTurns
      <4> QED BY <4>1, <4>2
    <3> QED BY <1>1, <1>4, <3>1, <3>3, <3>4, <3>5, PageMapStays
  <2>6. pc' \notin {"init_physical", "lost", "init_virtual"}
    BY <1>1, <2>1
  <2> QED BY <1>1, <1>3, <2>2, <2>3, <2>4, <2>5, <2>6 DEF TreeInv
<1>6. CASE at >= turns /\ Go(next) /\ UNCHANGED <<vars, mapping, paging>>
  <2>1. pc' = next /\ at' = 0 /\ mapping' = NoMapping
    BY <1>1, <1>6 DEF Go
  <2>2. /\ Switched' <=> Switched
        /\ Switched' \/ ~Switched'
        /\ pc' # "init_heap"
    BY <1>1, <2>1 DEF Switched
  <2>3. Places'
    BY <1>1, <1>2, <1>4, <2>1, <2>2 DEF Places
  <2>4. OldMap' <=> OldMap
    BY <1>1 DEF OldMap
  <2>5. ASSUME ~starved
        PROVE  PageMapBuilt'
    <3>1. PageMapBuilt
      BY <1>3, <2>5
    <3>2. pc' # "map_ram" /\ RamTurns' = mem.TotalPages
      BY <1>4, <2>1 DEF RamTurns
    <3>3. ASSUME NEW p \in 0 .. mem.TotalPages - 1
          PROVE  p < RamTurns
      <4>1. CASE label = "map_ram"
        <5>1. RamTurns = at /\ at >= mem.TotalPages
          BY <1>1, <1>6, <4>1 DEF RamTurns
        <5> QED BY <1>2, <5>1
      <4>2. CASE label # "map_ram"
        BY <1>1, <1>2, <4>2 DEF RamTurns
      <4> QED BY <4>1, <4>2
    <3> QED BY <1>1, <1>4, <2>1, <3>1, <3>2, <3>3, PageMapStays
  <2>6. pc' \notin {"init_physical", "lost", "init_virtual"}
    BY <2>1
  <2> QED BY <1>1, <1>3, <2>2, <2>3, <2>4, <2>5, <2>6 DEF TreeInv
<1> QED BY <1>5, <1>6 DEF Loop

(* The loops of kstage1, each within the page map.                         *)
LEMMA EndOfPages ==
  LET end == EntriesPerTable * EntriesPerTable * EntriesPerTable * EntriesPerTable IN
  /\ end \in Nat
  /\ Pages = 0 .. end - 1
BY Entries DEF Pages

\* RAM, the framebuffer, its copy, the kernel and the heap: the pages they are
\* mapped at do not meet.
LEMMA Addresses ==
  LET end == EntriesPerTable * EntriesPerTable * EntriesPerTable * EntriesPerTable IN
  /\ PageLimit <= KERNEL_VIRTUAL
  /\ PageLimit <= HEAP_VIRTUAL_BASE
  /\ PageLimit <= virtualTargetBaseAddress
  /\ Framebuffer + fbSize <= virtualTargetBaseAddress
  /\ virtualTargetBaseAddress + fbSize <= KERNEL_VIRTUAL
  /\ KERNEL_VIRTUAL + KernelPhysical + kernelPageCount + 2 <= HEAP_VIRTUAL_BASE
  /\ KERNEL_VIRTUAL + KernelPhysical + kernelPageCount + 2 <= end
  /\ HEAP_VIRTUAL_BASE + MaxHeapPages <= end
  /\ virtualTargetBaseAddress + fbSize <= end
  /\ Framebuffer + fbSize <= end
<1> DEFINE end == EntriesPerTable * EntriesPerTable * EntriesPerTable * EntriesPerTable
<1>1. /\ end \in Nat
      /\ PageLimit <= virtualTargetBaseAddress
      /\ Framebuffer + fbSize <= virtualTargetBaseAddress
      /\ virtualTargetBaseAddress + fbSize <= KERNEL_VIRTUAL
      /\ KERNEL_VIRTUAL + KernelPhysical + kernelPageCount + 2 <= HEAP_VIRTUAL_BASE
      /\ HEAP_VIRTUAL_BASE + MaxHeapPages <= end
  BY Entries, AddressesAssumption
<1> HIDE DEF end
<1>2. /\ KERNEL_VIRTUAL \in Nat /\ HEAP_VIRTUAL_BASE \in Nat
      /\ virtualTargetBaseAddress \in Nat /\ Framebuffer \in Nat /\ fbSize \in Nat
      /\ KernelPhysical \in Nat /\ kernelPageCount \in Nat /\ MaxHeapPages \in Nat
      /\ PageLimit \in Nat
  BY KernelMemoryAssumption, ConstantsAssumption DEF kernelPageCount
<1>3. /\ PageLimit <= KERNEL_VIRTUAL
      /\ PageLimit <= HEAP_VIRTUAL_BASE
      /\ KERNEL_VIRTUAL + KernelPhysical + kernelPageCount + 2 <= end
      /\ virtualTargetBaseAddress + fbSize <= end
      /\ Framebuffer + fbSize <= end
  BY <1>1, <1>2
<1> QED BY <1>1, <1>3 DEF end

LEMMA LoopsTree ==
  ASSUME TreeInv, KInv', MapRam \/ MapKernel \/ MapFramebuffer \/ MapTarget
  PROVE  TreeInv'
<1> DEFINE end == EntriesPerTable * EntriesPerTable * EntriesPerTable * EntriesPerTable
<1>1. /\ end \in Nat /\ Pages = 0 .. end - 1
      /\ PageLimit <= KERNEL_VIRTUAL
      /\ PageLimit <= HEAP_VIRTUAL_BASE
      /\ PageLimit <= virtualTargetBaseAddress
      /\ KERNEL_VIRTUAL + KernelPhysical + kernelPageCount + 2 <= end
      /\ HEAP_VIRTUAL_BASE + MaxHeapPages <= end
      /\ virtualTargetBaseAddress + fbSize <= end
      /\ Framebuffer + fbSize <= end
  BY EndOfPages, Addresses
<1> HIDE DEF end
<1>2. /\ KERNEL_VIRTUAL \in Nat /\ HEAP_VIRTUAL_BASE \in Nat
      /\ virtualTargetBaseAddress \in Nat /\ Framebuffer \in Nat /\ fbSize \in Nat
      /\ KernelPhysical \in Nat /\ kernelPageCount \in Nat /\ MaxHeapPages \in Nat
      /\ PageLimit \in Nat
  BY KernelMemoryAssumption, ConstantsAssumption DEF kernelPageCount
<1>3. /\ mem.TotalPages \in Nat /\ mem.TotalPages <= PageLimit
  BY TotalPagesBounded DEF TreeInv
<1>4. CASE MapRam
  <2>1. \A k \in 0 .. mem.TotalPages - 1 :
           0 + k \in Pages /\ (0 + k < mem.TotalPages => 0 + k = 0 + k)
    BY <1>1, <1>2, <1>3
  <2>2. Loop("map_ram", mem.TotalPages, pageMap, 0, 0, "map_kernel")
    BY <1>4 DEF MapRam
  <2> QED BY <1>3, <2>1, <2>2, LoopTree
<1>5. CASE MapKernel
  <2> DEFINE n == kernelPageCount + 2
             page == KERNEL_VIRTUAL + KernelPhysical
  <2>1. n \in Nat /\ page \in Nat
    BY <1>2
  <2>2. \A k \in 0 .. n - 1 :
           /\ page + k \in Pages
           /\ page + k < mem.TotalPages => KernelPhysical + k = page + k
    BY <1>1, <1>2, <1>3
  <2>3. Loop("map_kernel", n, pageMap, page, KernelPhysical, "unmap_null")
    BY <1>5 DEF MapKernel, kernelPageCount
  <2> HIDE DEF n, page
  <2> QED BY <2>1, <2>2, <2>3, LoopTree
<1>6. CASE MapFramebuffer
  <2>1. \A k \in 0 .. fbSize - 1 :
           /\ Framebuffer + k \in Pages
           /\ Framebuffer + k < mem.TotalPages => Framebuffer + k = Framebuffer + k
    BY <1>1, <1>2
  <2>2. Loop("map_framebuffer", fbSize, active, Framebuffer, Framebuffer,
             "request_target")
    BY <1>6 DEF MapFramebuffer
  <2>3. active = pageMap
    BY <2>2 DEF Loop, At, TreeInv, Places, Switched
  <2> QED BY <1>2, <2>1, <2>2, <2>3, LoopTree
<1>7. CASE MapTarget
  <2>1. \A k \in 0 .. fbSize - 1 :
           /\ virtualTargetBaseAddress + k \in Pages
           /\ virtualTargetBaseAddress + k < mem.TotalPages =>
                 target + k = virtualTargetBaseAddress + k
    BY <1>1, <1>2, <1>3
  <2>2. Loop("map_target", fbSize, active, virtualTargetBaseAddress, target, "running")
    BY <1>7 DEF MapTarget
  <2>3. active = pageMap
    BY <2>2 DEF Loop, At, TreeInv, Places, Switched
  <2> QED BY <1>2, <2>1, <2>2, <2>3, LoopTree
<1> QED BY <1>4, <1>5, <1>6, <1>7

(* unmap(nullptr) follows the old page map, to pml1: the kernel's, and no  *)
(* table of the new one.                                                   *)
LEMMA UnmapNullWrites ==
  ASSUME UnmapNull, OldMap
  PROVE  \E i, e : ram' = Write(ram, pml1, i, e)
<1>1. pc = "unmap_null" /\ ram' = unmap(ram, active, 0)
  BY DEF UnmapNull, At
<1>2. Index(0, 4) = 0 /\ Index(0, 3) = 0 /\ Index(0, 2) = 0
  <2>1. EntriesPerTable * EntriesPerTable \in Nat \ {0}
    BY Entries
  <2>2. 0 < EntriesPerTable * EntriesPerTable /\ 0 \in Nat
    BY <2>1
  <2>3. Index(0, 2) = 0 \div EntriesPerTable /\ 0 \div EntriesPerTable = 0
    BY <2>2, LowIndexes, Entries
  <2> QED BY <2>2, <2>3, LowIndexes
<1>3. /\ Entry(ram, active, 0, 4).frame = pml3
      /\ Entry(ram, pml3, 0, 3).frame = pml2
      /\ Entry(ram, pml2, 0, 2).frame = pml1
  BY <1>2 DEF OldMap, Entry, To
<1>4. ram' = Write(ram, pml1, Index(0, 1),
                   [Entry(ram, pml1, 0, 1) EXCEPT !.present = FALSE])
  BY <1>1, <1>3 DEF unmap
<1> QED BY <1>4

LEMMA UnmapNullOutside ==
  ASSUME TreeInv, UnmapNull, ~starved
  PROVE  /\ \A t \in Nodes(ram, pageMap) : Table(ram', t) = Table(ram, t)
         /\ OldMap'
<1>1. pc = "unmap_null" /\ active' = active
  BY DEF UnmapNull, At
<1>2. KInv /\ OldMap /\ PageMapBuilt
  BY <1>1 DEF TreeInv, Switched
<1>3. \A t : t # pml1 => Table(ram', t) = Table(ram, t)
  BY <1>2, UnmapNullWrites, WriteTable
<1>4. \A t \in Nodes(ram, pageMap) : Table(ram', t) = Table(ram, t)
  BY <1>2, <1>3, TablesApart, KernelTables DEF PageMapBuilt
<1>5. OldMap'
  BY <1>1, <1>2, <1>3, KernelTables DEF OldMap, Upper
<1> QED BY <1>4, <1>5

LEMMA UnmapNullElsewhere ==
  ASSUME KInv, UnmapNull, OldMap
  PROVE  /\ \A t \in held["tables"] : Table(ram', t) = Table(ram, t)
         /\ DOMAIN ram' \subseteq DOMAIN ram \cup KernelFrames
<1>1. PICK i, e : ram' = Write(ram, pml1, i, e)
  BY UnmapNullWrites
<1>2. DOMAIN ram' = DOMAIN ram \cup {pml1}
  BY <1>1 DEF Write, Put
<1>3. \A t : t # pml1 => Table(ram', t) = Table(ram, t)
  BY <1>1, WriteTable
<1> QED BY <1>2, <1>3, TablesApart, KernelTables

LEMMA UnmapNullTree ==
  ASSUME TreeInv, KInv', UnmapNull
  PROVE  TreeInv'
<1>1. /\ pc = "unmap_null" /\ pc' = "flush" /\ at' = 0
      /\ mapping = NoMapping /\ mapping' = NoMapping
      /\ ram' = unmap(ram, active, 0)
      /\ UNCHANGED <<vars, active, pageMap, starved, heapPages, cloning>>
  BY DEF UnmapNull, At, Go
<1>2. /\ KInv /\ Places /\ cloning = NotCloning
      /\ ~starved => PageMapBuilt /\ OldMap
      /\ heapPages = 0 /\ MaxHeapPages \in Nat
  <2>1. ~Switched /\ Places
    BY <1>1 DEF Switched, TreeInv
  <2>2. heapPages = 0
    BY <2>1 DEF Places
  <2> QED BY <1>1, <2>1, <2>2, WhileReady DEF TreeInv
<1>3. ~Switched' /\ Places'
  <2>1. ~Switched' /\ pc' # "init_heap"
    BY <1>1 DEF Switched
  <2> QED BY <1>1, <1>2, <2>1 DEF Places
<1>4. ASSUME ~starved
      PROVE  PageMapBuilt' /\ OldMap'
  <2>1. OldMap /\ PageMapBuilt
    BY <1>2, <1>4
  <2>2. \A t \in Nodes(ram, pageMap) : Table(ram', t) = Table(ram, t)
    BY <1>4, UnmapNullOutside
  <2>3. OldMap'
    BY <1>4, UnmapNullOutside
  <2>4. Tree(ram', pageMap) /\ Nodes(ram', pageMap) = Nodes(ram, pageMap)
    BY <2>1, <2>2, TreeElsewhere DEF PageMapBuilt
  <2>5. RamTurns' = RamTurns /\ mem' = mem /\ held' = held
    BY <1>1 DEF RamTurns, vars
  <2>6. \A p \in 0 .. mem.TotalPages - 1 : p < RamTurns => Maps(ram', pageMap, p, p)
    <3> SUFFICES ASSUME NEW p \in 0 .. mem.TotalPages - 1, p < RamTurns
                 PROVE  Maps(ram', pageMap, p, p)
      OBVIOUS
    <3>1. p \in Nat /\ Maps(ram, pageMap, p, p)
      BY <2>1 DEF PageMapBuilt
    <3> QED BY <2>2, <3>1, WayElsewhere DEF Maps
  <2>7. PageMapBuilt'
    BY <1>1, <1>2, <2>1, <2>4, <2>5, <2>6 DEF PageMapBuilt
  <2> QED BY <2>3, <2>7
<1> QED BY <1>1, <1>3, <1>4 DEF TreeInv

LEMMA FlushTree ==
  ASSUME TreeInv, KInv', flush_page_map
  PROVE  TreeInv'
<1>1. /\ pc = "flush" /\ pc' = "init_heap" /\ at' = 0
      /\ mapping = NoMapping /\ mapping' = NoMapping
      /\ active' = pageMap
      /\ UNCHANGED <<vars, ram, pageMap, starved, heapPages, cloning>>
  BY DEF flush_page_map, At, Go
<1>2. /\ cloning = NotCloning /\ heapPages = 0 /\ MaxHeapPages \in Nat
      /\ mem.TotalPages \in Nat
  <2>1. ~Switched /\ Places
    BY <1>1 DEF Switched, TreeInv
  <2> QED BY <1>1, <2>1, WhileReady DEF Places
<1>3. Switched'
  BY <1>1 DEF Switched
<1>4. Places'
  BY <1>1, <1>2, <1>3 DEF Places
<1>5. ASSUME ~starved
      PROVE  PageMapBuilt'
  <2>1. PageMapBuilt
    BY <1>1, <1>5 DEF TreeInv
  <2>2. /\ mem' = mem /\ held["tables"] \subseteq held'["tables"]
        /\ RamTurns' = RamTurns
    BY <1>1 DEF RamTurns, vars
  <2> QED BY <1>1, <1>2, <2>1, <2>2, PageMapStays
<1> QED BY <1>1, <1>3, <1>4, <1>5 DEF TreeInv

(* A page of the heap, of init_heap or of expand_heap.                     *)
LEMMA HeapPageTree ==
  ASSUME TreeInv, KInv', HeapPage, mapping = NoMapping, cloning = NotCloning,
         pc \in {"init_heap", "running"}, pc' \in {"lock_framebuffer", "running"},
         heapPages < MaxHeapPages, at' \in Nat
  PROVE  TreeInv'
<1> DEFINE a == request_page(mem)
           page == HEAP_VIRTUAL_BASE + heapPages
<1>1. /\ Grant("heap", a, 1)
      /\ mapping' = Mapping(active, page, a.frame)
      /\ heapPages' = heapPages + 1
      /\ UNCHANGED <<ram, active, pageMap, starved, cloning>>
  BY DEF HeapPage
<1>2. /\ KInv /\ phase = "ready" /\ Places
      /\ heapPages \in Nat /\ MaxHeapPages \in Nat /\ HEAP_VIRTUAL_BASE \in Nat
      /\ mem.TotalPages \in Nat /\ mem.TotalPages <= PageLimit /\ PageLimit \in Nat
  <2>1. pc \notin {"init_physical", "lost"} /\ Places
    BY DEF TreeInv
  <2> QED BY <2>1, WhileReady, KernelMemoryAssumption, ConstantsAssumption
<1>3. page \in Pages /\ ~(page < mem.TotalPages)
  <2> DEFINE end == EntriesPerTable * EntriesPerTable * EntriesPerTable * EntriesPerTable
  <2>1. /\ end \in Nat /\ Pages = 0 .. end - 1
        /\ PageLimit <= HEAP_VIRTUAL_BASE
        /\ HEAP_VIRTUAL_BASE + MaxHeapPages <= end
    BY EndOfPages, Addresses
  <2> HIDE DEF end
  <2> QED BY <1>2, <2>1
<1> HIDE DEF page
<1>4. /\ held["tables"] \subseteq held'["tables"]
      /\ mem'.TotalPages = mem.TotalPages
  BY <1>1, <1>2, RequestsTyped, GrantKeepsTables
<1>5. Switched /\ Switched' /\ pc' # "init_heap"
  BY DEF Switched
<1>6. active = pageMap
  BY <1>2, <1>5 DEF Places
<1>7. Places'
  BY <1>1, <1>2, <1>5, <1>6 DEF Places
<1> HIDE DEF a
<1>8. ASSUME ~starved
      PROVE  PageMapBuilt'
  <2>1. PageMapBuilt /\ pageMap # nullptr
    BY <1>8 DEF TreeInv, PageMapBuilt
  <2>2. OnTheWay'
    BY <1>1, <1>3, <1>4, <1>6, <2>1, Started
  <2>3. RamTurns' = RamTurns /\ pc' # "map_ram"
    BY <1>4 DEF RamTurns
  <2> QED BY <1>1, <1>4, <2>1, <2>2, <2>3, PageMapStays
<1> QED BY <1>1, <1>5, <1>7, <1>8 DEF TreeInv

(* The steps around the framebuffer that only use the allocator.           *)
LEMMA RendererTree ==
  ASSUME TreeInv, KInv', LockFramebuffer \/ RequestTarget
  PROVE  TreeInv'
<1>1. /\ pc \in {"lock_framebuffer", "request_target"}
      /\ pc' \in {"map_framebuffer", "map_target", "running"} /\ at' = 0
      /\ mapping = NoMapping /\ mapping' = NoMapping
      /\ UNCHANGED <<ram, active, pageMap, starved, heapPages, cloning>>
  BY DEF LockFramebuffer, RequestTarget, At, Go, paging
<1>2. /\ KInv /\ phase = "ready" /\ Places /\ cloning = NotCloning
  <2>1. pc \notin {"init_physical", "lost"} /\ pc # "running" /\ Places
    BY <1>1 DEF TreeInv
  <2> QED BY <2>1, WhileReady
<1>3. /\ held["tables"] \subseteq held'["tables"]
      /\ mem'.TotalPages = mem.TotalPages
  <2>1. CASE LockFramebuffer
    <3>1. /\ mem' = lock_pages(mem, FramebufferFrames) /\ held' = held
      BY <2>1 DEF LockFramebuffer, LockDevice
    <3>2. mem'.TotalPages = mem.TotalPages
      <4>1. mem \in [PageMap : [Size : Nat, Buffer : Nat, bits : SUBSET Nat],
                     TotalPages : Nat, TotalFreePages : Counter,
                     TotalUsedPages : Counter, MaxFreePagesInARow : Nat,
                     FirstFreePage : Nat]
        BY <1>2 DEF KInv, IInv, TypeOK, PageFramesType
      <4> QED BY <3>1, <4>1 DEF lock_pages
    <3> QED BY <3>1, <3>2
  <2>2. CASE RequestTarget
    <3>1. Grant("renderer", request_pages(mem, fbPages), fbPages)
      BY <2>2 DEF RequestTarget
    <3> QED BY <1>2, <3>1, RequestsTyped, GrantKeepsTables
  <2> QED BY <2>1, <2>2
<1>4. Switched /\ Switched' /\ pc' # "init_heap" /\ pc # "init_heap"
  BY <1>1 DEF Switched
<1>5. Places'
  BY <1>1, <1>2, <1>4 DEF Places
<1>6. ASSUME ~starved
      PROVE  PageMapBuilt'
  <2>1. PageMapBuilt
    BY <1>1, <1>6 DEF TreeInv
  <2>2. RamTurns' = RamTurns /\ pc' # "map_ram"
    BY <1>1, <1>3 DEF RamTurns
  <2> QED BY <1>1, <1>2, <1>3, <2>1, <2>2, PageMapStays
<1> QED BY <1>1, <1>4, <1>5, <1>6 DEF TreeInv

-----------------------------------------------------------------------------
(* map(), on its way through the page map.                                 *)

\* What the invariant says of a map() into the page map.
LEMMA WhileOnTheWay ==
  ASSUME TreeInv, pc \notin {"init_physical", "lost"}, mapping # NoMapping, ~starved
  PROVE  /\ PageMapBuilt /\ OnTheWay
         /\ mapping.root = pageMap
         /\ mapping.page \in Nat
         /\ mapping.level \in 1 .. 4
         /\ mapping.table \in Nodes(ram, pageMap)
         /\ mapping.level = 4 => mapping.table = pageMap
         /\ mapping.level = 3 => mapping.table \in Level3(ram, pageMap)
         /\ mapping.level = 2 => mapping.table \in Level2(ram, pageMap)
         /\ mapping.level = 1 => mapping.table \in Level1(ram, pageMap)
         /\ pc # "init_virtual" /\ cloning = NotCloning
<1>1. Places /\ pc # "init_virtual"
  BY DEF TreeInv, Places
<1>2. PageMapBuilt /\ OnTheWay
  BY <1>1 DEF TreeInv, PageMapBuilt
<1>3. /\ mapping.root = pageMap
      /\ mapping.page \in Nat
  BY <1>2, Entries DEF OnTheWay, Pages
<1>4. /\ mapping.level \in 1 .. 4
      /\ mapping.level = 4 => mapping.table = pageMap
      /\ mapping.level = 3 => mapping.table \in Level3(ram, pageMap)
      /\ mapping.level = 2 => mapping.table \in Level2(ram, pageMap)
      /\ mapping.level = 1 => mapping.table \in Level1(ram, pageMap)
  BY <1>2, <1>3, WayIsInTree DEF OnTheWay, Leads
<1>5. mapping.table \in Nodes(ram, pageMap)
  BY <1>4 DEF Nodes
<1> QED BY <1>1, <1>2, <1>3, <1>4, <1>5 DEF Places


(* What map() finds is the entry on the way that is one level down.        *)
LEMMA BelowOnTheWay ==
  ASSUME OnTheWay, mapping.level > 1
  PROVE  /\ mapping.level \in {2, 3, 4}
         /\ mapping.level = 4 => Below = Entry4(ram, pageMap, mapping.page)
         /\ mapping.level = 3 => Below = Entry3(ram, pageMap, mapping.page)
         /\ mapping.level = 2 => Below = Entry2(ram, pageMap, mapping.page)
<1>1. mapping.level \in {2, 3, 4}
  BY DEF OnTheWay
<1>2. mapping.level = 4 => Below = Entry4(ram, pageMap, mapping.page)
  BY DEF OnTheWay, Below, Entry4
<1>3. mapping.level = 3 => Below = Entry3(ram, pageMap, mapping.page)
  BY DEF OnTheWay, Below, Entry3, Follow, Leads
<1>4. mapping.level = 2 => Below = Entry2(ram, pageMap, mapping.page)
  BY DEF OnTheWay, Below, Entry2, Follow, Leads
<1> QED BY <1>1, <1>2, <1>3, <1>4

LEMMA DownTheWay ==
  ASSUME OnTheWay, mapping.level \in {2, 3, 4}, NEW table, Enter(table),
         pageMap' = pageMap, mem'.TotalPages = mem.TotalPages,
         mapping.level = 4 => Leads(Entry4(ram', pageMap, mapping.page), table),
         mapping.level = 3 => Leads(Entry3(ram', pageMap, mapping.page), table),
         mapping.level = 2 => Leads(Entry2(ram', pageMap, mapping.page), table)
  PROVE  /\ OnTheWay'
         /\ mapping'.page = mapping.page
         /\ mapping' # NoMapping
<1>1. PICK p, x, l, t : mapping = [root |-> pageMap, page |-> p, frame |-> x,
                                   level |-> l, table |-> t]
  BY DEF OnTheWay
<1>2. mapping.page = p /\ mapping.frame = x /\ mapping.level = l
  BY <1>1
<1>3. mapping' = [root |-> pageMap, page |-> p, frame |-> x, level |-> l - 1,
                  table |-> table]
  BY <1>1, <1>2 DEF Enter
<1>4. /\ mapping'.page = p /\ mapping'.frame = x /\ mapping'.level = l - 1
      /\ mapping'.table = table
  BY <1>3
<1>5. mapping' # NoMapping
  BY <1>2, <1>4, LevelOfNoMapping
<1>6. /\ p \in Pages
      /\ p < mem'.TotalPages => x = p
  BY <1>2 DEF OnTheWay
<1>7. \/ mapping'.level = 3 /\ Leads(Entry4(ram', pageMap, p), table)
      \/ mapping'.level = 2 /\ Leads(Entry3(ram', pageMap, p), table)
      \/ mapping'.level = 1 /\ Leads(Entry2(ram', pageMap, p), table)
  BY <1>2, <1>4
<1>8. \/ mapping'.level = 3 /\ Leads(Entry4(ram, pageMap, mapping.page)', table)
      \/ mapping'.level = 2 /\ Leads(Entry3(ram, pageMap, mapping.page)', table)
      \/ mapping'.level = 1 /\ Leads(Entry2(ram, pageMap, mapping.page)', table)
  BY <1>4, <1>7
<1>9. OnTheWay'
  BY <1>3, <1>4, <1>6, <1>8 DEF OnTheWay
<1> QED BY <1>2, <1>4, <1>5, <1>9

(* A new table: the tree has one more, and every page is where it was.     *)
TableAdded(f) ==
    /\ f \notin held["tables"] /\ held'["tables"] = held["tables"] \cup {f}
    /\ Nodes(ram', pageMap) = Nodes(ram, pageMap) \cup {f}
    /\ \A t \in held["tables"] \ Nodes(ram, pageMap) : Table(ram', t) = Table(ram, t)
    /\ DOMAIN ram' \subseteq DOMAIN ram \cup held'["tables"]

LEMMA NewTableEffect ==
  ASSUME TreeInv, pc \notin {"init_physical", "lost"}, MapNewTable, ~starved'
  PROVE  /\ mapping # NoMapping /\ ~starved
         /\ held["tables"] \subseteq held'["tables"]
         /\ mem'.TotalPages = mem.TotalPages
         /\ \A t \in KernelFrames : Table(ram', t) = Table(ram, t)
         /\ Tree(ram', pageMap)
         /\ Nodes(ram', pageMap) \subseteq held'["tables"]
         /\ \A page \in Nat : Leaf(ram', pageMap, page) = Leaf(ram, pageMap, page)
         /\ OnTheWay' /\ mapping'.page = mapping.page /\ mapping' # NoMapping
         /\ \E f : TableAdded(f)
<1> DEFINE f == request_page(mem).frame
           t == mapping.table
           i == Index(mapping.page, mapping.level)
<1>1. /\ mapping.level > 1 /\ ~Below.present
      /\ TakeTable(request_page(mem))
      /\ ram' = Write(Clear(ram, f), t, i, To(f))
      /\ Enter(f)
      /\ starved' = (starved \/ (mapping.root = pageMap /\ f = nullptr))
      /\ pageMap' = pageMap
  BY DEF MapNewTable
<1>2. mapping # NoMapping /\ ~starved
  <2>1. mapping # NoMapping
    BY <1>1, LevelOfNoMapping
  <2>2. ~starved
    BY <1>1, Zenon
  <2> QED BY <2>1, <2>2
<1>3. /\ KInv /\ phase = "ready"
      /\ PageMapBuilt /\ OnTheWay
      /\ mapping.root = pageMap
      /\ mapping.page \in Nat
      /\ t \in Nodes(ram, pageMap)
      /\ mapping.level = 4 => t = pageMap
      /\ mapping.level = 3 => t \in Level3(ram, pageMap)
      /\ mapping.level = 2 => t \in Level2(ram, pageMap)
  BY <1>2, WhileReady, WhileOnTheWay
<1>4. Grant("tables", request_page(mem), 1) /\ f # nullptr
  BY <1>1, <1>3 DEF TakeTable
<1>5. /\ f \notin held["tables"] \cup KernelFrames \cup tables
      /\ held'["tables"] = held["tables"] \cup {f}
      /\ mem'.TotalPages = mem.TotalPages
  BY <1>3, <1>4, FreshTable, RequestsTyped, GrantKeepsTables
<1>6. /\ mapping.level \in {2, 3, 4}
      /\ i \in Slots
      /\ Below = Table(ram, t)[i]
  <2>1. mapping.level \in {2, 3, 4}
    BY <1>1, <1>3, BelowOnTheWay
  <2>2. i \in Slots
    BY <1>3, <2>1, IndexIsSlot
  <2> QED BY <2>1, <2>2 DEF Below, Entry
<1>7. /\ Tree(ram, pageMap) /\ f \notin Nodes(ram, pageMap) /\ f # t
      /\ Nodes(ram, pageMap) \subseteq held["tables"]
      /\ ~Table(ram, t)[i].present
  BY <1>1, <1>3, <1>5, <1>6 DEF PageMapBuilt
<1> HIDE DEF f
<1>8. Entered(ram, ram', t, i, f)
  <2> HIDE DEF t, i
  <2> QED BY <1>1, <1>7, EnteredIs
<1>9. \A u \in KernelFrames : Table(ram', u) = Table(ram, u)
  BY <1>3, <1>5, <1>7, <1>8, TablesApart DEF Entered
<1>10. /\ OneTableMore(ram, ram', pageMap, f)
       /\ mapping.level = 4 => Leads(Entry4(ram', pageMap, mapping.page), f)
       /\ mapping.level = 3 => Leads(Entry3(ram', pageMap, mapping.page), f)
       /\ mapping.level = 2 => Leads(Entry2(ram', pageMap, mapping.page), f)
  <2>1. CASE mapping.level = 4
    <3>1. t = pageMap /\ Index(mapping.page, 4) = i
      BY <1>3, <2>1
    <3>2. Entered(ram, ram', pageMap, i, f) /\ ~Table(ram, pageMap)[i].present
      BY <1>7, <1>8, <3>1
    <3> HIDE DEF t, i
    <3>3. OneTableMore(ram, ram', pageMap, f)
      BY <1>6, <1>7, <3>2, TableInRoot
    <3>4. Leads(Entry4(ram', pageMap, mapping.page), f)
      BY <1>3, <1>6, <1>7, <3>1, <3>2, TableInRoot
    <3> QED BY <2>1, <3>3, <3>4
  <2>2. CASE mapping.level = 3
    <3>1. t \in Level3(ram, pageMap) /\ Index(mapping.page, 3) = i
      BY <1>3, <2>2
    <3>2. Leads(Entry4(ram, pageMap, mapping.page), t)
      BY <1>3, <2>2 DEF OnTheWay
    <3> HIDE DEF t, i
    <3>3. OneTableMore(ram, ram', pageMap, f)
      BY <1>6, <1>7, <1>8, <3>1, TableInLevel3
    <3>4. Leads(Entry3(ram', pageMap, mapping.page), f)
      BY <1>3, <1>6, <1>7, <1>8, <3>1, <3>2, TableInLevel3
    <3> QED BY <2>2, <3>3, <3>4
  <2>3. CASE mapping.level = 2
    <3>1. t \in Level2(ram, pageMap) /\ Index(mapping.page, 2) = i
      BY <1>3, <2>3
    <3>2. Leads(Entry3(ram, pageMap, mapping.page), t)
      BY <1>3, <2>3 DEF OnTheWay
    <3> HIDE DEF t, i
    <3>3. OneTableMore(ram, ram', pageMap, f)
      BY <1>6, <1>7, <1>8, <3>1, TableInLevel2
    <3>4. Leads(Entry2(ram', pageMap, mapping.page), f)
      BY <1>3, <1>6, <1>7, <1>8, <3>1, <3>2, TableInLevel2
    <3> QED BY <2>3, <3>3, <3>4
  <2> QED BY <1>6, <2>1, <2>2, <2>3
<1>11. /\ Tree(ram', pageMap)
       /\ Nodes(ram', pageMap) \subseteq held'["tables"]
       /\ \A page \in Nat : Leaf(ram', pageMap, page) = Leaf(ram, pageMap, page)
  BY <1>5, <1>7, <1>10 DEF OneTableMore
<1>12. OnTheWay' /\ mapping'.page = mapping.page /\ mapping' # NoMapping
  BY <1>1, <1>3, <1>5, <1>6, <1>10, DownTheWay
<1>13. TableAdded(f)
  <2>1. DOMAIN ram' = DOMAIN ram \cup {f, t}
    BY <1>1 DEF Write, Clear, Put
  <2>2. \A u \in held["tables"] \ Nodes(ram, pageMap) : Table(ram', u) = Table(ram, u)
    BY <1>3, <1>5, <1>8 DEF Entered
  <2>3. Nodes(ram', pageMap) = Nodes(ram, pageMap) \cup {f}
    BY <1>10 DEF OneTableMore
  <2> QED BY <1>3, <1>5, <1>7, <2>1, <2>2, <2>3 DEF TableAdded
<1> QED BY <1>2, <1>5, <1>9, <1>11, <1>12, <1>13

LEMMA EntryWrites ==
  ASSUME TreeInv, pc \notin {"init_physical", "lost"}, MapPage, ~starved
  PROVE  /\ \A t \in held["tables"] \ Nodes(ram, pageMap) : Table(ram', t) = Table(ram, t)
         /\ DOMAIN ram' \subseteq DOMAIN ram \cup held["tables"]
<1>1. mapping # NoMapping
  BY LevelOfNoMapping DEF MapPage
<1>2. mapping.table \in Nodes(ram, pageMap) /\ PageMapBuilt
  BY <1>1, WhileOnTheWay
<1>3. PICK i, e : ram' = Write(ram, mapping.table, i, e)
  BY DEF MapPage
<1>4. DOMAIN ram' = DOMAIN ram \cup {mapping.table}
  BY <1>3 DEF Write, Put
<1>5. \A t : t # mapping.table => Table(ram', t) = Table(ram, t)
  BY <1>3, WriteTable
<1> QED BY <1>2, <1>4, <1>5 DEF PageMapBuilt

(* The entry of the page: it leads to its frame, the others where they did. *)
LEMMA MapPageEffect ==
  ASSUME TreeInv, pc \notin {"init_physical", "lost"}, MapPage, ~starved
  PROVE  /\ \A t \in KernelFrames : Table(ram', t) = Table(ram, t)
         /\ Tree(ram', pageMap)
         /\ Nodes(ram', pageMap) = Nodes(ram, pageMap)
         /\ Maps(ram', pageMap, mapping.page, mapping.frame)
         /\ \A p \in Pages \ {mapping.page} :
               Leaf(ram', pageMap, p) = Leaf(ram, pageMap, p)
<1> DEFINE t == mapping.table
           i == Index(mapping.page, 1)
           e == To(mapping.frame)
<1>1. mapping.level = 1 /\ ram' = Write(ram, t, i, e)
  BY DEF MapPage
<1>2. /\ KInv /\ PageMapBuilt /\ OnTheWay
      /\ mapping.page \in Nat
      /\ t \in Nodes(ram, pageMap) /\ t \in Level1(ram, pageMap)
  <2>1. mapping # NoMapping
    BY <1>1, LevelOfNoMapping
  <2> QED BY <1>1, <2>1, WhileReady, WhileOnTheWay
<1>3. Leads(Entry2(ram, pageMap, mapping.page), t) /\ mapping.page \in Pages
  BY <1>1, <1>2 DEF OnTheWay
<1>4. i \in Slots
  BY <1>2, IndexIsSlot
<1>5. Tree(ram, pageMap) /\ Nodes(ram, pageMap) \subseteq held["tables"]
  BY <1>2 DEF PageMapBuilt
<1> HIDE DEF e
<1>6. /\ Tree(ram', pageMap)
      /\ Nodes(ram', pageMap) = Nodes(ram, pageMap)
      /\ \A page \in Nat :
            Leaf(ram', pageMap, page) =
                IF /\ Entry2(ram, pageMap, page).present
                   /\ Entry2(ram, pageMap, page).frame = t
                   /\ Index(page, 1) = i
                THEN e ELSE Leaf(ram, pageMap, page)
  <2> HIDE DEF t, i
  <2> QED BY <1>1, <1>2, <1>4, <1>5, LeafWritten
<1>7. \A u \in KernelFrames : Table(ram', u) = Table(ram, u)
  BY <1>1, <1>2, <1>5, TablesApart, WriteTable
<1>8. Leaf(ram', pageMap, mapping.page) = e
  BY <1>2, <1>3, <1>6 DEF Leads
<1>9. ASSUME NEW p \in Pages \ {mapping.page}
      PROVE  Leaf(ram', pageMap, p) = Leaf(ram, pageMap, p)
  <2>1. p \in Nat
    BY Entries DEF Pages
  <2>2. ~(/\ Entry2(ram, pageMap, p).present
          /\ Entry2(ram, pageMap, p).frame = t
          /\ Index(p, 1) = i)
    BY <1>3, <1>5, <1>9, OnePage DEF Leads
  <2> HIDE DEF t, i
  <2> QED BY <1>6, <2>1, <2>2
<1> QED BY <1>6, <1>7, <1>8, <1>9 DEF Maps, e

(* The old page map is the kernel's: only map() into it changes it.        *)
LEMMA OldMapStays ==
  ASSUME OldMap, active' = active, \A t \in KernelFrames : Table(ram', t) = Table(ram, t)
  PROVE  OldMap'
BY KernelTables DEF OldMap

LEMMA MapTree ==
  ASSUME TreeInv, KInv', map, pc \notin {"init_physical", "lost"}
  PROVE  TreeInv'
<1>1. /\ mapping # NoMapping
      /\ UNCHANGED <<active, pageMap, pc, at, heapPages, cloning>>
  BY LevelOfNoMapping DEF map, MapThroughTable, MapNewTable, MapPage, paging
<1>2. /\ KInv /\ Places /\ cloning = NotCloning
      /\ pc \notin {"init_physical", "lost", "init_virtual"}
      /\ mem.TotalPages \in Nat
  BY <1>1, WhileReady DEF TreeInv, Places
<1>3. Switched' <=> Switched
  BY <1>1 DEF Switched
<1>4. Places'
  BY <1>1, <1>2, <1>3 DEF Places
<1>5. ASSUME ~starved
      PROVE  /\ PageMapBuilt /\ OnTheWay /\ pageMap # nullptr
             /\ ~Switched => OldMap
             /\ pc = "map_ram" => at = mapping.page + 1
             /\ mapping.page \in Pages
  BY <1>1, <1>2, <1>5, WhileOnTheWay DEF TreeInv, PageMapBuilt, OnTheWay
<1>6. ASSUME ~starved', ~starved,
             mem'.TotalPages = mem.TotalPages,
             \A t \in KernelFrames : Table(ram', t) = Table(ram, t),
             Tree(ram', pageMap), Nodes(ram', pageMap) \subseteq held'["tables"],
             mapping' # NoMapping => OnTheWay' /\ mapping'.page = mapping.page,
             \A p \in 0 .. mem.TotalPages - 1 :
                 p < RamTurns' => Maps(ram', pageMap, p, p)
      PROVE  TreeInv'
  <2>1. ~Switched => OldMap'
    BY <1>1, <1>5, <1>6, OldMapStays
  <2>2. PageMapBuilt'
    <3>1. Tree(ram, pageMap)' /\ (Nodes(ram, pageMap) \subseteq held["tables"])'
      BY <1>1, <1>6
    <3>2. \A p \in 0 .. mem'.TotalPages - 1 : p < RamTurns' => Maps(ram, pageMap, p, p)'
      BY <1>1, <1>6
    <3> QED BY <1>1, <1>2, <1>5, <1>6, <3>1, <3>2 DEF PageMapBuilt
  <2> QED BY <1>1, <1>2, <1>3, <1>4, <2>1, <2>2 DEF TreeInv
<1>7. \A p \in 0 .. mem.TotalPages - 1 : p \in Pages /\ p \in Nat
  <2> DEFINE end == EntriesPerTable * EntriesPerTable * EntriesPerTable * EntriesPerTable
  <2>1. /\ end \in Nat /\ Pages = 0 .. end - 1
        /\ PageLimit <= KERNEL_VIRTUAL
        /\ KERNEL_VIRTUAL + KernelPhysical + kernelPageCount + 2 <= end
    BY EndOfPages, Addresses
  <2>2. /\ KERNEL_VIRTUAL \in Nat /\ KernelPhysical \in Nat /\ kernelPageCount \in Nat
        /\ PageLimit \in Nat
        /\ mem.TotalPages \in Nat /\ mem.TotalPages <= PageLimit
    BY <1>2, KernelMemoryAssumption, ConstantsAssumption, TotalPagesBounded
       DEF kernelPageCount
  <2> HIDE DEF end
  <2> QED BY <2>1, <2>2
<1>8. CASE starved'
  BY <1>1, <1>2, <1>4, <1>8 DEF TreeInv
<1>9. CASE MapThroughTable /\ ~starved'
  <2>1. /\ mapping.level > 1 /\ Below.present /\ Enter(Below.frame)
        /\ UNCHANGED <<ram, starved, mem, held>>
    BY <1>9 DEF MapThroughTable, paging, vars
  <2>2. ~starved /\ OnTheWay /\ PageMapBuilt
    BY <1>5, <1>9, <2>1
  <2>3. OnTheWay' /\ mapping'.page = mapping.page /\ mapping' # NoMapping
    BY <1>1, <2>1, <2>2, BelowOnTheWay, DownTheWay DEF Leads
  <2>4. RamTurns' = RamTurns
    BY <1>1, <2>1, <2>3 DEF RamTurns
  <2> QED BY <1>6, <1>9, <2>1, <2>2, <2>3, <2>4 DEF PageMapBuilt
<1>10. CASE MapNewTable /\ ~starved'
  <2>1. /\ ~starved
        /\ mem'.TotalPages = mem.TotalPages
        /\ \A t \in KernelFrames : Table(ram', t) = Table(ram, t)
        /\ Tree(ram', pageMap)
        /\ Nodes(ram', pageMap) \subseteq held'["tables"]
        /\ \A page \in Nat : Leaf(ram', pageMap, page) = Leaf(ram, pageMap, page)
        /\ OnTheWay' /\ mapping'.page = mapping.page /\ mapping' # NoMapping
    BY <1>2, <1>10, NewTableEffect
  <2>2. RamTurns' = RamTurns
    BY <1>1, <2>1 DEF RamTurns
  <2>3. \A p \in 0 .. mem.TotalPages - 1 : p < RamTurns' => Maps(ram', pageMap, p, p)
    BY <1>5, <1>7, <2>1, <2>2 DEF PageMapBuilt, Maps
  <2> QED BY <1>6, <1>10, <2>1, <2>3
<1>11. CASE MapPage /\ ~starved'
  <2>1. mapping' = NoMapping /\ UNCHANGED <<starved, mem, held>>
    BY <1>11 DEF MapPage, vars
  <2>2. ~starved /\ OnTheWay /\ PageMapBuilt
    BY <1>5, <1>11, <2>1
  <2>3. /\ \A t \in KernelFrames : Table(ram', t) = Table(ram, t)
        /\ Tree(ram', pageMap)
        /\ Nodes(ram', pageMap) = Nodes(ram, pageMap)
        /\ Maps(ram', pageMap, mapping.page, mapping.frame)
        /\ \A p \in Pages \ {mapping.page} :
              Leaf(ram', pageMap, p) = Leaf(ram, pageMap, p)
    BY <1>2, <1>11, <2>2, MapPageEffect
  <2>4. ASSUME NEW p \in 0 .. mem.TotalPages - 1, p < RamTurns'
        PROVE  Maps(ram', pageMap, p, p)
    <3>1. CASE p = mapping.page
      <4>1. mapping.frame = p
        BY <1>2, <2>2, <3>1 DEF OnTheWay
      <4> QED BY <2>3, <3>1, <4>1
    <3>2. CASE p # mapping.page
      <4>1. p < RamTurns
        <5>1. CASE pc = "map_ram"
          <6>1. RamTurns = mapping.page /\ RamTurns' = mapping.page + 1
            BY <1>1, <1>5, <2>1, <2>2, <5>1 DEF RamTurns
          <6>2. mapping.page \in Nat
            BY <2>2, Entries DEF OnTheWay, Pages
          <6> QED BY <2>4, <3>2, <6>1, <6>2
        <5>2. CASE pc # "map_ram"
          BY <1>1, <2>1, <2>4, <5>2 DEF RamTurns
        <5> QED BY <5>1, <5>2
      <4>2. Maps(ram, pageMap, p, p)
        BY <2>2, <4>1 DEF PageMapBuilt
      <4> QED BY <1>7, <2>3, <3>2, <4>2 DEF Maps
    <3> QED BY <3>1, <3>2
  <2> QED BY <1>6, <1>11, <2>1, <2>2, <2>3, <2>4 DEF PageMapBuilt
<1> QED BY <1>8, <1>9, <1>10, <1>11 DEF map

-----------------------------------------------------------------------------
(* clone_active_page_map(): it writes to the tables of the clone, which    *)
(* are none of the page map's.                                             *)

KeepsPageMap ==
    /\ pc = "running" /\ mapping = NoMapping /\ CloneUnchanged
    /\ held["tables"] \subseteq held'["tables"] /\ mem'.TotalPages = mem.TotalPages
    /\ ~starved =>
          /\ \A t \in Nodes(ram, pageMap) : Table(ram', t) = Table(ram, t)
          /\ cloning' # NotCloning =>
                ClonesInto(cloning', held'["tables"] \ Nodes(ram, pageMap))

LEMMA CloneStepTree ==
  ASSUME TreeInv, KInv', KeepsPageMap
  PROVE  TreeInv'
<1>1. /\ UNCHANGED <<active, pageMap, starved, pc, at, mapping, heapPages>>
      /\ pc = "running" /\ mapping = NoMapping
      /\ held["tables"] \subseteq held'["tables"] /\ mem'.TotalPages = mem.TotalPages
  BY DEF KeepsPageMap, CloneUnchanged
<1>2. Places
  BY DEF TreeInv
<1>3. Switched /\ Switched'
  BY <1>1 DEF Switched
<1>4. Places'
  BY <1>1, <1>2, <1>3 DEF Places
<1>5. ASSUME ~starved
      PROVE  PageMapBuilt'
  <2>1. PageMapBuilt /\ Tree(ram, pageMap)
    BY <1>1, <1>5 DEF TreeInv, PageMapBuilt
  <2>2. /\ \A t \in Nodes(ram, pageMap) : Table(ram', t) = Table(ram, t)
        /\ cloning' # NotCloning =>
              ClonesInto(cloning', held'["tables"] \ Nodes(ram, pageMap))
    BY <1>5 DEF KeepsPageMap
  <2>3. Tree(ram', pageMap) /\ Nodes(ram', pageMap) = Nodes(ram, pageMap)
    BY <2>1, <2>2, TreeElsewhere
  <2>4. cloning' # NotCloning => CloneOutside'
    BY <1>1, <2>2, <2>3 DEF CloneOutside
  <2>5. RamTurns' = RamTurns
    BY <1>1 DEF RamTurns
  <2>6. \A p \in 0 .. mem.TotalPages - 1 : p < RamTurns => Maps(ram', pageMap, p, p)
    <3> SUFFICES ASSUME NEW p \in 0 .. mem.TotalPages - 1, p < RamTurns
                 PROVE  Maps(ram', pageMap, p, p)
      OBVIOUS
    <3>1. p \in Nat /\ Maps(ram, pageMap, p, p)
      BY <2>1 DEF PageMapBuilt
    <3> QED BY <2>2, <3>1, WayElsewhere DEF Maps
  <2>7. Tree(ram, pageMap)' /\ (Nodes(ram, pageMap) \subseteq held["tables"])'
    BY <1>1, <2>1, <2>3 DEF PageMapBuilt
  <2> QED BY <1>1, <2>1, <2>4, <2>5, <2>6, <2>7 DEF PageMapBuilt
<1> QED BY <1>1, <1>3, <1>4, <1>5 DEF TreeInv

\* A frame granted now is no table of the page map, and those that the clone
\* has are still none.
LEMMA GrantedOutside ==
  ASSUME TreeInv, pc = "running", ~starved, NEW f, f = request_page(mem).frame,
         Grant("tables", request_page(mem), 1)
  PROVE  /\ PageMapBuilt
         /\ f # nullptr => f \in held'["tables"] \ Nodes(ram, pageMap)
         /\ \A g \in held["tables"] \ Nodes(ram, pageMap) :
               g \in held'["tables"] \ Nodes(ram, pageMap)
<1>1. PageMapBuilt /\ KInv /\ phase = "ready"
  BY WhileReady DEF TreeInv
<1>2. held["tables"] \subseteq held'["tables"]
  BY <1>1, RequestsTyped, GrantKeepsTables
<1>3. f # nullptr => f \in held'["tables"] \ Nodes(ram, pageMap)
  BY <1>1, FreshTable DEF PageMapBuilt
<1> QED BY <1>1, <1>2, <1>3

LEMMA CloneBegunOutside ==
  ASSUME TreeInv, clone_active_page_map
  PROVE  KeepsPageMap
<1> DEFINE f == request_page(mem).frame
<1>1. /\ pc = "running" /\ mapping = NoMapping /\ cloning = NotCloning
      /\ Grant("tables", request_page(mem), 1)
      /\ CloneUnchanged
      /\ IF f = nullptr
         THEN UNCHANGED <<ram, cloning>>
         ELSE /\ ram' = Clear(ram, f)
              /\ cloning' = [NotCloning EXCEPT !.level = 4, !.old[4] = active,
                                               !.new[4] = f]
  BY DEF clone_active_page_map, Idle, At
<1>2. /\ held["tables"] \subseteq held'["tables"]
      /\ mem'.TotalPages = mem.TotalPages
  BY <1>1, WhileReady, RequestsTyped, GrantKeepsTables
<1> HIDE DEF f
<1>3. ASSUME ~starved
      PROVE  /\ \A t \in Nodes(ram, pageMap) : Table(ram', t) = Table(ram, t)
             /\ cloning' # NotCloning =>
                   ClonesInto(cloning', held'["tables"] \ Nodes(ram, pageMap))
  <2>1. f # nullptr => f \in held'["tables"] \ Nodes(ram, pageMap)
    BY <1>1, <1>3, GrantedOutside DEF f
  <2>2. CASE f = nullptr
    BY <1>1, <2>2
  <2>3. CASE f # nullptr
    <3>1. \A t \in Nodes(ram, pageMap) : Table(ram', t) = Table(ram, t)
      BY <1>1, <2>1, <2>3, PutTable DEF Clear
    <3>2. cloning' = [level |-> 4, old |-> [NoTables EXCEPT ![4] = active],
                      new |-> [NoTables EXCEPT ![4] = f], slot |-> NoTables]
      BY <1>1, <2>3 DEF NotCloning
    <3>3. [NoTables EXCEPT ![4] = f][4] = f /\ DOMAIN [NoTables EXCEPT ![4] = f] = 2 .. 4
      BY DEF NoTables
    <3> QED BY <2>1, <2>3, <3>1, <3>2, <3>3 DEF ClonesInto
  <2> QED BY <2>2, <2>3
<1> QED BY <1>1, <1>2, <1>3 DEF KeepsPageMap

LEMMA CloneTableOutside ==
  ASSUME TreeInv, CloneTable
  PROVE  KeepsPageMap
<1> DEFINE level == cloning.level
           i == Min(ToCopy)
           old == OldTable[i].frame
           f == request_page(mem).frame
<1>1. /\ cloning.level > 1
      /\ Grant("tables", request_page(mem), 1)
      /\ CASE f = nullptr -> cloning' = NotCloning /\ UNCHANGED ram
           [] f # nullptr /\ level = 2 ->
                /\ ram' = Write(Put(ram, f, Table(ram, old)), cloning.new[2], i, To(f))
                /\ cloning' = [cloning EXCEPT !.slot[2] = i + 1]
           [] f # nullptr /\ level > 2 ->
                /\ cloning' = Descended(level, i, old, f)
                /\ UNCHANGED ram
      /\ CloneUnchanged
  BY DEF CloneTable
<1> HIDE DEF i, old
<1>2. /\ cloning # NotCloning /\ pc = "running" /\ mapping = NoMapping
      /\ KInv /\ phase = "ready"
  <2>1. cloning # NotCloning
    BY <1>1, LevelOfNoMapping
  <2>2. pc = "running"
    BY <2>1 DEF TreeInv, KInv, InOrder
  <2> QED BY <2>1, <2>2, WhileReady
<1>3. /\ held["tables"] \subseteq held'["tables"]
      /\ mem'.TotalPages = mem.TotalPages
  BY <1>1, <1>2, RequestsTyped, GrantKeepsTables
<1> HIDE DEF f
<1>4. ASSUME ~starved
      PROVE  /\ \A t \in Nodes(ram, pageMap) : Table(ram', t) = Table(ram, t)
             /\ cloning' # NotCloning =>
                   ClonesInto(cloning', held'["tables"] \ Nodes(ram, pageMap))
  <2>1. /\ f # nullptr => f \in held'["tables"] \ Nodes(ram, pageMap)
        /\ \A g \in held["tables"] \ Nodes(ram, pageMap) :
              g \in held'["tables"] \ Nodes(ram, pageMap)
        /\ ClonesInto(cloning, held["tables"] \ Nodes(ram, pageMap))
    BY <1>1, <1>2, <1>4, GrantedOutside DEF f, PageMapBuilt, CloneOutside
  <2>2. PICK l, o, n, s : /\ cloning = [level |-> l, old |-> o, new |-> n, slot |-> s]
                          /\ l \in {2, 3, 4} /\ DOMAIN n = 2 .. 4
                          /\ \A k \in l .. 4 : n[k] \in held["tables"] \ Nodes(ram, pageMap)
    BY <2>1 DEF ClonesInto
  <2>3. cloning.level = l /\ cloning.old = o /\ cloning.new = n /\ cloning.slot = s
    BY <2>2
  <2>4. CASE f = nullptr
    BY <1>1, <2>4
  <2>5. CASE f # nullptr /\ level = 2
    <3>1. /\ ram' = Write(Put(ram, f, Table(ram, old)), n[2], i, To(f))
          /\ cloning' = [level |-> l, old |-> o, new |-> n, slot |-> [s EXCEPT ![2] = i + 1]]
      BY <1>1, <2>2, <2>3, <2>5
    <3>2. \A t \in Nodes(ram, pageMap) : t # f /\ t # n[2]
      BY <2>1, <2>2, <2>3, <2>5
    <3>3. \A t \in Nodes(ram, pageMap) : Table(ram', t) = Table(ram, t)
      BY <3>1, <3>2, PutTable, WriteTable
    <3>4. ClonesInto(cloning', held'["tables"] \ Nodes(ram, pageMap))
      BY <2>1, <2>2, <3>1 DEF ClonesInto
    <3> QED BY <3>3, <3>4
  <2>6. CASE f # nullptr /\ level > 2
    <3>1. /\ ram' = ram
          /\ cloning' = [level |-> l - 1, old |-> [o EXCEPT ![l - 1] = old],
                         new |-> [n EXCEPT ![l - 1] = f],
                         slot |-> [s EXCEPT ![l] = i, ![l - 1] = 0]]
      BY <1>1, <2>2, <2>3, <2>6 DEF Descended
    <3>2. /\ l - 1 \in {2, 3, 4}
          /\ \A k \in l - 1 .. 4 : k = l - 1 \/ k \in l .. 4
          /\ DOMAIN [n EXCEPT ![l - 1] = f] = 2 .. 4
          /\ [n EXCEPT ![l - 1] = f][l - 1] = f
          /\ \A k \in l .. 4 : [n EXCEPT ![l - 1] = f][k] = n[k]
      BY <2>2, <2>3, <2>6
    <3>3. \A k \in l - 1 .. 4 :
             [n EXCEPT ![l - 1] = f][k] \in held'["tables"] \ Nodes(ram, pageMap)
      BY <2>1, <2>2, <2>6, <3>2
    <3>4. ClonesInto(cloning', held'["tables"] \ Nodes(ram, pageMap))
      BY <3>1, <3>2, <3>3 DEF ClonesInto
    <3> QED BY <3>1, <3>4
  <2> QED BY <2>2, <2>3, <2>4, <2>5, <2>6
<1> QED BY <1>1, <1>2, <1>3, <1>4 DEF KeepsPageMap

LEMMA CloneDoneOutside ==
  ASSUME TreeInv, CloneEntered \/ CloneReturns
  PROVE  KeepsPageMap
<1>1. /\ cloning.level \in {2, 3, 4}
      /\ CloneUnchanged /\ UNCHANGED vars
  BY DEF CloneEntered, CloneReturns
<1>2. /\ cloning # NotCloning /\ pc = "running" /\ mapping = NoMapping
  <2>1. cloning # NotCloning
    BY <1>1, LevelOfNoMapping
  <2>2. pc = "running"
    BY <2>1 DEF TreeInv, KInv, InOrder
  <2> QED BY <2>1, <2>2, WhileReady
<1>3. mem' = mem /\ held' = held
  BY <1>1 DEF vars
<1>4. ASSUME ~starved
      PROVE  /\ \A t \in Nodes(ram, pageMap) : Table(ram', t) = Table(ram, t)
             /\ cloning' # NotCloning =>
                   ClonesInto(cloning', held'["tables"] \ Nodes(ram, pageMap))
  <2>1. ClonesInto(cloning, held["tables"] \ Nodes(ram, pageMap))
    BY <1>2, <1>4 DEF TreeInv, PageMapBuilt, CloneOutside
  <2>2. PICK l, o, n, s : /\ cloning = [level |-> l, old |-> o, new |-> n, slot |-> s]
                          /\ l \in {2, 3, 4} /\ DOMAIN n = 2 .. 4
                          /\ \A k \in l .. 4 : n[k] \in held["tables"] \ Nodes(ram, pageMap)
    BY <2>1 DEF ClonesInto
  <2>3. cloning.level = l /\ cloning.old = o /\ cloning.new = n /\ cloning.slot = s
    BY <2>2
  <2>4. CASE CloneEntered
    <3>1. /\ l \in {2, 3}
          /\ ram' = Write(ram, n[l + 1], s[l + 1], To(n[l]))
          /\ cloning' = [level |-> l + 1, old |-> o, new |-> n,
                         slot |-> [s EXCEPT ![l + 1] = @ + 1]]
      BY <2>2, <2>3, <2>4 DEF CloneEntered
    <3>2. l + 1 \in {2, 3, 4} /\ l + 1 \in l .. 4 /\ \A k \in l + 1 .. 4 : k \in l .. 4
      BY <3>1
    <3>3. \A t \in Nodes(ram, pageMap) : Table(ram', t) = Table(ram, t)
      BY <2>2, <3>1, <3>2, WriteTable
    <3>4. ClonesInto(cloning', held'["tables"] \ Nodes(ram, pageMap))
      BY <1>3, <2>2, <3>1, <3>2 DEF ClonesInto
    <3> QED BY <3>3, <3>4
  <2>5. CASE CloneReturns
    BY <2>5 DEF CloneReturns, vars
  <2> QED BY <2>4, <2>5
<1> QED BY <1>1, <1>2, <1>3, <1>4 DEF KeepsPageMap

-----------------------------------------------------------------------------
(* Every step keeps the invariant, if memory is clear when it is handed    *)
(* out: init_virtual uses its page as it comes.                            *)

LEMMA KStage1Tree ==
  ASSUME Leftover = Empty, TreeInv, KInv', KStage1
  PROVE  TreeInv'
<1>1. CASE Scan \/ MapLowMemory \/ SwitchBitmap \/ LoseMachine
  BY <1>1, ScanTree, MapLowMemoryTree, SwitchBitmapTree, LoseMachineTree
<1>2. CASE NewPageMap
  BY <1>2, NewPageMapTree
<1>3. CASE MapRam \/ MapKernel \/ MapFramebuffer \/ MapTarget
  BY <1>3, LoopsTree
<1>4. CASE UnmapNull \/ flush_page_map
  BY <1>4, UnmapNullTree, FlushTree
<1>5. CASE init_heap
  <2>1. /\ pc = "init_heap" /\ pc' = "lock_framebuffer" /\ at' = 0
        /\ mapping = NoMapping /\ HeapPage
    BY <1>5 DEF init_heap, At, Go
  <2>2. heapPages = 0 /\ 0 < MaxHeapPages
    BY <2>1, KernelMemoryAssumption DEF TreeInv, Places
  <2>3. cloning = NotCloning
    BY <2>1, WhileReady
  <2> QED BY <2>1, <2>2, <2>3, HeapPageTree
<1>6. CASE LockFramebuffer \/ RequestTarget
  BY <1>6, RendererTree
<1> QED BY <1>1, <1>2, <1>3, <1>4, <1>5, <1>6 DEF KStage1

LEMMA RunningTree ==
  ASSUME TreeInv, KInv', Running
  PROVE  TreeInv'
<1>1. CASE expand_heap
  <2>1. /\ pc = "running" /\ pc' = "running" /\ at' = at
        /\ mapping = NoMapping /\ cloning = NotCloning
        /\ heapPages < MaxHeapPages /\ HeapPage
    BY <1>1 DEF expand_heap, Idle, At
  <2>2. at \in Nat
    BY DEF TreeInv, Places
  <2> QED BY <2>1, <2>2, HeapPageTree
<1>2. CASE clone_active_page_map \/ CloneTable \/ CloneEntered \/ CloneReturns
  BY <1>2, CloneBegunOutside, CloneTableOutside, CloneDoneOutside, CloneStepTree
<1> QED BY <1>1, <1>2 DEF Running

LEMMA TreeUnchanged ==
  ASSUME TreeInv, KInv', UNCHANGED kvars
  PROVE  TreeInv'
<1>1. /\ UNCHANGED <<mem, tables, phase, held, ram, active, pageMap, starved, pc, at,
                     mapping, heapPages, cloning>>
  BY DEF kvars, vars
<1>2. Switched' <=> Switched
  BY <1>1 DEF Switched
<1>3. Places' <=> Places
  BY <1>1, <1>2 DEF Places
<1>4. BootTables' <=> BootTables
  BY <1>1 DEF BootTables, Known
<1>5. OldMap' <=> OldMap
  BY <1>1 DEF OldMap
<1>6. PageMapBuilt => PageMapBuilt'
  <2>1. RamTurns' = RamTurns
    BY <1>1 DEF RamTurns
  <2>2. OnTheWay => OnTheWay'
    BY <1>1 DEF OnTheWay
  <2>3. CloneOutside => CloneOutside'
    BY <1>1 DEF CloneOutside
  <2> QED BY <1>1, <2>1, <2>2, <2>3, PageMapStays DEF PageMapBuilt
<1> QED BY <1>1, <1>2, <1>3, <1>4, <1>5, <1>6 DEF TreeInv

LEMMA TreeStep ==
  ASSUME Leftover = Empty, TreeInv, [KNext]_kvars
  PROVE  TreeInv'
<1>1. KInv'
  BY KInvStep DEF TreeInv
<1>2. CASE KStage1
  BY <1>1, <1>2, KStage1Tree
<1>3. CASE map
  <2>1. mapping # NoMapping
    BY <1>3, LevelOfNoMapping DEF map, MapThroughTable, MapNewTable, MapPage
  <2>2. pc # "lost"
    BY <2>1 DEF TreeInv, Places, KInv, InOrder
  <2> QED BY <1>1, <1>3, <2>2, MapTree, BootMapTree
<1>4. CASE Running
  BY <1>1, <1>4, RunningTree
<1>5. CASE UNCHANGED kvars
  BY <1>1, <1>5, TreeUnchanged
<1> QED BY <1>2, <1>3, <1>4, <1>5 DEF KNext

(* From power-on to the last clone: the page map that is built is a tree   *)
(* of held frames, no table of it is entered twice, and a map() that runs  *)
(* is on the way to its page.                                              *)
THEOREM PageMapInvariant ==
  ASSUME Leftover = Empty
  PROVE  KSpec => []TreeInv
<1>1. KInit => TreeInv
  BY TreeInit
<1>2. TreeInv /\ [KNext]_kvars => TreeInv'
  BY TreeStep
<1> QED BY <1>1, <1>2, PTL DEF KSpec

(* "virtual memory addresses will be equal to physical memory addresses    *)
(* within the kernel": from flush_page_map on, whatever init_heap, the     *)
(* renderer, expand_heap and clone_active_page_map do, for every machine.  *)
THEOREM RamStaysIdentityMapped ==
  ASSUME Leftover = Empty
  PROVE  KSpec => []RamIsIdentityMapped
<1>1. TreeInv => RamIsIdentityMapped
  <2> SUFFICES ASSUME TreeInv, Switched, ~starved,
                      NEW p \in 0 .. mem.TotalPages - 1
               PROVE  Maps(ram, active, p, p)
    BY DEF RamIsIdentityMapped
  <2>1. active = pageMap /\ PageMapBuilt /\ RamTurns = mem.TotalPages
    BY DEF TreeInv, Places, Switched, RamTurns
  <2>2. mem.TotalPages \in Nat
    BY TotalPagesBounded DEF TreeInv
  <2> QED BY <2>1, <2>2 DEF PageMapBuilt
<1> QED BY <1>1, PageMapInvariant, PTL

LEMMA MappedPages ==
  ASSUME KInv
  PROVE  Mapped \subseteq Pages
<1> DEFINE end == EntriesPerTable * EntriesPerTable * EntriesPerTable * EntriesPerTable
<1>1. /\ end \in Nat /\ Pages = 0 .. end - 1
      /\ PageLimit <= KERNEL_VIRTUAL
      /\ KERNEL_VIRTUAL + KernelPhysical + kernelPageCount + 2 <= end
      /\ HEAP_VIRTUAL_BASE + MaxHeapPages <= end
      /\ virtualTargetBaseAddress + fbSize <= end
      /\ Framebuffer + fbSize <= end
  BY EndOfPages, Addresses
<1> HIDE DEF end
<1>2. /\ KERNEL_VIRTUAL \in Nat /\ HEAP_VIRTUAL_BASE \in Nat
      /\ virtualTargetBaseAddress \in Nat /\ Framebuffer \in Nat /\ fbSize \in Nat
      /\ KernelPhysical \in Nat /\ kernelPageCount \in Nat /\ MaxHeapPages \in Nat
      /\ PageLimit \in Nat /\ mem.TotalPages \in Nat /\ mem.TotalPages <= PageLimit
  BY KernelMemoryAssumption, ConstantsAssumption, TotalPagesBounded DEF kernelPageCount
<1>3. \A p \in KernelFrames : KERNEL_VIRTUAL + p \in Pages
  BY <1>1, <1>2 DEF KernelFrames, Frames
<1>4. /\ 0 .. mem.TotalPages - 1 \subseteq Pages
      /\ HEAP_VIRTUAL_BASE .. HEAP_VIRTUAL_BASE + MaxHeapPages - 1 \subseteq Pages
      /\ Framebuffer .. Framebuffer + fbSize - 1 \subseteq Pages
      /\ virtualTargetBaseAddress .. virtualTargetBaseAddress + fbSize - 1 \subseteq Pages
  BY <1>1, <1>2
<1> QED BY <1>3, <1>4 DEF Mapped, Frames

(* map() changes where its own page leads, and nothing else: neither a new *)
(* table, which replaces an empty entry and is cleared before it is        *)
(* entered, nor the last entry hides or redirects another page.            *)
THEOREM MapOnlyChangesItsPage ==
  ASSUME Leftover = Empty
  PROVE  KSpec => MapChangesOnePage
<1>1. TreeInv /\ [KNext]_kvars =>
         [mapping # NoMapping /\ mapping.root = pageMap /\ ~starved' =>
              \A p \in Mapped \ {mapping.page} :
                  Leaf(ram', pageMap, p) = Leaf(ram, pageMap, p)]_kvars
  <2> SUFFICES ASSUME TreeInv, KNext, mapping # NoMapping, mapping.root = pageMap,
                      ~starved', NEW p \in Mapped \ {mapping.page}
               PROVE  Leaf(ram', pageMap, p) = Leaf(ram, pageMap, p)
    OBVIOUS
  <2>1. KInv /\ p \in Pages \ {mapping.page} /\ p \in Nat
    BY MappedPages, Entries DEF TreeInv, Pages
  <2>2. cloning = NotCloning /\ pc # "init_virtual"
    BY DEF TreeInv, Places
  <2>3. pc \notin {"init_physical", "lost"}
    <3>0. pc # "lost"
      BY DEF TreeInv, Places, KInv, InOrder
    <3> SUFFICES ASSUME pc = "init_physical" PROVE FALSE
      BY <3>0
    <3>1. phase = "map" /\ pageMap = nullptr
      BY WhileBooting DEF BootTables, KInv, InOrder, Booting
    <3>2. Walking
      BY <3>1, <2>1, WhileMapping DEF MapsLowMemory
    <3>3. mapping.root = pml4
      BY <3>2 DEF Walking
    <3> QED BY <3>1, <3>3, KernelTables
  <2>4. CASE ram' = ram
    BY <2>4
  <2>5. CASE map
    <3>1. CASE MapThroughTable
      BY <2>4, <3>1 DEF MapThroughTable, paging
    <3>2. CASE MapNewTable
      BY <2>1, <2>3, <3>2, NewTableEffect
    <3>3. CASE MapPage
      <4>1. ~starved
        BY <3>3 DEF MapPage
      <4> QED BY <2>1, <2>3, <3>3, <4>1, MapPageEffect
    <3> QED BY <2>5, <3>1, <3>2, <3>3 DEF map
  <2>6. CASE KStage1
    <3>1. Scan
      BY <2>3, <2>6 DEF KStage1, MapLowMemory, SwitchBitmap, LoseMachine, NewPageMap, MapRam,
         MapKernel, UnmapNull, flush_page_map, init_heap, LockFramebuffer,
         MapFramebuffer, RequestTarget, MapTarget, Loop, At
    <3> QED BY <2>4, <3>1 DEF Scan, paging
  <2>7. CASE Running
    <3>1. cloning.level = 0
      BY <2>2, LevelOfNoMapping
    <3> QED BY <2>7, <3>1 DEF Running, expand_heap, clone_active_page_map, CloneTable,
            CloneEntered, CloneReturns, Idle, At
  <2> QED BY <2>5, <2>6, <2>7 DEF KNext
<1> QED BY <1>1, PageMapInvariant, PTL DEF KSpec, MapChangesOnePage
-----------------------------------------------------------------------------
(***************************************************************************)
(* What the kernel, the heap and the deferred framebuffer lead to.         *)
(*                                                                         *)
(* A loop of kstage1 has mapped the pages of its turns so far, to          *)
(* consecutive frames; after it they stay mapped, since no other loop and  *)
(* no page of the heap comes near them.  The heap's frames are all that    *)
(* was requested for it: each page leads to one, except that the page of a *)
(* running map() will.  Nothing of this is said after a panic.             *)
(***************************************************************************)
LeadTo(r, root, page, frame, n) ==
    \A k \in 0 .. n - 1 : Maps(r, root, page + k, frame + k)

\* Turns of the running loop whose page is mapped.
Done == IF mapping = NoMapping THEN at ELSE at - 1

Looping(page, frame, turns) ==
    /\ Done \in 0 .. turns
    /\ mapping # NoMapping =>
          /\ Done < turns
          /\ mapping.page = page + Done
          /\ mapping.frame = frame + Done
    /\ LeadTo(ram, pageMap, page, frame, Done)

KernelStart == KERNEL_VIRTUAL + KernelPhysical
kernelTurns == kernelPageCount + 2

KernelMapped ==
    /\ pc = "map_kernel" => Looping(KernelStart, KernelPhysical, kernelTurns)
    /\ pc \notin {"map_ram", "map_kernel"} =>
          LeadTo(ram, pageMap, KernelStart, KernelPhysical, kernelTurns)

FramebufferMapped ==
    pc = "map_framebuffer" => Looping(Framebuffer, Framebuffer, fbSize)

TargetMapped ==
    /\ pc = "map_target" => Looping(virtualTargetBaseAddress, target, fbSize)
    /\ pc \in {"map_target", "running"} /\ target # nullptr =>
          /\ target \in Nat
          /\ Frames(target, fbPages) \subseteq held["renderer"]
    /\ pc = "running" /\ target # nullptr =>
          LeadTo(ram, pageMap, virtualTargetBaseAddress, target, fbSize)

HeapMapping == pc \in {"lock_framebuffer", "running"} /\ mapping # NoMapping

HeapFrameAt(k) ==
    IF HeapMapping /\ k = heapPages - 1 THEN mapping.frame
    ELSE Leaf(ram, pageMap, HEAP_VIRTUAL_BASE + k).frame

HeapMapped ==
    /\ HeapMapping =>
          heapPages > 0 /\ mapping.page = HEAP_VIRTUAL_BASE + heapPages - 1
    /\ \A k \in 0 .. heapPages - 1 :
          \/ HeapMapping /\ k = heapPages - 1
          \/ Leaf(ram, pageMap, HEAP_VIRTUAL_BASE + k).present
    /\ held["heap"] = {HeapFrameAt(k) : k \in 0 .. heapPages - 1}
    /\ IsFiniteSet(held["heap"]) /\ Cardinality(held["heap"]) = heapPages

\* The parts of kstage1 that map, with the step after init_heap.
Mappers == {"map_ram", "map_kernel", "lock_framebuffer", "map_framebuffer", "map_target",
            "running"}

DataMapped ==
    /\ mem.FirstFreePage > 0
    /\ mapping # NoMapping => pc \in Mappers
    /\ KernelMapped
    /\ FramebufferMapped
    /\ TargetMapped
    /\ HeapMapped

DataInv ==
    /\ heapPages = 0 => held["heap"] = {}
    /\ pc \notin {"init_physical", "lost", "init_virtual"} /\ ~starved /\ ~panicked => DataMapped

\* The pages of the four loops after RAM's, and of the heap.
KernelPages == KernelStart .. KernelStart + kernelTurns - 1
ScreenPages == Framebuffer .. Framebuffer + fbSize - 1
TargetPages == virtualTargetBaseAddress .. virtualTargetBaseAddress + fbSize - 1
HeapPages == HEAP_VIRTUAL_BASE .. HEAP_VIRTUAL_BASE + MaxHeapPages - 1

LEMMA AddressTypes ==
  /\ KERNEL_VIRTUAL \in Nat /\ HEAP_VIRTUAL_BASE \in Nat
  /\ virtualTargetBaseAddress \in Nat /\ Framebuffer \in Nat /\ fbSize \in Nat
  /\ KernelPhysical \in Nat /\ kernelPageCount \in Nat
  /\ MaxHeapPages \in Nat \ {0}
  /\ KernelStart \in Nat /\ kernelTurns \in Nat
  /\ fbPages = fbSize + 1
BY KernelMemoryAssumption, ConstantsAssumption
   DEF kernelPageCount, KernelStart, kernelTurns, fbPages

LEMMA RangesApart ==
  /\ KernelPages \cup ScreenPages \cup TargetPages \cup HeapPages \subseteq Pages
  /\ KernelPages \cap (ScreenPages \cup TargetPages \cup HeapPages) = {}
  /\ ScreenPages \cap (TargetPages \cup HeapPages) = {}
  /\ TargetPages \cap HeapPages = {}
<1> DEFINE end == EntriesPerTable * EntriesPerTable * EntriesPerTable * EntriesPerTable
<1>1. /\ end \in Nat /\ Pages = 0 .. end - 1
      /\ Framebuffer + fbSize <= virtualTargetBaseAddress
      /\ virtualTargetBaseAddress + fbSize <= KERNEL_VIRTUAL
      /\ KERNEL_VIRTUAL + KernelPhysical + kernelPageCount + 2 <= HEAP_VIRTUAL_BASE
      /\ HEAP_VIRTUAL_BASE + MaxHeapPages <= end
  BY EndOfPages, Addresses
<1> HIDE DEF end
<1>2. KernelPages = KERNEL_VIRTUAL + KernelPhysical ..
                    KERNEL_VIRTUAL + KernelPhysical + (kernelPageCount + 2) - 1
  BY DEF KernelPages, KernelStart, kernelTurns
<1>3. KernelPages \subseteq Pages /\ KernelPages \cap HeapPages = {}
  BY <1>1, <1>2, AddressTypes DEF HeapPages
<1>4. KernelPages \cap (ScreenPages \cup TargetPages) = {}
  BY <1>1, <1>2, AddressTypes DEF ScreenPages, TargetPages
<1>5. HeapPages \subseteq Pages /\ HeapPages \cap (ScreenPages \cup TargetPages) = {}
  BY <1>1, AddressTypes DEF ScreenPages, TargetPages, HeapPages
<1>6. ScreenPages \cup TargetPages \subseteq Pages /\ ScreenPages \cap TargetPages = {}
  BY <1>1, AddressTypes DEF ScreenPages, TargetPages
<1> QED BY <1>3, <1>4, <1>5, <1>6

\* Where no leaf changes.
LEMMA LeadsOn ==
  ASSUME NEW r, NEW s, NEW root, NEW page \in Nat, NEW frame, NEW n \in Nat,
         LeadTo(r, root, page, frame, n),
         \A p \in page .. page + n - 1 : Leaf(s, root, p) = Leaf(r, root, p)
  PROVE  LeadTo(s, root, page, frame, n)
<1> SUFFICES ASSUME NEW k \in 0 .. n - 1
             PROVE  Maps(s, root, page + k, frame + k)
  BY DEF LeadTo
<1>1. page + k \in page .. page + n - 1
  OBVIOUS
<1>2. Maps(r, root, page + k, frame + k)
  BY DEF LeadTo
<1> QED BY <1>1, <1>2 DEF Maps

LEMMA OneMore ==
  ASSUME NEW r, NEW root, NEW page \in Nat, NEW frame, NEW n \in Nat,
         LeadTo(r, root, page, frame, n), Maps(r, root, page + n, frame + n)
  PROVE  LeadTo(r, root, page, frame, n + 1)
<1> SUFFICES ASSUME NEW k \in 0 .. n
             PROVE  Maps(r, root, page + k, frame + k)
  BY DEF LeadTo
<1>1. k = n \/ k \in 0 .. n - 1
  OBVIOUS
<1> QED BY <1>1 DEF LeadTo

\* A page is granted to one owner; without a panic it is one, and not null.
LEMMA PageGranted ==
  ASSUME KInv, phase = "ready", NEW o \in {"tables", "heap"},
         Grant(o, request_page(mem), 1), ~panicked'
  PROVE  LET f == request_page(mem).frame IN
         /\ f \in Nat /\ f >= mem.FirstFreePage
         /\ mem'.FirstFreePage = f + 1
         /\ f # nullptr =>
               /\ f \notin held[o]
               /\ held' = [held EXCEPT ![o] = @ \cup {f}]
<1> DEFINE a == request_page(mem)
           f == a.frame
<1>1. /\ RequestType(mem, a)
      /\ \/ a.panics
         \/ /\ Granted(mem, a, 1) /\ ~a.panics /\ a.frame < mem.TotalPages
            /\ a.mem.FirstFreePage = a.frame + 1
  BY SoundNow, RequestPage1 DEF Sound, KInv
<1>2. /\ o \in Owner
      /\ held \in [Owner -> SUBSET Nat]
      /\ mem.TotalPages \in Nat
  BY KernelMemoryAssumption DEF KInv, IInv, TypeOK, PageFramesType
<1>3. /\ held' = IF a.panics \/ a.frame = nullptr
                 THEN held ELSE [held EXCEPT ![o] = @ \cup Frames(a.frame, 1)]
      /\ mem' = a.mem
      /\ panicked' = (panicked \/ a.panics)
  BY DEF Grant
<1> HIDE DEF a
<1>4. ~a.panics
  BY <1>3
<1>5. /\ Granted(mem, a, 1) /\ f < mem.TotalPages /\ f \in Nat
      /\ mem'.FirstFreePage = f + 1
  BY <1>1, <1>3, <1>4 DEF RequestType
<1>6. f >= mem.FirstFreePage
  BY <1>5 DEF Granted
<1>7. Frames(a.frame, 1) = {f}
  BY <1>5 DEF Frames
<1>8. ASSUME f # nullptr
      PROVE  \A q \in Owner : Frames(a.frame, 1) \cap held[q] = {}
  <2>1. \A j \in Frames(a.frame, 1) : j < mem.TotalPages
    BY <1>5, <1>7
  <2> QED BY <1>1, <1>4, <1>5, <1>8, <2>1, GrantedRun DEF KInv
<1>9. f # nullptr => f \notin held[o] /\ held' = [held EXCEPT ![o] = @ \cup {f}]
  BY <1>2, <1>3, <1>4, <1>7, <1>8
<1> QED BY <1>5, <1>6, <1>9 DEF a

-----------------------------------------------------------------------------
(* The steps that map nothing.                                             *)

\* In a loop or in the heap: where what is mapped, and what is being mapped, stay.
LEMMA LoopingOn ==
  ASSUME NEW page \in Nat, NEW frame, NEW turns \in Nat, Looping(page, frame, turns),
         pageMap' = pageMap, Done' = Done,
         mapping' = NoMapping <=> mapping = NoMapping,
         mapping'.page = mapping.page, mapping'.frame = mapping.frame,
         \A p \in Nat : Leaf(ram', pageMap, p) = Leaf(ram, pageMap, p)
  PROVE  /\ Done' \in 0 .. turns
         /\ mapping' # NoMapping =>
               /\ Done' < turns
               /\ mapping'.page = page + Done'
               /\ mapping'.frame = frame + Done'
         /\ LeadTo(ram', pageMap', page, frame, Done')
<1>1. Done \in Nat
  BY DEF Looping
<1>2. \A p \in page .. page + Done - 1 : p \in Nat
  BY <1>1
<1>3. LeadTo(ram', pageMap, page, frame, Done)
  BY <1>1, <1>2, LeadsOn DEF Looping
<1> QED BY <1>3 DEF Looping

LEMMA HeapStays ==
  ASSUME HeapMapped, heapPages \in Nat, UNCHANGED <<pageMap, heapPages>>,
         HeapMapping' <=> HeapMapping,
         HeapMapping => mapping'.page = mapping.page /\ mapping'.frame = mapping.frame,
         held'["heap"] = held["heap"],
         \A p \in Nat : Leaf(ram', pageMap, p) = Leaf(ram, pageMap, p)
  PROVE  HeapMapped'
<1>1. \A k \in 0 .. heapPages - 1 :
         /\ HEAP_VIRTUAL_BASE + k \in Nat
         /\ Leaf(ram', pageMap, HEAP_VIRTUAL_BASE + k)
               = Leaf(ram, pageMap, HEAP_VIRTUAL_BASE + k)
  BY AddressTypes
<1>2. \A k \in 0 .. heapPages - 1 : HeapFrameAt(k)' = HeapFrameAt(k)
  BY <1>1 DEF HeapFrameAt
<1>3. {HeapFrameAt(k) : k \in 0 .. heapPages - 1}'
         = {HeapFrameAt(k) : k \in 0 .. heapPages - 1}
  BY <1>2
<1>4. (\A k \in 0 .. heapPages - 1 :
          \/ HeapMapping /\ k = heapPages - 1
          \/ Leaf(ram, pageMap, HEAP_VIRTUAL_BASE + k).present)'
  BY <1>1 DEF HeapMapped
<1> QED BY <1>3, <1>4 DEF HeapMapped

LEMMA DataKept ==
  ASSUME DataMapped, heapPages \in Nat, UNCHANGED <<pc, at, pageMap, heapPages, target>>,
         mapping' = NoMapping <=> mapping = NoMapping,
         mapping'.page = mapping.page, mapping'.frame = mapping.frame,
         held'["heap"] = held["heap"], held'["renderer"] = held["renderer"],
         mem'.FirstFreePage > 0,
         \A p \in Nat : Leaf(ram', pageMap, p) = Leaf(ram, pageMap, p)
  PROVE  DataMapped'
<1>1. Done' = Done
  BY DEF Done
<1>2. KernelMapped'
  <2>1. pc = "map_kernel" => Looping(KernelStart, KernelPhysical, kernelTurns)'
    <3> SUFFICES ASSUME pc = "map_kernel"
                 PROVE  Looping(KernelStart, KernelPhysical, kernelTurns)'
      OBVIOUS
    <3>1. Looping(KernelStart, KernelPhysical, kernelTurns)
      BY DEF DataMapped, KernelMapped
    <3> QED BY <1>1, <3>1, LoopingOn, AddressTypes DEF Looping
  <2>2. pc \notin {"map_ram", "map_kernel"} =>
           LeadTo(ram, pageMap, KernelStart, KernelPhysical, kernelTurns)'
    <3> SUFFICES ASSUME pc \notin {"map_ram", "map_kernel"}
                 PROVE  LeadTo(ram, pageMap, KernelStart, KernelPhysical, kernelTurns)'
      OBVIOUS
    <3>1. LeadTo(ram, pageMap, KernelStart, KernelPhysical, kernelTurns)
      BY DEF DataMapped, KernelMapped
    <3>2. \A p \in KernelStart .. KernelStart + kernelTurns - 1 : p \in Nat
      BY AddressTypes
    <3> QED BY <3>1, <3>2, LeadsOn, AddressTypes
  <2> QED BY <2>1, <2>2 DEF KernelMapped
<1>3. FramebufferMapped'
  <2> SUFFICES ASSUME pc = "map_framebuffer"
               PROVE  Looping(Framebuffer, Framebuffer, fbSize)'
    BY DEF FramebufferMapped
  <2>1. Looping(Framebuffer, Framebuffer, fbSize)
    BY DEF DataMapped, FramebufferMapped
  <2> QED BY <1>1, <2>1, LoopingOn, AddressTypes DEF Looping
<1>4. TargetMapped'
  <2>1. pc = "map_target" => Looping(virtualTargetBaseAddress, target, fbSize)'
    <3> SUFFICES ASSUME pc = "map_target"
                 PROVE  Looping(virtualTargetBaseAddress, target, fbSize)'
      OBVIOUS
    <3>1. Looping(virtualTargetBaseAddress, target, fbSize)
      BY DEF DataMapped, TargetMapped
    <3> QED BY <1>1, <3>1, LoopingOn, AddressTypes DEF Looping
  <2>2. pc = "running" /\ target # nullptr =>
           LeadTo(ram, pageMap, virtualTargetBaseAddress, target, fbSize)'
    <3> SUFFICES ASSUME pc = "running", target # nullptr
                 PROVE  LeadTo(ram, pageMap, virtualTargetBaseAddress, target, fbSize)'
      OBVIOUS
    <3>1. LeadTo(ram, pageMap, virtualTargetBaseAddress, target, fbSize)
      BY DEF DataMapped, TargetMapped
    <3>2. \A p \in virtualTargetBaseAddress .. virtualTargetBaseAddress + fbSize - 1 : p \in Nat
      BY AddressTypes
    <3> QED BY <3>1, <3>2, LeadsOn, AddressTypes
  <2>3. pc \in {"map_target", "running"} /\ target # nullptr =>
           (target \in Nat /\ Frames(target, fbPages) \subseteq held["renderer"])'
    BY DEF DataMapped, TargetMapped
  <2> QED BY <2>1, <2>2, <2>3 DEF TargetMapped
<1>5. HeapMapped'
  BY HeapStays DEF DataMapped, HeapMapping
<1> QED BY <1>2, <1>3, <1>4, <1>5 DEF DataMapped

\* A loop begins, takes a turn, and ends.
LEMMA LoopBegins ==
  ASSUME NEW page, NEW frame, NEW turns \in Nat, at' = 0, mapping' = NoMapping
  PROVE  /\ Done' \in 0 .. turns
         /\ LeadTo(ram', pageMap', page, frame, Done')
<1>1. Done' = 0 /\ 0 .. 0 - 1 = {}
  BY DEF Done
<1> QED BY <1>1 DEF LeadTo

LEMMA LoopTurns ==
  ASSUME NEW page \in Nat, NEW frame, NEW turns \in Nat, Looping(page, frame, turns),
         at < turns, mapping = NoMapping, pageMap # nullptr,
         mapping' = Mapping(pageMap, page + at, frame + at), at' = at + 1,
         UNCHANGED <<ram, pageMap>>
  PROVE  /\ Done' \in 0 .. turns
         /\ mapping' # NoMapping =>
               /\ Done' < turns
               /\ mapping'.page = page + Done'
               /\ mapping'.frame = frame + Done'
         /\ LeadTo(ram', pageMap', page, frame, Done')
<1>1. Done = at /\ at \in Nat
  BY DEF Done, Looping
<1>2. /\ mapping' = [root |-> pageMap, page |-> page + at, frame |-> frame + at,
                     level |-> 4, table |-> pageMap]
      /\ mapping'.page = page + at /\ mapping'.frame = frame + at
  BY DEF Mapping
<1>3. mapping' # NoMapping
  BY <1>2 DEF NoMapping
<1>4. Done' = at
  <2>1. Done' = at' - 1
    BY <1>3 DEF Done
  <2> QED BY <1>1, <2>1
<1> QED BY <1>1, <1>2, <1>4 DEF Looping

LEMMA LoopEnds ==
  ASSUME NEW page, NEW frame, NEW turns \in Nat, Looping(page, frame, turns),
         at >= turns, mapping = NoMapping
  PROVE  LeadTo(ram, pageMap, page, frame, turns)
<1>1. Done = at /\ Done \in 0 .. turns
  BY DEF Looping, Done
<1>2. Done = turns
  BY <1>1
<1> QED BY <1>2 DEF Looping

\* From one part of kstage1 to the next.
LEMMA DataMovesOn ==
  ASSUME DataMapped, heapPages \in Nat, mapping = NoMapping, mapping' = NoMapping,
         UNCHANGED <<pageMap, heapPages>>, held'["heap"] = held["heap"],
         mem'.FirstFreePage > 0,
         \A p \in Nat : Leaf(ram', pageMap, p) = Leaf(ram, pageMap, p),
         pc \notin {"map_ram", "map_kernel"}, pc' \notin {"map_ram", "map_kernel"},
         FramebufferMapped', TargetMapped'
  PROVE  DataMapped'
<1>1. LeadTo(ram, pageMap, KernelStart, KernelPhysical, kernelTurns)
  BY DEF DataMapped, KernelMapped
<1>2. \A p \in KernelStart .. KernelStart + kernelTurns - 1 : p \in Nat
  BY AddressTypes
<1>3. LeadTo(ram', pageMap, KernelStart, KernelPhysical, kernelTurns)
  BY <1>1, <1>2, LeadsOn, AddressTypes
<1>4. KernelMapped'
  BY <1>3 DEF KernelMapped
<1>5. ~HeapMapping /\ ~HeapMapping'
  BY DEF HeapMapping
<1>6. HeapMapped'
  BY <1>5, HeapStays DEF DataMapped
<1> QED BY <1>4, <1>6 DEF DataMapped

LEMMA LoopsData ==
  ASSUME TreeInv, DataMapped, ~starved, MapRam \/ MapKernel \/ MapFramebuffer \/ MapTarget
  PROVE  DataMapped'
<1>1. PICK label, turns, page, frame, next :
         /\ Loop(label, turns, pageMap, page, frame, next)
         /\ \/ /\ label = "map_ram" /\ next = "map_kernel"
               /\ turns = mem.TotalPages /\ page = 0 /\ frame = 0
            \/ /\ label = "map_kernel" /\ next = "unmap_null"
               /\ turns = kernelTurns /\ page = KernelStart /\ frame = KernelPhysical
            \/ /\ label = "map_framebuffer" /\ next = "request_target"
               /\ turns = fbSize /\ page = Framebuffer /\ frame = Framebuffer
            \/ /\ label = "map_target" /\ next = "running"
               /\ turns = fbSize /\ page = virtualTargetBaseAddress /\ frame = target
  <2>1. pc \in {"map_framebuffer", "map_target"} => active = pageMap
    BY DEF TreeInv, Places, Switched
  <2>2. CASE MapRam
    BY <2>2 DEF MapRam
  <2>3. CASE MapKernel
    BY <2>3 DEF MapKernel, KernelStart, kernelTurns, kernelPageCount
  <2>4. CASE MapFramebuffer
    <3>1. active = pageMap
      BY <2>1, <2>4 DEF MapFramebuffer, Loop, At
    <3> QED BY <2>4, <3>1 DEF MapFramebuffer
  <2>5. CASE MapTarget
    <3>1. active = pageMap
      BY <2>1, <2>5 DEF MapTarget, Loop, At
    <3> QED BY <2>5, <3>1 DEF MapTarget
  <2> QED BY <2>2, <2>3, <2>4, <2>5
<1>2. /\ pc = label /\ mapping = NoMapping
      /\ UNCHANGED <<mem, held, ram, pageMap, heapPages, target>>
      /\ \/ /\ at < turns /\ mapping' = Mapping(pageMap, page + at, frame + at)
            /\ at' = at + 1 /\ pc' = label
         \/ /\ at >= turns /\ mapping' = NoMapping /\ pc' = next /\ at' = 0
  BY <1>1 DEF Loop, At, MapNext, Go, vars, paging
<1>3. /\ pageMap # nullptr /\ heapPages \in Nat
  BY <1>1, <1>2 DEF TreeInv, PageMapBuilt, Places
<1>4. mem.FirstFreePage > 0
  BY DEF DataMapped
<1>5. ~HeapMapping /\ ~HeapMapping'
  <2>1. label \notin {"lock_framebuffer", "running"}
    BY <1>1
  <2> QED BY <1>2, <2>1 DEF HeapMapping
<1>6. HeapMapped'
  BY <1>2, <1>3, <1>5, HeapStays DEF DataMapped
<1>7. mapping' # NoMapping => pc' \in Mappers
  BY <1>1, <1>2 DEF Mappers
<1>8. CASE label = "map_ram"
  <2>1. pc' \in {"map_ram", "map_kernel"}
    BY <1>1, <1>2, <1>8
  <2>2. KernelMapped'
    <3> SUFFICES ASSUME pc' = "map_kernel"
                 PROVE  Looping(KernelStart, KernelPhysical, kernelTurns)'
      BY <2>1 DEF KernelMapped
    <3>1. at' = 0 /\ mapping' = NoMapping
      BY <1>2, <1>8
    <3> QED BY <3>1, LoopBegins, AddressTypes DEF Looping
  <2> QED BY <1>2, <1>4, <1>6, <1>7, <2>1, <2>2 DEF DataMapped, FramebufferMapped, TargetMapped
<1>9. CASE label = "map_kernel"
  <2>1. /\ next = "unmap_null" /\ turns = kernelTurns /\ page = KernelStart
        /\ frame = KernelPhysical
        /\ Looping(KernelStart, KernelPhysical, kernelTurns)
    BY <1>1, <1>2, <1>9 DEF DataMapped, KernelMapped
  <2>2. KernelMapped'
    <3>1. CASE pc' = "map_kernel"
      <4>1. Looping(KernelStart, KernelPhysical, kernelTurns)'
        <5>1. /\ at < kernelTurns /\ at' = at + 1
              /\ mapping' = Mapping(pageMap, KernelStart + at, KernelPhysical + at)
          BY <1>2, <2>1, <3>1
        <5> QED BY <1>2, <1>3, <2>1, <5>1, LoopTurns, AddressTypes DEF Looping
      <4> QED BY <3>1, <4>1 DEF KernelMapped
    <3>2. CASE pc' = "unmap_null"
      <4>1. LeadTo(ram, pageMap, KernelStart, KernelPhysical, kernelTurns)
        BY <1>2, <1>9, <2>1, <3>2, LoopEnds, AddressTypes
      <4> QED BY <1>2, <3>2, <4>1 DEF KernelMapped
    <3> QED BY <1>2, <1>9, <2>1, <3>1, <3>2
  <2>3. pc' \in {"map_kernel", "unmap_null"}
    BY <1>2, <1>9, <2>1
  <2> QED BY <1>2, <1>4, <1>6, <1>7, <2>2, <2>3 DEF DataMapped, FramebufferMapped, TargetMapped
<1>10. CASE label \in {"map_framebuffer", "map_target"}
  <2>1. /\ pc \notin {"map_ram", "map_kernel"} /\ pc' \notin {"map_ram", "map_kernel"}
        /\ turns = fbSize
    BY <1>1, <1>2, <1>10
  <2>2. KernelMapped'
    BY <1>2, <2>1 DEF DataMapped, KernelMapped
  <2>3. FramebufferMapped'
    <3> SUFFICES ASSUME pc' = "map_framebuffer"
                 PROVE  Looping(Framebuffer, Framebuffer, fbSize)'
      BY DEF FramebufferMapped
    <3>1. label = "map_framebuffer" /\ page = Framebuffer /\ frame = Framebuffer
      BY <1>1, <1>2, <1>10
    <3>2. Looping(Framebuffer, Framebuffer, fbSize)
      BY <1>2, <3>1 DEF DataMapped, FramebufferMapped
    <3>3. /\ at < fbSize /\ at' = at + 1
          /\ mapping' = Mapping(pageMap, Framebuffer + at, Framebuffer + at)
      BY <1>1, <1>2, <2>1, <3>1
    <3> QED BY <1>2, <1>3, <3>2, <3>3, LoopTurns, AddressTypes DEF Looping
  <2>4. TargetMapped'
    <3>1. CASE label = "map_framebuffer"
      <4>1. pc' \notin {"map_target", "running"}
        BY <1>1, <1>2, <3>1
      <4> QED BY <4>1 DEF TargetMapped
    <3>2. CASE label = "map_target"
      <4>1. /\ page = virtualTargetBaseAddress /\ frame = target /\ next = "running"
            /\ Looping(virtualTargetBaseAddress, target, fbSize)
            /\ target # nullptr =>
                  target \in Nat /\ Frames(target, fbPages) \subseteq held["renderer"]
        BY <1>1, <1>2, <3>2 DEF DataMapped, TargetMapped
      <4>2. CASE pc' = "map_target"
        <5>1. /\ at < fbSize /\ at' = at + 1
              /\ mapping' = Mapping(pageMap, virtualTargetBaseAddress + at, target + at)
          BY <1>1, <1>2, <2>1, <3>2, <4>1, <4>2
        <5>2. Looping(virtualTargetBaseAddress, target, fbSize)'
          BY <1>2, <1>3, <4>1, <5>1, LoopTurns, AddressTypes DEF Looping
        <5> QED BY <1>2, <4>1, <4>2, <5>2 DEF TargetMapped
      <4>3. CASE pc' = "running"
        <5>1. at >= fbSize
          BY <1>2, <2>1, <3>2, <4>3
        <5>2. LeadTo(ram, pageMap, virtualTargetBaseAddress, target, fbSize)
          BY <1>2, <4>1, <5>1, LoopEnds, AddressTypes
        <5> QED BY <1>2, <4>1, <4>3, <5>2 DEF TargetMapped
      <4> QED BY <1>2, <3>2, <4>1, <4>2, <4>3
    <3> QED BY <1>10, <3>1, <3>2
  <2> QED BY <1>2, <1>4, <1>6, <1>7, <2>2, <2>3, <2>4 DEF DataMapped
<1> QED BY <1>1, <1>8, <1>9, <1>10

-----------------------------------------------------------------------------
(* map(), where its page is one of the loops' or the heap's next.          *)

LEMMA MappedPageIs ==
  ASSUME DataMapped, heapPages \in 0 .. MaxHeapPages, mapping # NoMapping
  PROVE  /\ pc \in Mappers
         /\ pc = "map_kernel" => mapping.page \in KernelPages
         /\ pc = "map_framebuffer" => mapping.page \in ScreenPages
         /\ pc = "map_target" => mapping.page \in TargetPages
         /\ pc \in {"lock_framebuffer", "running"} =>
               /\ heapPages > 0
               /\ mapping.page = HEAP_VIRTUAL_BASE + heapPages - 1
               /\ mapping.page \in HeapPages
<1>1. \A page \in Nat, turns \in Nat : \A frame :
         Looping(page, frame, turns) => mapping.page \in page .. page + turns - 1
  BY DEF Looping
<1>2. pc = "map_kernel" => mapping.page \in KernelPages
  BY <1>1, AddressTypes DEF DataMapped, KernelMapped, KernelPages
<1>3. pc = "map_framebuffer" => mapping.page \in ScreenPages
  BY <1>1, AddressTypes DEF DataMapped, FramebufferMapped, ScreenPages
<1>4. pc = "map_target" => mapping.page \in TargetPages
  BY <1>1, AddressTypes DEF DataMapped, TargetMapped, TargetPages
<1>5. pc \in {"lock_framebuffer", "running"} =>
         /\ heapPages > 0
         /\ mapping.page = HEAP_VIRTUAL_BASE + heapPages - 1
         /\ mapping.page \in HeapPages
  <2> SUFFICES ASSUME pc \in {"lock_framebuffer", "running"}
               PROVE  /\ heapPages > 0
                      /\ mapping.page = HEAP_VIRTUAL_BASE + heapPages - 1
                      /\ mapping.page \in HeapPages
    OBVIOUS
  <2>1. heapPages > 0 /\ mapping.page = HEAP_VIRTUAL_BASE + heapPages - 1
    BY DEF DataMapped, HeapMapped, HeapMapping
  <2> QED BY <2>1, AddressTypes DEF HeapPages
<1> QED BY <1>2, <1>3, <1>4, <1>5 DEF DataMapped

LEMMA LoopPageMapped ==
  ASSUME NEW page \in Nat, NEW frame, NEW turns \in Nat, Looping(page, frame, turns),
         mapping # NoMapping, mapping' = NoMapping, UNCHANGED <<pageMap, at>>, at \in Nat,
         page .. page + turns - 1 \subseteq Pages,
         Maps(ram', pageMap, mapping.page, mapping.frame),
         \A p \in Pages \ {mapping.page} : Leaf(ram', pageMap, p) = Leaf(ram, pageMap, p)
  PROVE  /\ Done' \in 0 .. turns
         /\ LeadTo(ram', pageMap', page, frame, Done')
<1>1. /\ Done = at - 1 /\ Done' = at
      /\ Done \in 0 .. turns /\ Done < turns
      /\ mapping.page = page + Done
      /\ mapping.frame = frame + Done
      /\ LeadTo(ram, pageMap, page, frame, Done)
  BY DEF Done, Looping
<1>2. \A p \in page .. page + Done - 1 : p \in Pages \ {mapping.page}
  BY <1>1
<1> DEFINE n == Done
<1>3. n \in Nat /\ Done' = n + 1 /\ n + 1 \in 0 .. turns
  BY <1>1
<1>4. LeadTo(ram', pageMap, page, frame, n)
  BY <1>1, <1>2, <1>3, LeadsOn
<1>5. Maps(ram', pageMap, page + n, frame + n)
  BY <1>1
<1> HIDE DEF n
<1>6. LeadTo(ram', pageMap, page, frame, n + 1)
  BY <1>3, <1>4, <1>5, OneMore
<1> QED BY <1>3, <1>6

LEMMA HeapPageMapped ==
  ASSUME HeapMapped, heapPages \in 0 .. MaxHeapPages, UNCHANGED <<pc, pageMap, heapPages>>,
         mapping # NoMapping, mapping' = NoMapping, held'["heap"] = held["heap"],
         ~HeapMapping => heapPages = 0 \/ mapping.page \notin HeapPages,
         Maps(ram', pageMap, mapping.page, mapping.frame),
         \A p \in Pages \ {mapping.page} : Leaf(ram', pageMap, p) = Leaf(ram, pageMap, p)
  PROVE  HeapMapped'
<1>1. ~HeapMapping'
  BY DEF HeapMapping
<1>2. ASSUME NEW k \in 0 .. heapPages - 1
      PROVE  /\ HeapFrameAt(k)' = HeapFrameAt(k)
             /\ Leaf(ram', pageMap, HEAP_VIRTUAL_BASE + k).present
  <2>1. HEAP_VIRTUAL_BASE + k \in HeapPages /\ HEAP_VIRTUAL_BASE + k \in Pages
    <3>1. HEAP_VIRTUAL_BASE + k \in HeapPages
      BY AddressTypes DEF HeapPages
    <3> QED BY <3>1, RangesApart
  <2>2. HeapFrameAt(k)' = Leaf(ram', pageMap, HEAP_VIRTUAL_BASE + k).frame
    BY <1>1 DEF HeapFrameAt
  <2>3. CASE HeapMapping /\ k = heapPages - 1
    <3>1. mapping.page = HEAP_VIRTUAL_BASE + k
      BY <2>3, AddressTypes DEF HeapMapped
    <3>2. Leaf(ram', pageMap, HEAP_VIRTUAL_BASE + k) = To(mapping.frame)
      BY <3>1 DEF Maps
    <3>3. HeapFrameAt(k) = mapping.frame
      BY <2>3 DEF HeapFrameAt
    <3> QED BY <2>2, <3>2, <3>3 DEF To
  <2>4. CASE ~(HeapMapping /\ k = heapPages - 1)
    <3>1. HEAP_VIRTUAL_BASE + k # mapping.page
      <4>1. CASE HeapMapping
        <5>1. mapping.page = HEAP_VIRTUAL_BASE + heapPages - 1 /\ k # heapPages - 1
          BY <2>4, <4>1 DEF HeapMapped
        <5> QED BY <5>1, AddressTypes
      <4>2. CASE ~HeapMapping
        BY <2>1, <4>2
      <4> QED BY <4>1, <4>2
    <3>2. Leaf(ram', pageMap, HEAP_VIRTUAL_BASE + k)
             = Leaf(ram, pageMap, HEAP_VIRTUAL_BASE + k)
      BY <2>1, <3>1
    <3>3. HeapFrameAt(k) = Leaf(ram, pageMap, HEAP_VIRTUAL_BASE + k).frame
      BY <2>4 DEF HeapFrameAt
    <3>4. Leaf(ram, pageMap, HEAP_VIRTUAL_BASE + k).present
      BY <2>4 DEF HeapMapped
    <3> QED BY <2>2, <3>2, <3>3, <3>4
  <2> QED BY <2>3, <2>4
<1>3. {HeapFrameAt(k) : k \in 0 .. heapPages - 1}'
         = {HeapFrameAt(k) : k \in 0 .. heapPages - 1}
  BY <1>2
<1>4. (\A k \in 0 .. heapPages - 1 :
          \/ HeapMapping /\ k = heapPages - 1
          \/ Leaf(ram, pageMap, HEAP_VIRTUAL_BASE + k).present)'
  BY <1>2
<1> QED BY <1>1, <1>3, <1>4 DEF HeapMapped

LEMMA MapPageData ==
  ASSUME TreeInv, DataMapped, pc \notin {"init_physical", "lost"}, MapPage, ~starved
  PROVE  DataMapped'
<1>1. /\ mapping # NoMapping /\ mapping' = NoMapping
      /\ UNCHANGED <<mem, held, pageMap, pc, at, heapPages, target>>
  BY LevelOfNoMapping DEF MapPage, vars
<1>2. /\ Maps(ram', pageMap, mapping.page, mapping.frame)
      /\ \A p \in Pages \ {mapping.page} : Leaf(ram', pageMap, p) = Leaf(ram, pageMap, p)
  BY MapPageEffect
<1>3. at \in Nat /\ heapPages \in 0 .. MaxHeapPages
  BY DEF TreeInv, Places
<1>4. /\ pc \in Mappers
      /\ pc = "map_kernel" => mapping.page \in KernelPages
      /\ pc = "map_framebuffer" => mapping.page \in ScreenPages
      /\ pc = "map_target" => mapping.page \in TargetPages
      /\ pc \in {"lock_framebuffer", "running"} => mapping.page \in HeapPages
  BY <1>1, <1>3, MappedPageIs
<1>5. KernelMapped'
  <2>1. CASE pc = "map_kernel"
    <3>1. Looping(KernelStart, KernelPhysical, kernelTurns)
      BY <2>1 DEF DataMapped, KernelMapped
    <3>2. KernelStart .. KernelStart + kernelTurns - 1 \subseteq Pages
      BY RangesApart DEF KernelPages
    <3>3. Looping(KernelStart, KernelPhysical, kernelTurns)'
      BY <1>1, <1>2, <1>3, <3>1, <3>2, LoopPageMapped, AddressTypes DEF Looping
    <3> QED BY <1>1, <2>1, <3>3 DEF KernelMapped
  <2>2. CASE pc \notin {"map_ram", "map_kernel"}
    <3>1. LeadTo(ram, pageMap, KernelStart, KernelPhysical, kernelTurns)
      BY <2>2 DEF DataMapped, KernelMapped
    <3>2. mapping.page \notin KernelPages
      BY <1>4, <2>2, RangesApart DEF Mappers
    <3>3. \A p \in KernelStart .. KernelStart + kernelTurns - 1 :
             Leaf(ram', pageMap, p) = Leaf(ram, pageMap, p)
      BY <1>2, <3>2, RangesApart DEF KernelPages
    <3>4. LeadTo(ram', pageMap, KernelStart, KernelPhysical, kernelTurns)
      BY <3>1, <3>3, LeadsOn, AddressTypes
    <3> QED BY <1>1, <2>2, <3>4 DEF KernelMapped
  <2>3. CASE pc = "map_ram"
    BY <1>1, <2>3 DEF KernelMapped
  <2> QED BY <2>1, <2>2, <2>3
<1>6. FramebufferMapped'
  <2> SUFFICES ASSUME pc = "map_framebuffer"
               PROVE  Looping(Framebuffer, Framebuffer, fbSize)'
    BY <1>1 DEF FramebufferMapped
  <2>1. Looping(Framebuffer, Framebuffer, fbSize)
    BY DEF DataMapped, FramebufferMapped
  <2>2. Framebuffer .. Framebuffer + fbSize - 1 \subseteq Pages
    BY RangesApart DEF ScreenPages
  <2> QED BY <1>1, <1>2, <1>3, <2>1, <2>2, LoopPageMapped, AddressTypes DEF Looping
<1>7. TargetMapped'
  <2>1. CASE pc = "map_target"
    <3>1. /\ Looping(virtualTargetBaseAddress, target, fbSize)
          /\ target # nullptr =>
                target \in Nat /\ Frames(target, fbPages) \subseteq held["renderer"]
      BY <2>1 DEF DataMapped, TargetMapped
    <3>2. virtualTargetBaseAddress .. virtualTargetBaseAddress + fbSize - 1 \subseteq Pages
      BY RangesApart DEF TargetPages
    <3>3. Looping(virtualTargetBaseAddress, target, fbSize)'
      BY <1>1, <1>2, <1>3, <3>1, <3>2, LoopPageMapped, AddressTypes DEF Looping
    <3> QED BY <1>1, <2>1, <3>1, <3>3 DEF TargetMapped
  <2>2. CASE pc = "running" /\ target # nullptr
    <3>1. /\ LeadTo(ram, pageMap, virtualTargetBaseAddress, target, fbSize)
          /\ target \in Nat /\ Frames(target, fbPages) \subseteq held["renderer"]
      BY <2>2 DEF DataMapped, TargetMapped
    <3>2. mapping.page \notin TargetPages
      BY <1>4, <2>2, RangesApart
    <3>3. \A p \in virtualTargetBaseAddress .. virtualTargetBaseAddress + fbSize - 1 :
             Leaf(ram', pageMap, p) = Leaf(ram, pageMap, p)
      BY <1>2, <3>2, RangesApart DEF TargetPages
    <3>4. LeadTo(ram', pageMap, virtualTargetBaseAddress, target, fbSize)
      BY <3>1, <3>3, LeadsOn, AddressTypes
    <3> QED BY <1>1, <2>2, <3>1, <3>4 DEF TargetMapped
  <2>3. CASE pc # "map_target" /\ ~(pc = "running" /\ target # nullptr)
    BY <1>1, <2>3 DEF TargetMapped
  <2> QED BY <2>1, <2>2, <2>3
<1>8. HeapMapped'
  <2>1. pc = "map_ram" => heapPages = 0
    BY DEF TreeInv, Places, Switched
  <2>2. ~HeapMapping => heapPages = 0 \/ mapping.page \notin HeapPages
    BY <1>1, <1>4, <2>1, RangesApart DEF HeapMapping, Mappers
  <2> QED BY <1>1, <1>2, <1>3, <2>2, HeapPageMapped DEF DataMapped
<1> QED BY <1>1, <1>5, <1>6, <1>7, <1>8 DEF DataMapped

LEMMA GrantElsewhere ==
  ASSUME NEW o, NEW q, o # q, NEW a, NEW n, Grant(o, a, n)
  PROVE  held'[q] = held[q]
BY DEF Grant

\* map() asks for tables only.
LEMMA MapData ==
  ASSUME TreeInv, DataMapped, map, pc \notin {"init_physical", "lost", "init_virtual"},
         ~starved', ~panicked'
  PROVE  DataMapped'
<1>1. /\ mapping # NoMapping
      /\ UNCHANGED <<active, pageMap, pc, at, heapPages, target>>
  BY LevelOfNoMapping DEF map, MapThroughTable, MapNewTable, MapPage, paging
<1>2. KInv /\ phase = "ready" /\ heapPages \in Nat
  BY <1>1, WhileReady
<1>3. ~starved
  BY DEF map, MapThroughTable, MapNewTable, MapPage, paging
<1>4. /\ OnTheWay /\ PageMapBuilt /\ pageMap # nullptr
  BY <1>1, <1>3, WhileOnTheWay DEF PageMapBuilt
<1>5. CASE MapThroughTable
  <2>1. /\ mapping.level > 1 /\ Below.present /\ Enter(Below.frame)
        /\ UNCHANGED <<ram, mem, held>>
    BY <1>5 DEF MapThroughTable, paging, vars
  <2>2. mapping' # NoMapping
    BY <1>1, <1>4, <2>1, BelowOnTheWay, DownTheWay DEF Leads
  <2>3. mapping'.page = mapping.page /\ mapping'.frame = mapping.frame
    BY <1>4, <2>1 DEF Enter, OnTheWay
  <2>4. mem'.FirstFreePage > 0
    BY <2>1 DEF DataMapped
  <2> QED BY <1>1, <1>2, <2>1, <2>2, <2>3, <2>4, DataKept
<1>6. CASE MapNewTable
  <2>1. /\ \A page \in Nat : Leaf(ram', pageMap, page) = Leaf(ram, pageMap, page)
        /\ mapping' # NoMapping
    BY <1>6, NewTableEffect
  <2>2. /\ Grant("tables", request_page(mem), 1)
        /\ Enter(request_page(mem).frame)
    BY <1>2, <1>6 DEF MapNewTable, TakeTable
  <2>3. mapping'.page = mapping.page /\ mapping'.frame = mapping.frame
    BY <1>4, <2>2 DEF Enter, OnTheWay
  <2>4. /\ mem'.FirstFreePage > 0
        /\ held'["heap"] = held["heap"] /\ held'["renderer"] = held["renderer"]
    BY <1>2, <2>2, PageGranted, GrantElsewhere
  <2> QED BY <1>1, <1>2, <2>1, <2>3, <2>4, DataKept
<1>7. CASE MapPage
  BY <1>3, <1>7, MapPageData
<1> QED BY <1>5, <1>6, <1>7 DEF map

-----------------------------------------------------------------------------
(* init_heap, expand_heap and the renderer.                                *)

LEMMA HeapPageData ==
  ASSUME TreeInv, DataMapped, HeapPage, mapping = NoMapping, ~starved, ~panicked',
         \/ pc = "init_heap" /\ pc' = "lock_framebuffer"
         \/ pc = "running" /\ pc' = "running"
  PROVE  DataMapped'
<1> DEFINE f == request_page(mem).frame
<1>1. /\ Grant("heap", request_page(mem), 1)
      /\ mapping' = Mapping(active, HEAP_VIRTUAL_BASE + heapPages, f)
      /\ heapPages' = heapPages + 1
      /\ UNCHANGED <<ram, pageMap, target>>
  BY DEF HeapPage
<1>2. /\ KInv /\ phase = "ready" /\ heapPages \in Nat
      /\ active = pageMap /\ pageMap # nullptr
  BY WhileReady DEF TreeInv, Places, Switched, PageMapBuilt
<1>3. mem.FirstFreePage \in Nat /\ mem.FirstFreePage > 0
  BY <1>2 DEF DataMapped, KInv, IInv, TypeOK, PageFramesType
<1>4. /\ f \in Nat /\ f >= mem.FirstFreePage
      /\ mem'.FirstFreePage = f + 1
      /\ f # nullptr =>
            /\ f \notin held["heap"]
            /\ held' = [held EXCEPT !["heap"] = @ \cup {f}]
  BY <1>1, <1>2, PageGranted
<1> HIDE DEF f
<1>5. f # nullptr /\ mem'.FirstFreePage > 0
  BY <1>3, <1>4 DEF nullptr
<1>6. /\ f \notin held["heap"]
      /\ held'["heap"] = held["heap"] \cup {f}
      /\ held'["renderer"] = held["renderer"]
  <2>1. held \in [Owner -> SUBSET Nat] /\ "heap" \in Owner /\ "renderer" \in Owner
    BY <1>2, KernelMemoryAssumption DEF KInv, IInv, TypeOK
  <2>2. f \notin held["heap"] /\ held' = [held EXCEPT !["heap"] = @ \cup {f}]
    BY <1>4, <1>5
  <2> QED BY <2>1, <2>2
<1>7. /\ mapping' = [root |-> pageMap, page |-> HEAP_VIRTUAL_BASE + heapPages, frame |-> f,
                     level |-> 4, table |-> pageMap]
      /\ mapping'.page = HEAP_VIRTUAL_BASE + heapPages /\ mapping'.frame = f
  BY <1>1, <1>2 DEF Mapping
<1>8. mapping' # NoMapping /\ HeapMapping' /\ ~HeapMapping
  BY <1>7 DEF NoMapping, HeapMapping
<1>9. HeapMapped'
  <2>1. HeapMapped
    BY DEF DataMapped
  <2>2. PICK n \in Nat : n = heapPages
    BY <1>2
  <2>3. heapPages' = n + 1 /\ heapPages = n
    BY <1>1, <2>2
  <2>4. mapping'.page = HEAP_VIRTUAL_BASE + n
    BY <1>7, <2>3
  <2>5. HeapMapping' =>
           heapPages' > 0 /\ mapping'.page = HEAP_VIRTUAL_BASE + heapPages' - 1
    BY <2>3, <2>4, AddressTypes
  <2>6. \A k : k \in 0 .. heapPages' - 1 <=> (k = n \/ k \in 0 .. n - 1)
    BY <2>3
  <2>7. \A k \in 0 .. n - 1 : k # n
    OBVIOUS
  <2>8. \A k \in 0 .. n - 1 :
           /\ Leaf(ram, pageMap, HEAP_VIRTUAL_BASE + k).present
           /\ HeapFrameAt(k) = Leaf(ram, pageMap, HEAP_VIRTUAL_BASE + k).frame
    BY <1>8, <2>1, <2>3 DEF HeapMapped, HeapFrameAt
  <2>9. heapPages' - 1 = n
    BY <2>3
  <2>10. \A k \in 0 .. n - 1 : HeapFrameAt(k)' = HeapFrameAt(k)
    BY <1>1, <2>7, <2>8, <2>9 DEF HeapFrameAt
  <2>11. HeapFrameAt(n)' = f
    BY <1>7, <1>8, <2>9 DEF HeapFrameAt
  <2>12. (\A k \in 0 .. heapPages - 1 :
            \/ HeapMapping /\ k = heapPages - 1
            \/ Leaf(ram, pageMap, HEAP_VIRTUAL_BASE + k).present)'
    BY <1>1, <1>8, <2>6, <2>8, <2>9
  <2>13. held["heap"] = {HeapFrameAt(k) : k \in 0 .. n - 1}
    BY <2>1, <2>3 DEF HeapMapped
  <2>14. \A g : g \in held'["heap"] <=> \E k \in 0 .. heapPages' - 1 : g = HeapFrameAt(k)'
    <3> SUFFICES ASSUME NEW g
                 PROVE  g \in held'["heap"]
                           <=> \E k \in 0 .. heapPages' - 1 : g = HeapFrameAt(k)'
      OBVIOUS
    <3>1. g \in held["heap"] <=> \E k \in 0 .. n - 1 : g = HeapFrameAt(k)'
      BY <2>10, <2>13
    <3>2. g \in held'["heap"] <=> (g = f \/ g \in held["heap"])
      BY <1>6
    <3>3. (\E k \in 0 .. heapPages' - 1 : g = HeapFrameAt(k)')
             <=> (g = HeapFrameAt(n)' \/ \E k \in 0 .. n - 1 : g = HeapFrameAt(k)')
      BY <2>6
    <3> QED BY <2>11, <3>1, <3>2, <3>3
  <2>15. held'["heap"] = {HeapFrameAt(k) : k \in 0 .. heapPages - 1}'
    BY <2>14
  <2>16. IsFiniteSet(held'["heap"]) /\ Cardinality(held'["heap"]) = heapPages'
    <3>1. IsFiniteSet(held["heap"]) /\ Cardinality(held["heap"]) = n
      BY <2>1, <2>3 DEF HeapMapped
    <3>2. /\ IsFiniteSet(held["heap"] \cup {f})
          /\ Cardinality(held["heap"] \cup {f}) = Cardinality(held["heap"]) + 1
      BY <1>6, <3>1, FS_AddElement
    <3> QED BY <1>6, <2>3, <3>1, <3>2
  <2> QED BY <2>5, <2>12, <2>15, <2>16 DEF HeapMapped
<1>10. KernelMapped' /\ FramebufferMapped' /\ TargetMapped'
  <2>1. KernelMapped'
    BY <1>1 DEF DataMapped, KernelMapped
  <2>2. FramebufferMapped'
    BY DEF FramebufferMapped
  <2>3. TargetMapped'
    BY <1>1, <1>6 DEF DataMapped, TargetMapped
  <2> QED BY <2>1, <2>2, <2>3
<1>11. pc' \in Mappers
  BY DEF Mappers
<1> QED BY <1>5, <1>9, <1>10, <1>11 DEF DataMapped

LEMMA LockFramebufferData ==
  ASSUME TreeInv, DataMapped, LockFramebuffer
  PROVE  DataMapped'
<1>1. /\ pc = "lock_framebuffer" /\ pc' = "map_framebuffer" /\ at' = 0
      /\ mapping = NoMapping /\ mapping' = NoMapping
      /\ mem' = lock_pages(mem, FramebufferFrames)
      /\ UNCHANGED <<held, ram, pageMap, heapPages, target>>
  BY DEF LockFramebuffer, LockDevice, At, Go, paging
<1>2. KInv /\ heapPages \in Nat
  BY <1>1, WhileReady
<1>3. mem'.FirstFreePage = mem.FirstFreePage /\ mem.FirstFreePage > 0
  <2>1. mem \in [PageMap : [Size : Nat, Buffer : Nat, bits : SUBSET Nat],
                 TotalPages : Nat, TotalFreePages : Counter,
                 TotalUsedPages : Counter, MaxFreePagesInARow : Nat,
                 FirstFreePage : Nat]
    BY <1>2 DEF KInv, IInv, TypeOK, PageFramesType
  <2> QED BY <1>1, <2>1 DEF lock_pages, DataMapped
<1>4. FramebufferMapped'
  <2>1. Looping(Framebuffer, Framebuffer, fbSize)'
    BY <1>1, LoopBegins, AddressTypes DEF Looping
  <2> QED BY <2>1 DEF FramebufferMapped
<1>5. TargetMapped'
  BY <1>1 DEF TargetMapped
<1> QED BY <1>1, <1>2, <1>3, <1>4, <1>5, DataMovesOn

LEMMA RequestTargetData ==
  ASSUME TreeInv, DataMapped, RequestTarget, ~panicked'
  PROVE  DataMapped'
<1> DEFINE a == request_pages(mem, fbPages)
<1>1. /\ pc = "request_target" /\ at' = 0
      /\ mapping = NoMapping /\ mapping' = NoMapping
      /\ Grant("renderer", a, fbPages)
      /\ target' = a.frame
      /\ pc' = IF a.frame = nullptr THEN "running" ELSE "map_target"
      /\ UNCHANGED <<ram, pageMap, heapPages>>
  BY DEF RequestTarget, At, Go
<1>2. KInv /\ heapPages \in Nat /\ phase = "ready"
  BY <1>1, WhileReady
<1>3. RequestType(mem, a)
  BY <1>2, RequestsTyped
<1>4. /\ held \in [Owner -> SUBSET Nat] /\ "renderer" \in Owner
      /\ mem.FirstFreePage \in Nat
  BY <1>2, KernelMemoryAssumption DEF KInv, IInv, TypeOK, PageFramesType
<1> HIDE DEF a
<1>5. /\ mem' = a.mem /\ ~a.panics
      /\ held' = IF a.panics \/ a.frame = nullptr
                 THEN held ELSE [held EXCEPT !["renderer"] = @ \cup Frames(a.frame, fbPages)]
  BY <1>1 DEF Grant
<1>6. mem'.FirstFreePage > 0
  <2>1. mem'.FirstFreePage >= mem.FirstFreePage /\ mem'.FirstFreePage \in Nat
    BY <1>3, <1>5 DEF RequestType, PageFramesType
  <2> QED BY <1>4, <2>1 DEF DataMapped
<1>7. held'["heap"] = held["heap"]
  BY <1>1, GrantElsewhere
<1>8. TargetMapped'
  <2>1. CASE target' = nullptr
    BY <1>1, <2>1 DEF TargetMapped
  <2>2. CASE target' # nullptr
    <3>1. pc' = "map_target" /\ target' \in Nat
      BY <1>1, <1>3, <2>2 DEF RequestType
    <3>2. Frames(target', fbPages) \subseteq held'["renderer"]
      BY <1>1, <1>4, <1>5, <2>2
    <3>3. Looping(virtualTargetBaseAddress, target, fbSize)'
      BY <1>1, LoopBegins, AddressTypes DEF Looping
    <3> QED BY <3>1, <3>2, <3>3 DEF TargetMapped
  <2> QED BY <2>1, <2>2
<1>9. pc' \in {"running", "map_target"}
  BY <1>1
<1>10. FramebufferMapped'
  BY <1>9 DEF FramebufferMapped
<1> QED BY <1>1, <1>2, <1>6, <1>7, <1>8, <1>9, <1>10, DataMovesOn

-----------------------------------------------------------------------------
(* init_virtual and clone_active_page_map().                               *)

LEMMA GrantPanics ==
  ASSUME NEW o, NEW a, NEW n, Grant(o, a, n)
  PROVE  ~panicked' => ~panicked
<1>1. panicked' = (panicked \/ a.panics)
  BY DEF Grant
<1> QED BY <1>1, Zenon

LEMMA TakeTablePanics ==
  ASSUME NEW a, TakeTable(a)
  PROVE  ~panicked' => ~panicked
<1>1. CASE phase = "map"
  <2>1. panicked' = (panicked \/ a.panics)
    BY <1>1 DEF TakeTable
  <2> QED BY <2>1, Zenon
<1>2. CASE phase # "map"
  <2>1. Grant("tables", a, 1)
    BY <1>2 DEF TakeTable
  <2> QED BY <2>1, GrantPanics
<1> QED BY <1>1, <1>2

\* Only map() counts a table that was asked for in vain after init_virtual, and
\* only a request panics.
LEMMA HistoryGrows ==
  ASSUME KNext, ~NewPageMap
  PROVE  /\ ~starved' => ~starved
         /\ ~panicked' => ~panicked
<1>1. CASE Scan \/ MapLowMemory \/ SwitchBitmap \/ LoseMachine
  BY <1>1 DEF Scan, ScanDescriptor, HaltWithoutSegment, UseInitialBitmap,
              MapLowMemory, MapNext, SwitchBitmap, LoseMachine, paging, vars
<1>2. CASE MapRam \/ MapKernel \/ MapFramebuffer \/ MapTarget
  BY <1>2 DEF MapRam, MapKernel, MapFramebuffer, MapTarget, Loop, MapNext, paging, vars
<1>3. CASE UnmapNull \/ flush_page_map
  BY <1>3 DEF UnmapNull, flush_page_map, vars
<1>4. CASE HeapPage \/ RequestTarget
  <2>1. starved' = starved /\ \E o, a, n : Grant(o, a, n)
    BY <1>4 DEF HeapPage, RequestTarget
  <2> QED BY <2>1, GrantPanics
<1>5. CASE LockFramebuffer
  BY <1>5 DEF LockFramebuffer, LockDevice, paging
<1>6. CASE MapThroughTable \/ MapPage
  BY <1>6 DEF MapThroughTable, MapPage, paging, vars
<1>7. CASE MapNewTable
  <2>1. TakeTable(request_page(mem))
    BY <1>7 DEF MapNewTable
  <2>2. ~starved' => ~starved
    BY <1>7, Zenon DEF MapNewTable
  <2> QED BY <2>1, <2>2, TakeTablePanics
<1>8. CASE clone_active_page_map \/ CloneTable
  <2>1. starved' = starved /\ \E o, a, n : Grant(o, a, n)
    BY <1>8 DEF clone_active_page_map, CloneTable, CloneUnchanged
  <2> QED BY <2>1, GrantPanics
<1>9. CASE CloneEntered \/ CloneReturns
  BY <1>9 DEF CloneEntered, CloneReturns, CloneUnchanged, vars
<1> QED BY <1>1, <1>2, <1>3, <1>4, <1>5, <1>6, <1>7, <1>8, <1>9
        DEF KNext, KStage1, Running, map, init_heap, expand_heap

\* Only init_heap and expand_heap request frames for the heap.
LEMMA HeapElsewhere ==
  ASSUME KNext
  PROVE  \/ init_heap \/ expand_heap
         \/ held'["heap"] = held["heap"] /\ heapPages' = heapPages
<1>1. CASE Scan \/ MapLowMemory \/ SwitchBitmap \/ LoseMachine
  BY <1>1, Zenon DEF Scan, ScanDescriptor, HaltWithoutSegment, UseInitialBitmap,
                     MapLowMemory, MapNext, SwitchBitmap, LoseMachine, paging, vars
<1>2. CASE MapRam \/ MapKernel \/ MapFramebuffer \/ MapTarget
  BY <1>2, Zenon DEF MapRam, MapKernel, MapFramebuffer, MapTarget, Loop, MapNext, paging, vars
<1>3. CASE UnmapNull \/ flush_page_map
  BY <1>3, Zenon DEF UnmapNull, flush_page_map, vars
<1>4. CASE NewPageMap
  BY <1>4, GrantElsewhere DEF NewPageMap
<1>5. CASE LockFramebuffer
  BY <1>5 DEF LockFramebuffer, LockDevice, paging
<1>6. CASE RequestTarget
  BY <1>6, GrantElsewhere DEF RequestTarget
<1>7. CASE map
  BY <1>7, GrantElsewhere
     DEF map, MapThroughTable, MapNewTable, MapPage, TakeTable, paging, vars
<1>8. CASE clone_active_page_map \/ CloneTable
  BY <1>8, GrantElsewhere DEF clone_active_page_map, CloneTable, CloneUnchanged
<1>9. CASE CloneEntered \/ CloneReturns
  BY <1>9 DEF CloneEntered, CloneReturns, CloneUnchanged, vars
<1> QED BY <1>1, <1>2, <1>3, <1>4, <1>5, <1>6, <1>7, <1>8, <1>9 DEF KNext, KStage1, Running

LEMMA NoHeapYet ==
  ASSUME TreeInv, heapPages = 0 => held["heap"] = {}, [KNext]_kvars
  PROVE  (heapPages = 0 => held["heap"] = {})'
<1>1. heapPages \in Nat
  BY DEF TreeInv, Places
<1>2. CASE init_heap \/ expand_heap
  <2>1. heapPages' = heapPages + 1
    BY <1>2 DEF init_heap, expand_heap, HeapPage
  <2> QED BY <1>1, <2>1
<1>3. CASE held'["heap"] = held["heap"] /\ heapPages' = heapPages
  BY <1>3
<1>4. CASE UNCHANGED kvars
  <2>1. held' = held /\ heapPages' = heapPages
    BY <1>4 DEF kvars, vars
  <2> QED BY <2>1
<1> QED BY <1>2, <1>3, <1>4, HeapElsewhere

LEMMA NewPageMapData ==
  ASSUME TreeInv, heapPages = 0 => held["heap"] = {}, NewPageMap, ~panicked'
  PROVE  DataMapped'
<1> DEFINE f == request_page(mem).frame
<1>1. /\ pc = "init_virtual" /\ pc' = "map_ram"
      /\ mapping = NoMapping /\ mapping' = NoMapping
      /\ Grant("tables", request_page(mem), 1)
      /\ heapPages' = heapPages
  BY DEF NewPageMap, At, Go
<1>2. KInv /\ phase = "ready" /\ heapPages = 0
  BY <1>1, WhileReady DEF TreeInv, Places, Switched
<1>3. f \in Nat /\ mem'.FirstFreePage = f + 1
  BY <1>1, <1>2, PageGranted
<1> HIDE DEF f
<1>4. mem'.FirstFreePage > 0
  BY <1>3
<1>5. held'["heap"] = {} /\ heapPages' = 0
  BY <1>1, <1>2, GrantElsewhere
<1>6. HeapMapped'
  <2>1. ~HeapMapping'
    BY <1>1 DEF HeapMapping
  <2>2. \A k : k \notin 0 .. heapPages' - 1
    BY <1>5
  <2>3. {HeapFrameAt(k) : k \in 0 .. heapPages - 1}' = {}
    BY <2>2
  <2> QED BY <1>5, <2>1, <2>2, <2>3, FS_EmptySet DEF HeapMapped
<1> QED BY <1>1, <1>4, <1>6 DEF DataMapped, KernelMapped, FramebufferMapped, TargetMapped

LEMMA UnmapNullData ==
  ASSUME TreeInv, DataMapped, UnmapNull, ~starved
  PROVE  DataMapped'
<1>1. /\ pc = "unmap_null" /\ pc' = "flush"
      /\ mapping = NoMapping /\ mapping' = NoMapping
      /\ UNCHANGED <<mem, held, pageMap, heapPages>>
  BY DEF UnmapNull, At, Go, vars
<1>2. heapPages \in Nat
  BY <1>1, WhileReady
<1>3. \A t \in Nodes(ram, pageMap) : Table(ram', t) = Table(ram, t)
  BY UnmapNullOutside
<1>4. \A p \in Nat : Leaf(ram', pageMap, p) = Leaf(ram, pageMap, p)
  BY <1>3, WayElsewhere
<1>5. mem'.FirstFreePage > 0 /\ held'["heap"] = held["heap"]
  BY <1>1 DEF DataMapped
<1>6. FramebufferMapped' /\ TargetMapped'
  BY <1>1 DEF FramebufferMapped, TargetMapped
<1> QED BY <1>1, <1>2, <1>4, <1>5, <1>6, DataMovesOn

LEMMA FlushData ==
  ASSUME TreeInv, DataMapped, flush_page_map
  PROVE  DataMapped'
<1>1. /\ pc = "flush" /\ pc' = "init_heap"
      /\ mapping = NoMapping /\ mapping' = NoMapping
      /\ UNCHANGED <<mem, held, ram, pageMap, heapPages>>
  BY DEF flush_page_map, At, Go, vars
<1>2. heapPages \in Nat
  BY <1>1, WhileReady
<1>3. mem'.FirstFreePage > 0 /\ held'["heap"] = held["heap"]
  BY <1>1 DEF DataMapped
<1>4. FramebufferMapped' /\ TargetMapped'
  BY <1>1 DEF FramebufferMapped, TargetMapped
<1> QED BY <1>1, <1>2, <1>3, <1>4, DataMovesOn

\* A clone writes to none of the tables that lead anywhere from the page map.
LEMMA CloneData ==
  ASSUME TreeInv, DataMapped, ~starved, ~panicked',
         clone_active_page_map \/ CloneTable \/ CloneEntered \/ CloneReturns
  PROVE  DataMapped'
<1>1. KeepsPageMap
  BY CloneBegunOutside, CloneTableOutside, CloneDoneOutside
<1>2. /\ UNCHANGED <<pc, at, pageMap, mapping, heapPages, target>>
      /\ pc = "running"
      /\ \A t \in Nodes(ram, pageMap) : Table(ram', t) = Table(ram, t)
  BY <1>1 DEF KeepsPageMap, CloneUnchanged
<1>3. KInv /\ phase = "ready" /\ heapPages \in Nat
  BY <1>2, WhileReady
<1>4. \A p \in Nat : Leaf(ram', pageMap, p) = Leaf(ram, pageMap, p)
  BY <1>2, WayElsewhere
<1>5. /\ held'["heap"] = held["heap"] /\ held'["renderer"] = held["renderer"]
      /\ mem'.FirstFreePage > 0
  <2>1. CASE clone_active_page_map \/ CloneTable
    <3>1. Grant("tables", request_page(mem), 1)
      BY <2>1 DEF clone_active_page_map, CloneTable
    <3> QED BY <1>3, <3>1, PageGranted, GrantElsewhere
  <2>2. CASE CloneEntered \/ CloneReturns
    <3>1. mem' = mem /\ held' = held
      BY <2>2 DEF CloneEntered, CloneReturns, vars
    <3> QED BY <3>1 DEF DataMapped
  <2> QED BY <2>1, <2>2
<1> QED BY <1>2, <1>3, <1>4, <1>5, DataKept

-----------------------------------------------------------------------------
(* Every step keeps what is mapped.                                        *)

LEMMA DataInit ==
  ASSUME KInit
  PROVE  DataInv
<1>1. held["heap"] = {}
  BY KernelMemoryAssumption DEF KInit, Init
<1>2. pc = "init_physical"
  BY DEF KInit
<1> QED BY <1>1, <1>2 DEF DataInv

LEMMA DataUnchanged ==
  ASSUME TreeInv, DataMapped, UNCHANGED kvars, pc \notin {"init_physical", "lost", "init_virtual"}
  PROVE  DataMapped'
<1>1. UNCHANGED <<mem, held, ram, pageMap, pc, at, mapping, heapPages, target>>
  BY DEF kvars, vars
<1>2. heapPages \in Nat
  BY WhileReady
<1>3. mem'.FirstFreePage > 0
  BY <1>1 DEF DataMapped
<1> QED BY <1>1, <1>2, <1>3, DataKept

\* The steps of the kernel once there is a page map, except map().
LEMMA DataKStage1 ==
  ASSUME TreeInv, DataMapped, KStage1, ~starved, ~panicked',
         pc \notin {"init_physical", "lost", "init_virtual"}
  PROVE  DataMapped'
<1>1. CASE Scan \/ MapLowMemory \/ SwitchBitmap \/ LoseMachine \/ NewPageMap
  <2>1. phase = "ready"
    BY WhileReady
  <2> QED BY <1>1, <2>1 DEF Scan, ScanDescriptor, HaltWithoutSegment, UseInitialBitmap,
                            MapLowMemory, SwitchBitmap, LoseMachine, NewPageMap, At
<1>2. CASE MapRam \/ MapKernel \/ MapFramebuffer \/ MapTarget
  BY <1>2, LoopsData
<1>3. CASE UnmapNull \/ flush_page_map
  BY <1>3, UnmapNullData, FlushData
<1>4. CASE init_heap
  <2>1. pc = "init_heap" /\ pc' = "lock_framebuffer" /\ mapping = NoMapping /\ HeapPage
    BY <1>4 DEF init_heap, At, Go
  <2> QED BY <2>1, HeapPageData
<1>5. CASE LockFramebuffer \/ RequestTarget
  BY <1>5, LockFramebufferData, RequestTargetData
<1> QED BY <1>1, <1>2, <1>3, <1>4, <1>5 DEF KStage1

LEMMA DataRunning ==
  ASSUME TreeInv, DataMapped, Running, ~starved, ~panicked'
  PROVE  DataMapped'
<1>1. CASE expand_heap
  <2>1. pc = "running" /\ pc' = "running" /\ mapping = NoMapping /\ HeapPage
    BY <1>1 DEF expand_heap, Idle, At
  <2> QED BY <2>1, HeapPageData
<1>2. CASE clone_active_page_map \/ CloneTable \/ CloneEntered \/ CloneReturns
  BY <1>2, CloneData
<1> QED BY <1>1, <1>2 DEF Running

\* init_virtual is left through NewPageMap only, and init_physical for it.
LEMMA StillWithoutPageMap ==
  ASSUME TreeInv, KNext, ~NewPageMap, pc \in {"init_physical", "lost", "init_virtual"}
  PROVE  pc' \in {"init_physical", "lost", "init_virtual"}
<1>1. CASE Scan \/ MapLowMemory \/ SwitchBitmap \/ LoseMachine
  BY <1>1 DEF Scan, MapLowMemory, MapNext, SwitchBitmap, LoseMachine, Go
<1>2. CASE MapRam \/ MapKernel \/ MapFramebuffer \/ MapTarget
  BY <1>2 DEF MapRam, MapKernel, MapFramebuffer, MapTarget, Loop, At
<1>3. CASE UnmapNull \/ flush_page_map \/ init_heap \/ LockFramebuffer \/ RequestTarget
  BY <1>3 DEF UnmapNull, flush_page_map, init_heap, LockFramebuffer, RequestTarget, At
<1>4. CASE map
  BY <1>4 DEF map, MapThroughTable, MapNewTable, MapPage
<1>5. CASE Running
  BY <1>5 DEF Running, expand_heap, clone_active_page_map, CloneTable, CloneEntered,
              CloneReturns, Idle, At, CloneUnchanged
<1> QED BY <1>1, <1>2, <1>3, <1>4, <1>5 DEF KNext, KStage1

LEMMA DataStep ==
  ASSUME TreeInv, DataInv, [KNext]_kvars
  PROVE  DataInv'
<1>1. (heapPages = 0 => held["heap"] = {})'
  BY NoHeapYet DEF DataInv
<1>2. ASSUME pc' \notin {"init_physical", "lost", "init_virtual"}, ~starved', ~panicked'
      PROVE  DataMapped'
  <2>1. CASE NewPageMap
    BY <1>2, <2>1, NewPageMapData DEF DataInv
  <2>2. CASE KNext /\ ~NewPageMap
    <3>1. /\ ~starved /\ ~panicked
          /\ pc \notin {"init_physical", "lost", "init_virtual"}
      BY <1>2, <2>2, HistoryGrows, StillWithoutPageMap
    <3>2. DataMapped
      BY <3>1 DEF DataInv
    <3> QED BY <1>2, <2>2, <3>1, <3>2, DataKStage1, MapData, DataRunning DEF KNext
  <2>3. CASE UNCHANGED kvars
    <3>1. /\ ~starved /\ ~panicked
          /\ pc \notin {"init_physical", "lost", "init_virtual"}
      BY <1>2, <2>3 DEF kvars, vars
    <3> QED BY <2>3, <3>1, DataUnchanged DEF DataInv
  <2> QED BY <2>1, <2>2, <2>3 DEF KNext, KStage1
<1> QED BY <1>1, <1>2 DEF DataInv

(* The kernel runs where it is linked, the deferred framebuffer leads to   *)
(* the frames the renderer was given, and the pages of the heap lead to    *)
(* the frames that init_heap and expand_heap requested: all of them, and   *)
(* no frame twice.  No later map(), expand_heap or clone_active_page_map   *)
(* redirects a page of these, for every machine.                           *)
THEOREM DataStaysBacked ==
  ASSUME Leftover = Empty
  PROVE  KSpec => []DataIsBacked
<1>1. KInit => TreeInv /\ DataInv
  BY TreeInit, DataInit
<1>2. TreeInv /\ DataInv /\ [KNext]_kvars => (TreeInv /\ DataInv)'
  BY TreeStep, DataStep
<1>3. TreeInv /\ DataInv => DataIsBacked
  <2> SUFFICES ASSUME TreeInv, DataInv, Switched, mapping = NoMapping, ~panicked, ~starved
               PROVE  LET HeapFrame(k) == Leaf(ram, active, HEAP_VIRTUAL_BASE + k) IN
                      /\ {HeapFrame(k).frame : k \in 0 .. heapPages - 1} = held["heap"]
                      /\ \A k \in 0 .. heapPages - 1 : HeapFrame(k).present
                      /\ Cardinality(held["heap"]) = heapPages
                      /\ pc = "running" /\ target # nullptr =>
                            \A k \in 0 .. fbSize - 1 :
                                /\ Maps(ram, active, virtualTargetBaseAddress + k, target + k)
                                /\ target + k \in held["renderer"]
                      /\ \A p \in KernelFrames : Maps(ram, active, KERNEL_VIRTUAL + p, p)
    BY DEF DataIsBacked
  <2>1. /\ pc \notin {"init_physical", "lost", "init_virtual", "map_ram", "map_kernel"}
        /\ active = pageMap
    BY DEF TreeInv, Places, Switched
  <2>2. DataMapped
    BY <2>1 DEF DataInv
  <2>3. ~HeapMapping /\ HeapMapped
    BY <2>2 DEF HeapMapping, DataMapped
  <2>4. \A k \in 0 .. heapPages - 1 :
           HeapFrameAt(k) = Leaf(ram, active, HEAP_VIRTUAL_BASE + k).frame
    BY <2>1, <2>3 DEF HeapFrameAt
  <2>5. {Leaf(ram, active, HEAP_VIRTUAL_BASE + k).frame : k \in 0 .. heapPages - 1}
           = held["heap"]
    BY <2>3, <2>4 DEF HeapMapped
  <2>6. /\ \A k \in 0 .. heapPages - 1 : Leaf(ram, active, HEAP_VIRTUAL_BASE + k).present
        /\ Cardinality(held["heap"]) = heapPages
    BY <2>1, <2>3 DEF HeapMapped
  <2>7. ASSUME pc = "running", target # nullptr, NEW k \in 0 .. fbSize - 1
        PROVE  /\ Maps(ram, active, virtualTargetBaseAddress + k, target + k)
               /\ target + k \in held["renderer"]
    <3>1. /\ target \in Nat
          /\ Frames(target, fbPages) \subseteq held["renderer"]
          /\ LeadTo(ram, pageMap, virtualTargetBaseAddress, target, fbSize)
      BY <2>2, <2>7 DEF DataMapped, TargetMapped
    <3>2. target + k \in Frames(target, fbPages)
      BY <2>7, <3>1, AddressTypes DEF Frames
    <3> QED BY <2>1, <2>7, <3>1, <3>2 DEF LeadTo
  <2>8. ASSUME NEW p \in KernelFrames
        PROVE  Maps(ram, active, KERNEL_VIRTUAL + p, p)
    <3>1. LeadTo(ram, pageMap, KernelStart, KernelPhysical, kernelTurns)
      BY <2>1, <2>2 DEF DataMapped, KernelMapped
    <3>2. PICK k \in 0 .. kernelTurns - 1 : p = KernelPhysical + k
      <4>1. p \in KernelPhysical .. KernelPhysical + kernelPageCount - 1
        BY DEF KernelFrames, Frames
      <4>2. p - KernelPhysical \in 0 .. kernelTurns - 1
        BY <4>1, AddressTypes DEF kernelTurns
      <4>3. p = KernelPhysical + (p - KernelPhysical)
        BY <4>1, AddressTypes
      <4> QED BY <4>2, <4>3
    <3>3. Maps(ram, pageMap, KernelStart + k, KernelPhysical + k)
      BY <3>1 DEF LeadTo
    <3>4. KernelStart + k = KERNEL_VIRTUAL + p
      BY <3>2, AddressTypes DEF KernelStart
    <3> QED BY <2>1, <3>2, <3>3, <3>4
  <2> QED BY <2>5, <2>6, <2>7, <2>8
<1> QED BY <1>1, <1>2, <1>3, PTL DEF KSpec

-----------------------------------------------------------------------------
(***************************************************************************)
(* All page maps together: a forest.                                       *)
(*                                                                         *)
(* A part <<t, l>> is table t of level l with the tables under it, as far  *)
(* as they are entered: the page map that is active, each finished clone   *)
(* and, for a clone that is being filled, the table of each level that the *)
(* loop is in, which its parent does not lead to yet.                      *)
(***************************************************************************)
\* Level3, 2 and 1 of a table are what one, two and three entries lead to.
Under(r, x) ==
    (IF x[2] > 1 THEN Level3(r, x[1]) ELSE {})
      \cup (IF x[2] > 2 THEN Level2(r, x[1]) ELSE {})
      \cup (IF x[2] > 3 THEN Level1(r, x[1]) ELSE {})
PartTables(r, x) == {x[1]} \cup Under(r, x)

Filled == {<<cloning.new[l], l>> : l \in cloning.level .. 4}
Parts ==
    {<<c, 4>> : c \in clones \cup {pageMap}}
      \cup (IF cloning = NotCloning THEN {} ELSE Filled)

\* No table belongs to two parts, all are held, and none is under itself.
Forest(r, P, H) ==
    /\ \A x \in P : PartTables(r, x) \subseteq H /\ x[1] \notin Under(r, x)
    /\ \A x, y \in P : x # y => PartTables(r, x) \cap PartTables(r, y) = {}

\* No held table is lost.
Whole(r, P, H) == \A f \in H : \E x \in P : f \in PartTables(r, x)

\* Tables that lead alike, from level l down.
Alike1(r, t, u) == Table(r, t) = Table(r, u)
Alike2(r, t, u) ==
    \A i \in Slots :
        /\ Table(r, t)[i].present <=> Table(r, u)[i].present
        /\ Table(r, t)[i].present => Alike1(r, Table(r, t)[i].frame, Table(r, u)[i].frame)
Alike3(r, t, u) ==
    \A i \in Slots :
        /\ Table(r, t)[i].present <=> Table(r, u)[i].present
        /\ Table(r, t)[i].present => Alike2(r, Table(r, t)[i].frame, Table(r, u)[i].frame)

EntryAlike(r, d, e, l) ==
    /\ d.present <=> e.present
    /\ d.present =>
          CASE l = 2 -> Alike1(r, d.frame, e.frame)
            [] l = 3 -> Alike2(r, d.frame, e.frame)
            [] l = 4 -> Alike3(r, d.frame, e.frame)

\* A table of a clone that is filled up to entry slot: those before it are
\* copies, those from it on are absent.
FilledUpTo(r, old, new, slot, l) ==
    /\ DOMAIN Table(r, new) = Slots
    /\ \A i \in Slots :
          /\ i < slot => EntryAlike(r, Table(r, old)[i], Table(r, new)[i], l)
          /\ i >= slot => ~Table(r, new)[i].present

\* Level l of clone c: its loop is at an entry, down which the next one is.
Filling(r, c, l) ==
    /\ c.slot[l] \in 0 .. EntriesPerTable
    /\ l > c.level =>
          /\ c.slot[l] < EntriesPerTable
          /\ Leads(Table(r, c.old[l])[c.slot[l]], c.old[l - 1])
    /\ FilledUpTo(r, c.old[l], c.new[l], c.slot[l], l)

CloneFilled ==
    /\ cloning.level \in {2, 3, 4}
    /\ DOMAIN cloning.old = 2 .. 4 /\ DOMAIN cloning.slot = 2 .. 4
    /\ cloning.old[4] = pageMap
    /\ \A l \in cloning.level .. 4 : Filling(ram, cloning, l)

ForestInv ==
    /\ clones # {} => pc = "running"
    /\ pc \in {"init_physical", "lost", "init_virtual"} => held["tables"] = {}
    /\ pc \notin {"init_physical", "lost", "init_virtual"} /\ ~starved =>
          /\ DOMAIN ram \subseteq Known \cup held["tables"]
          /\ Forest(ram, Parts, held["tables"])
          /\ cloning # NotCloning => CloneFilled
          /\ ~panicked => Whole(ram, Parts, held["tables"])

LEMMA MoreChildren ==
  ASSUME NEW r, NEW S, NEW T
  PROVE  /\ Children(r, S \cup T) = Children(r, S) \cup Children(r, T)
         /\ S \subseteq T => Children(r, S) \subseteq Children(r, T)
<1>1. ASSUME NEW f
      PROVE  f \in Children(r, S \cup T) <=> f \in Children(r, S) \cup Children(r, T)
  BY ChildrenAre
<1>2. ASSUME S \subseteq T, NEW f \in Children(r, S)
      PROVE  f \in Children(r, T)
  BY <1>2, ChildrenAre
<1> QED BY <1>1, <1>2

\* A part whose tables are left alone.
LEMMA SameUnder ==
  ASSUME NEW r, NEW s, NEW x, x[2] \in {2, 3, 4},
         \A t \in PartTables(r, x) : Table(s, t) = Table(r, t)
  PROVE  Under(s, x) = Under(r, x) /\ PartTables(s, x) = PartTables(r, x)
<1>1. Level3(s, x[1]) = Level3(r, x[1])
  BY SameChildren DEF Level3, PartTables
<1>2. CASE x[2] = 2
  BY <1>1, <1>2 DEF Under, PartTables
<1>3. CASE x[2] \in {3, 4}
  <2>1. Level2(s, x[1]) = Level2(r, x[1])
    BY <1>1, <1>3, SameChildren DEF Level2, PartTables, Under
  <2>2. CASE x[2] = 3
    BY <1>1, <2>1, <2>2 DEF Under, PartTables
  <2>3. CASE x[2] = 4
    <3>1. Level1(s, x[1]) = Level1(r, x[1])
      BY <2>1, <2>3, SameChildren DEF Level1, PartTables, Under
    <3> QED BY <1>1, <2>1, <2>3, <3>1 DEF Under, PartTables
  <2> QED BY <1>3, <2>2, <2>3
<1> QED BY <1>2, <1>3

LEMMA RootPart ==
  ASSUME NEW r, NEW root
  PROVE  /\ PartTables(r, <<root, 4>>) = Nodes(r, root)
         /\ Under(r, <<root, 4>>) = Level3(r, root) \cup Level2(r, root) \cup Level1(r, root)
BY DEF PartTables, Under, Nodes

LEMMA EmptyPart ==
  ASSUME NEW r, NEW f, NEW l, Table(r, f) = Empty
  PROVE  Under(r, <<f, l>>) = {} /\ PartTables(r, <<f, l>>) = {f}
<1>1. \A i \in Slots : ~Table(r, f)[i].present
  BY DEF Empty, Absent
<1>2. \A g : g \notin Children(r, {f})
  BY <1>1, ChildrenAre
<1>3. \A g : g \notin Children(r, {})
  BY ChildrenAre
<1>4. Level3(r, f) = {} /\ Level2(r, f) = {} /\ Level1(r, f) = {}
  BY <1>2, <1>3 DEF Level3, Level2, Level1
<1> QED BY <1>4 DEF Under, PartTables

\* What an entry leads to is under its table.
LEMMA EntryIsUnder ==
  ASSUME NEW r, NEW t, NEW l \in {2, 3, 4}, NEW i \in Slots, Table(r, t)[i].present
  PROVE  PartTables(r, <<Table(r, t)[i].frame, l - 1>>) \subseteq Under(r, <<t, l>>)
<1> DEFINE f == Table(r, t)[i].frame
<1>1. {f} \subseteq Level3(r, t)
  BY ChildrenAre DEF Level3
<1> HIDE DEF f
<1>2. Level3(r, f) \subseteq Level2(r, t)
  BY <1>1, MoreChildren DEF Level3, Level2
<1>3. Level2(r, f) \subseteq Level1(r, t)
  BY <1>2, MoreChildren DEF Level2, Level1
<1>4. PartTables(r, <<f, l - 1>>) \subseteq Under(r, <<t, l>>)
  <2>1. CASE l = 2
    BY <1>1, <2>1 DEF PartTables, Under
  <2>2. CASE l = 3
    BY <1>1, <1>2, <2>2 DEF PartTables, Under
  <2>3. CASE l = 4
    BY <1>1, <1>2, <1>3, <2>3 DEF PartTables, Under
  <2> QED BY <2>1, <2>2, <2>3
<1> QED BY <1>4 DEF f

\* One part z changes, or is new: it takes in the parts Z and the new tables N,
\* and nothing else is written to.
OnePartChanges(r, s, P, Q, Z, z, H, N) ==
    /\ \A x \in P : x[2] \in {2, 3, 4}
    /\ Z \subseteq P /\ z \in Q /\ Q \ {z} = P \ Z
    /\ N \cap H = {}
    /\ \A t \in H : (\A x \in Z : t \notin PartTables(r, x)) => Table(s, t) = Table(r, t)
    /\ \A f : f \in PartTables(s, z) <=> f \in N \/ \E x \in Z : f \in PartTables(r, x)
    /\ z[1] \notin Under(s, z)

LEMMA ForestStep ==
  ASSUME NEW r, NEW s, NEW P, NEW Q, NEW Z, NEW z, NEW H, NEW N,
         Forest(r, P, H), OnePartChanges(r, s, P, Q, Z, z, H, N)
  PROVE  /\ Forest(s, Q, H \cup N)
         /\ Whole(r, P, H) => Whole(s, Q, H \cup N)
         /\ \A y \in Q \ {z} : PartTables(s, y) = PartTables(r, y)
<1> USE DEF OnePartChanges
<1>1. ASSUME NEW y \in Q \ {z}
      PROVE  /\ y \in P \ Z
             /\ PartTables(s, y) = PartTables(r, y) /\ Under(s, y) = Under(r, y)
             /\ PartTables(r, y) \subseteq H /\ y[1] \notin Under(r, y)
  <2>1. y \in P \ Z /\ y[2] \in {2, 3, 4}
    OBVIOUS
  <2>2. PartTables(r, y) \subseteq H /\ y[1] \notin Under(r, y)
    BY <2>1 DEF Forest
  <2>3. \A x \in Z : PartTables(r, y) \cap PartTables(r, x) = {}
    BY <2>1 DEF Forest
  <2>4. \A t \in PartTables(r, y) : Table(s, t) = Table(r, t)
    BY <2>2, <2>3
  <2> QED BY <2>1, <2>2, <2>4, SameUnder
<1>2. ASSUME NEW x \in Z
      PROVE  PartTables(r, x) \subseteq H
  BY DEF Forest
<1>3. PartTables(s, z) \subseteq H \cup N
  BY <1>2
<1>4. ASSUME NEW y \in Q \ {z}
      PROVE  PartTables(s, y) \cap PartTables(s, z) = {}
  <2>1. /\ y \in P \ Z /\ PartTables(s, y) = PartTables(r, y)
        /\ PartTables(r, y) \subseteq H
    BY <1>1
  <2>2. \A x \in Z : PartTables(r, y) \cap PartTables(r, x) = {}
    BY <2>1 DEF Forest
  <2> QED BY <2>1, <2>2
<1>5. ASSUME NEW x \in Q, NEW y \in Q, x # y
      PROVE  PartTables(s, x) \cap PartTables(s, y) = {}
  <2>1. CASE x # z /\ y # z
    <3>1. PartTables(r, x) \cap PartTables(r, y) = {}
      BY <1>1, <1>5, <2>1 DEF Forest
    <3> QED BY <1>1, <2>1, <3>1
  <2>2. CASE x = z
    BY <1>4, <1>5, <2>2
  <2>3. CASE y = z
    BY <1>4, <1>5, <2>3
  <2> QED BY <2>1, <2>2, <2>3
<1>6. \A x \in Q : PartTables(s, x) \subseteq H \cup N /\ x[1] \notin Under(s, x)
  BY <1>1, <1>3
<1>7. Forest(s, Q, H \cup N)
  BY <1>5, <1>6 DEF Forest
<1>8. ASSUME Whole(r, P, H), NEW f \in H \cup N
      PROVE  \E x \in Q : f \in PartTables(s, x)
  <2>1. CASE f \in N
    BY <2>1
  <2>2. CASE f \in H
    <3>1. PICK x \in P : f \in PartTables(r, x)
      BY <1>8, <2>2 DEF Whole
    <3>2. CASE x \in Z
      BY <3>1, <3>2
    <3>3. CASE x \notin Z
      <4>1. x \in Q \ {z}
        BY <3>1, <3>3
      <4> QED BY <1>1, <3>1, <4>1
    <3> QED BY <3>2, <3>3
  <2> QED BY <1>8, <2>1, <2>2
<1> QED BY <1>1, <1>7, <1>8 DEF Whole


LEMMA OneEntryMore ==
  ASSUME NEW r, NEW s, NEW t, NEW i \in Slots, NEW f, DOMAIN Table(r, t) = Slots,
         ~Table(r, t)[i].present, Table(s, t) = [Table(r, t) EXCEPT ![i] = To(f)]
  PROVE  /\ DOMAIN Table(s, t) = Slots /\ Table(s, t)[i] = To(f)
         /\ \A j \in Slots : j # i => Table(s, t)[j] = Table(r, t)[j]
         /\ Level3(s, t) = Level3(r, t) \cup {f}
<1>1. /\ DOMAIN Table(s, t) = Slots /\ Table(s, t)[i] = To(f)
      /\ \A j \in Slots : j # i => Table(s, t)[j] = Table(r, t)[j]
  OBVIOUS
<1>2. Table(s, t)[i].present /\ Table(s, t)[i].frame = f
  BY <1>1 DEF To
<1>3. ASSUME NEW g
      PROVE  g \in Level3(s, t) <=> g \in Level3(r, t) \cup {f}
  <2>1. g \in Level3(s, t) <=>
          \E j \in Slots : Table(s, t)[j].present /\ g = Table(s, t)[j].frame
    BY ChildrenAre DEF Level3
  <2>2. g \in Level3(r, t) <=>
          \E j \in Slots : Table(r, t)[j].present /\ g = Table(r, t)[j].frame
    BY ChildrenAre DEF Level3
  <2> QED BY <1>1, <1>2, <2>1, <2>2
<1> QED BY <1>1, <1>3

\* A table of the last level entered in its parent, and any other table with
\* all that it leads to.
LEMMA CopyEntered ==
  ASSUME NEW r, NEW s, NEW t, NEW i \in Slots, NEW f, f # t, DOMAIN Table(r, t) = Slots,
         ~Table(r, t)[i].present, Table(s, t) = [Table(r, t) EXCEPT ![i] = To(f)],
         t \notin Under(r, <<t, 2>>)
  PROVE  /\ PartTables(s, <<t, 2>>) = PartTables(r, <<t, 2>>) \cup {f}
         /\ t \notin Under(s, <<t, 2>>)
BY OneEntryMore DEF PartTables, Under

\* Table u, which is not written to, is entered in table t of level l.
EntersPart(r, s, t, i, u, l) ==
    /\ DOMAIN Table(r, t) = Slots /\ ~Table(r, t)[i].present
    /\ Table(s, t) = [Table(r, t) EXCEPT ![i] = To(u)]
    /\ \A g : g # t => Table(s, g) = Table(r, g)
    /\ t \notin Under(r, <<t, l>>) /\ t \notin PartTables(r, <<u, l - 1>>)

PartsJoined(r, s, t, u, l) ==
    /\ PartTables(s, <<t, l>>) = PartTables(r, <<t, l>>) \cup PartTables(r, <<u, l - 1>>)
    /\ t \notin Under(s, <<t, l>>)

LEMMA PartEntered ==
  ASSUME NEW r, NEW s, NEW t, NEW i \in Slots, NEW u, NEW l \in {3, 4},
         EntersPart(r, s, t, i, u, l)
  PROVE  PartsJoined(r, s, t, u, l)
<1> USE DEF EntersPart, PartsJoined
<1>1. Level3(s, t) = Level3(r, t) \cup {u}
  BY OneEntryMore
<1>2. t # u /\ t \notin Level3(r, t) /\ t \notin Level3(r, u)
  BY DEF PartTables, Under
<1>3. Level2(s, t) = Level2(r, t) \cup Level3(r, u)
  <2>1. Children(s, Level3(s, t)) = Children(r, Level3(s, t))
    BY <1>1, <1>2, SameChildren
  <2> QED BY <1>1, <2>1, MoreChildren DEF Level2, Level3
<1>4. CASE l = 3
  BY <1>1, <1>2, <1>3, <1>4 DEF PartTables, Under
<1>5. CASE l = 4
  <2>1. t \notin Level2(r, t)
    BY <1>5 DEF Under
  <2>2. Level1(s, t) = Level1(r, t) \cup Level2(r, u)
    <3>1. Children(s, Level2(s, t)) = Children(r, Level2(s, t))
      BY <1>2, <1>3, <2>1, SameChildren
    <3> QED BY <1>3, <3>1, MoreChildren DEF Level1, Level2
  <2>3. /\ Under(s, <<t, l>>) = Level3(s, t) \cup Level2(s, t) \cup Level1(s, t)
        /\ Under(r, <<t, l>>) = Level3(r, t) \cup Level2(r, t) \cup Level1(r, t)
        /\ PartTables(r, <<u, l - 1>>) = {u} \cup Level3(r, u) \cup Level2(r, u)
    BY <1>5 DEF PartTables, Under
  <2>4. Under(s, <<t, l>>) = Under(r, <<t, l>>) \cup PartTables(r, <<u, l - 1>>)
    BY <1>1, <1>3, <2>2, <2>3
  <2> QED BY <2>4 DEF PartTables
<1> QED BY <1>4, <1>5

-----------------------------------------------------------------------------
(* Copies under writes elsewhere, and as they grow.                        *)

LEMMA AlikeStays ==
  ASSUME NEW r, NEW s, NEW t, NEW u
  PROVE  /\ /\ Alike1(r, t, u)
            /\ Table(s, t) = Table(r, t) /\ Table(s, u) = Table(r, u)
            => Alike1(s, t, u)
         /\ /\ Alike2(r, t, u)
            /\ \A g \in PartTables(r, <<t, 2>>) \cup PartTables(r, <<u, 2>>) :
                  Table(s, g) = Table(r, g)
            => Alike2(s, t, u)
         /\ /\ Alike3(r, t, u)
            /\ \A g \in PartTables(r, <<t, 3>>) \cup PartTables(r, <<u, 3>>) :
                  Table(s, g) = Table(r, g)
            => Alike3(s, t, u)
<1>1. ASSUME NEW a, NEW b, Alike1(r, a, b),
             Table(s, a) = Table(r, a), Table(s, b) = Table(r, b)
      PROVE  Alike1(s, a, b)
  BY <1>1 DEF Alike1
<1>2. ASSUME NEW a, NEW b, Alike2(r, a, b),
             \A g \in PartTables(r, <<a, 2>>) \cup PartTables(r, <<b, 2>>) :
                 Table(s, g) = Table(r, g)
      PROVE  Alike2(s, a, b)
  <2>1. Table(s, a) = Table(r, a) /\ Table(s, b) = Table(r, b)
    BY <1>2 DEF PartTables
  <2>2. ASSUME NEW i \in Slots, Table(r, a)[i].present
        PROVE  Alike1(s, Table(r, a)[i].frame, Table(r, b)[i].frame)
    <3>1. /\ Table(r, b)[i].present
          /\ Alike1(r, Table(r, a)[i].frame, Table(r, b)[i].frame)
      BY <1>2, <2>2 DEF Alike2
    <3>2. /\ Table(r, a)[i].frame \in PartTables(r, <<a, 2>>)
          /\ Table(r, b)[i].frame \in PartTables(r, <<b, 2>>)
      BY <2>2, <3>1, EntryIsUnder DEF PartTables
    <3> QED BY <1>1, <1>2, <3>1, <3>2
  <2> QED BY <1>2, <2>1, <2>2 DEF Alike2
<1>3. ASSUME NEW a, NEW b, Alike3(r, a, b),
             \A g \in PartTables(r, <<a, 3>>) \cup PartTables(r, <<b, 3>>) :
                 Table(s, g) = Table(r, g)
      PROVE  Alike3(s, a, b)
  <2>1. Table(s, a) = Table(r, a) /\ Table(s, b) = Table(r, b)
    BY <1>3 DEF PartTables
  <2>2. ASSUME NEW i \in Slots, Table(r, a)[i].present
        PROVE  Alike2(s, Table(r, a)[i].frame, Table(r, b)[i].frame)
    <3>1. /\ Table(r, b)[i].present
          /\ Alike2(r, Table(r, a)[i].frame, Table(r, b)[i].frame)
      BY <1>3, <2>2 DEF Alike3
    <3>2. /\ PartTables(r, <<Table(r, a)[i].frame, 2>>) \subseteq PartTables(r, <<a, 3>>)
          /\ PartTables(r, <<Table(r, b)[i].frame, 2>>) \subseteq PartTables(r, <<b, 3>>)
      <4>1. /\ PartTables(r, <<Table(r, a)[i].frame, 3 - 1>>) \subseteq Under(r, <<a, 3>>)
            /\ PartTables(r, <<Table(r, b)[i].frame, 3 - 1>>) \subseteq Under(r, <<b, 3>>)
        BY <2>2, <3>1, EntryIsUnder
      <4>2. 3 - 1 = 2
        OBVIOUS
      <4>3. \A x : Under(r, x) \subseteq PartTables(r, x)
        BY DEF PartTables
      <4> QED BY <4>1, <4>2, <4>3
    <3> QED BY <1>2, <1>3, <3>1, <3>2
  <2> QED BY <1>3, <2>1, <2>2 DEF Alike3
<1> QED BY <1>1, <1>2, <1>3

\* What two entries lead to is left alone.
SameBelow(r, s, d, e, l) ==
    d.present =>
        \A g \in PartTables(r, <<d.frame, l - 1>>) \cup PartTables(r, <<e.frame, l - 1>>) :
            Table(s, g) = Table(r, g)

LEMMA EntryAlikeStays ==
  ASSUME NEW r, NEW s, NEW d, NEW e, NEW l \in {2, 3, 4}, EntryAlike(r, d, e, l),
         SameBelow(r, s, d, e, l)
  PROVE  EntryAlike(s, d, e, l)
<1>1. CASE ~d.present
  BY <1>1 DEF EntryAlike
<1>2. CASE d.present /\ l = 2
  <2>1. Alike1(r, d.frame, e.frame)
    BY <1>2 DEF EntryAlike
  <2>2. Table(s, d.frame) = Table(r, d.frame) /\ Table(s, e.frame) = Table(r, e.frame)
    BY <1>2 DEF PartTables, SameBelow
  <2>3. Alike1(s, d.frame, e.frame)
    BY <2>1, <2>2 DEF Alike1
  <2> QED BY <1>2, <2>3 DEF EntryAlike
<1>3. CASE d.present /\ l = 3
  <2>1. Alike2(r, d.frame, e.frame)
    BY <1>3 DEF EntryAlike
  <2>2. l - 1 = 2
    BY <1>3
  <2>3. Alike2(s, d.frame, e.frame)
    BY <1>3, <2>1, <2>2, AlikeStays DEF SameBelow
  <2> QED BY <1>3, <2>3 DEF EntryAlike
<1>4. CASE d.present /\ l = 4
  <2>1. Alike3(r, d.frame, e.frame)
    BY <1>4 DEF EntryAlike
  <2>2. l - 1 = 3
    BY <1>4
  <2>3. Alike3(s, d.frame, e.frame)
    BY <1>4, <2>1, <2>2, AlikeStays DEF SameBelow
  <2> QED BY <1>4, <2>3 DEF EntryAlike
<1> QED BY <1>1, <1>2, <1>3, <1>4

LeftAlone(r, s, S) == \A t \in S : Table(s, t) = Table(r, t)
BothLeftAlone(r, s, old, new, l) ==
    LeftAlone(r, s, PartTables(r, <<old, l>>) \cup PartTables(r, <<new, l>>))

LEMMA FilledStays ==
  ASSUME NEW r, NEW s, NEW old, NEW new, NEW slot \in Nat, NEW l \in {2, 3, 4},
         FilledUpTo(r, old, new, slot, l), BothLeftAlone(r, s, old, new, l)
  PROVE  FilledUpTo(s, old, new, slot, l)
<1> USE DEF LeftAlone, BothLeftAlone
<1>1. Table(s, old) = Table(r, old) /\ Table(s, new) = Table(r, new)
  BY DEF PartTables
<1>2. ASSUME NEW i \in Slots, i < slot
      PROVE  EntryAlike(s, Table(r, old)[i], Table(r, new)[i], l)
  <2>1. EntryAlike(r, Table(r, old)[i], Table(r, new)[i], l)
    BY <1>2 DEF FilledUpTo
  <2>2. ASSUME Table(r, old)[i].present
        PROVE  \A g \in PartTables(r, <<Table(r, old)[i].frame, l - 1>>)
                          \cup PartTables(r, <<Table(r, new)[i].frame, l - 1>>) :
                   Table(s, g) = Table(r, g)
    <3>1. Table(r, new)[i].present
      BY <2>1, <2>2 DEF EntryAlike
    <3>2. /\ PartTables(r, <<Table(r, old)[i].frame, l - 1>>) \subseteq Under(r, <<old, l>>)
          /\ PartTables(r, <<Table(r, new)[i].frame, l - 1>>) \subseteq Under(r, <<new, l>>)
      BY <2>2, <3>1, EntryIsUnder
    <3>3. \A x : Under(r, x) \subseteq PartTables(r, x)
      BY DEF PartTables
    <3> QED BY <3>2, <3>3
  <2> DEFINE d == Table(r, old)[i]
             e == Table(r, new)[i]
  <2>3. EntryAlike(r, d, e, l)
    BY <2>1
  <2>4. SameBelow(r, s, d, e, l)
    BY <2>2 DEF SameBelow
  <2>5. EntryAlike(s, d, e, l)
    <3> HIDE DEF d, e
    <3> QED BY <2>3, <2>4, EntryAlikeStays
  <2> QED BY <2>5
<1> QED BY <1>1, <1>2 DEF FilledUpTo

\* Entries that are absent need no copy.
LEMMA AbsentAreFilled ==
  ASSUME NEW r, NEW old, NEW new, NEW slot \in Nat, NEW l, NEW i \in Nat,
         FilledUpTo(r, old, new, slot, l), slot <= i,
         \A j \in Slots : slot <= j /\ j < i => ~Table(r, old)[j].present
  PROVE  FilledUpTo(r, old, new, i, l)
<1>1. Slots \subseteq Nat
  BY Entries DEF Slots
<1>2. DOMAIN Table(r, new) = Slots
  BY DEF FilledUpTo
<1>3. ASSUME NEW j \in Slots, j < i
      PROVE  EntryAlike(r, Table(r, old)[j], Table(r, new)[j], l)
  <2>1. CASE j < slot
    BY <2>1 DEF FilledUpTo
  <2>2. CASE slot <= j
    <3>1. ~Table(r, old)[j].present /\ ~Table(r, new)[j].present
      BY <1>1, <1>3, <2>2 DEF FilledUpTo
    <3> QED BY <3>1 DEF EntryAlike
  <2> QED BY <1>1, <2>1, <2>2
<1>4. ASSUME NEW j \in Slots, j >= i
      PROVE  ~Table(r, new)[j].present
  <2>1. j >= slot
    BY <1>1, <1>4
  <2> QED BY <2>1 DEF FilledUpTo
<1> QED BY <1>2, <1>3, <1>4 DEF FilledUpTo

\* All but the copy itself.
BelowLeftAlone(r, s, old, new, l) ==
    LeftAlone(r, s, PartTables(r, <<old, l>>) \cup Under(r, <<new, l>>))

LEMMA EntryFilled ==
  ASSUME NEW r, NEW s, NEW old, NEW new, NEW i \in Slots, NEW l \in {2, 3, 4}, NEW f,
         FilledUpTo(r, old, new, i, l),
         Table(s, new) = [Table(r, new) EXCEPT ![i] = To(f)],
         BelowLeftAlone(r, s, old, new, l),
         EntryAlike(s, Table(r, old)[i], To(f), l)
  PROVE  FilledUpTo(s, old, new, i + 1, l)
<1> USE DEF LeftAlone, BelowLeftAlone
<1>1. Slots \subseteq Nat
  BY Entries DEF Slots
<1>2. /\ DOMAIN Table(r, new) = Slots /\ ~Table(r, new)[i].present
      /\ Table(s, old) = Table(r, old)
  BY <1>1 DEF FilledUpTo, PartTables
<1>3. /\ DOMAIN Table(s, new) = Slots /\ Table(s, new)[i] = To(f)
      /\ \A j \in Slots : j # i => Table(s, new)[j] = Table(r, new)[j]
  BY <1>2, OneEntryMore
<1>4. ASSUME NEW j \in Slots, j < i + 1
      PROVE  EntryAlike(s, Table(s, old)[j], Table(s, new)[j], l)
  <2>1. CASE j = i
    BY <1>2, <1>3, <2>1
  <2>2. CASE j # i
    <3>1. j < i
      BY <1>1, <1>4, <2>2
    <3>2. EntryAlike(r, Table(r, old)[j], Table(r, new)[j], l)
      BY <3>1 DEF FilledUpTo
    <3>3. ASSUME Table(r, old)[j].present
          PROVE  \A g \in PartTables(r, <<Table(r, old)[j].frame, l - 1>>)
                            \cup PartTables(r, <<Table(r, new)[j].frame, l - 1>>) :
                     Table(s, g) = Table(r, g)
      <4>1. Table(r, new)[j].present
        BY <3>2, <3>3 DEF EntryAlike
      <4>2. /\ PartTables(r, <<Table(r, old)[j].frame, l - 1>>) \subseteq Under(r, <<old, l>>)
            /\ PartTables(r, <<Table(r, new)[j].frame, l - 1>>) \subseteq Under(r, <<new, l>>)
        BY <3>3, <4>1, EntryIsUnder
      <4>3. Under(r, <<old, l>>) \subseteq PartTables(r, <<old, l>>)
        BY DEF PartTables
      <4> QED BY <4>2, <4>3
    <3>4. EntryAlike(s, Table(r, old)[j], Table(r, new)[j], l)
      <4> DEFINE d == Table(r, old)[j]
                 e == Table(r, new)[j]
      <4>1. EntryAlike(r, d, e, l)
        BY <3>2
      <4>2. SameBelow(r, s, d, e, l)
        BY <3>3 DEF SameBelow
      <4>3. EntryAlike(s, d, e, l)
        <5> HIDE DEF d, e
        <5> QED BY <4>1, <4>2, EntryAlikeStays
      <4> QED BY <4>3
    <3> QED BY <1>2, <1>3, <2>2, <3>4
  <2> QED BY <2>1, <2>2
<1>5. ASSUME NEW j \in Slots, j >= i + 1
      PROVE  ~Table(s, new)[j].present
  <2>1. j >= i /\ j # i
    BY <1>1, <1>5
  <2> QED BY <1>3, <2>1 DEF FilledUpTo
<1> QED BY <1>3, <1>4, <1>5 DEF FilledUpTo

\* A table whose copy has come to an end.
LEMMA FilledIsAlike ==
  ASSUME NEW r, NEW old, NEW new, NEW slot \in Nat, NEW l,
         FilledUpTo(r, old, new, slot, l),
         \A j \in Slots : slot <= j => ~Table(r, old)[j].present
  PROVE  /\ \A i \in Slots : EntryAlike(r, Table(r, old)[i], Table(r, new)[i], l)
         /\ l = 2 => Alike2(r, old, new)
         /\ l = 3 => Alike3(r, old, new)
<1>1. Slots \subseteq Nat
  BY Entries DEF Slots
<1>2. ASSUME NEW i \in Slots
      PROVE  EntryAlike(r, Table(r, old)[i], Table(r, new)[i], l)
  <2>1. CASE i < slot
    BY <2>1 DEF FilledUpTo
  <2>2. CASE slot <= i
    <3>1. ~Table(r, old)[i].present /\ ~Table(r, new)[i].present
      BY <1>1, <2>2 DEF FilledUpTo
    <3> QED BY <3>1 DEF EntryAlike
  <2> QED BY <1>1, <2>1, <2>2
<1>3. CASE l = 2
  BY <1>2, <1>3 DEF EntryAlike, Alike2
<1>4. CASE l = 3
  BY <1>2, <1>4 DEF EntryAlike, Alike3
<1> QED BY <1>2, <1>3, <1>4

\* A finished clone leads every page where the page map leads it.
LEMMA AlikeLeads ==
  ASSUME NEW r, NEW t, NEW u, NEW page \in Nat,
         \A i \in Slots : EntryAlike(r, Table(r, t)[i], Table(r, u)[i], 4)
  PROVE  Leaf(r, u, page) = Leaf(r, t, page)
<1>1. /\ Index(page, 4) \in Slots /\ Index(page, 3) \in Slots
      /\ Index(page, 2) \in Slots /\ Index(page, 1) \in Slots
  BY IndexIsSlot
<1>2. ~Absent.present
  BY DEF Absent
<1>3. /\ Entry4(r, t, page).present <=> Entry4(r, u, page).present
      /\ Entry4(r, t, page).present =>
            Alike3(r, Entry4(r, t, page).frame, Entry4(r, u, page).frame)
  BY <1>1 DEF Entry4, Entry, EntryAlike
<1>4. /\ Entry3(r, t, page).present <=> Entry3(r, u, page).present
      /\ Entry3(r, t, page).present =>
            Alike2(r, Entry3(r, t, page).frame, Entry3(r, u, page).frame)
  BY <1>1, <1>2, <1>3 DEF Entry3, Follow, Entry, Alike3
<1>5. /\ Entry2(r, t, page).present <=> Entry2(r, u, page).present
      /\ Entry2(r, t, page).present =>
            Alike1(r, Entry2(r, t, page).frame, Entry2(r, u, page).frame)
  BY <1>1, <1>2, <1>4 DEF Entry2, Follow, Entry, Alike2
<1>6. /\ Leaf(r, t, page) = Follow(r, Entry2(r, t, page), page, 1)
      /\ Leaf(r, u, page) = Follow(r, Entry2(r, u, page), page, 1)
  BY DEF Leaf, Entry2, Entry3, Entry4
<1> QED BY <1>5, <1>6 DEF Follow, Entry, Alike1

-----------------------------------------------------------------------------
(* The steps that leave the tables alone, and those before there are any.  *)

\* What the invariant says once there is a page map.
LEMMA WhileForest ==
  ASSUME ForestInv, pc \notin {"init_physical", "lost", "init_virtual"}, ~starved
  PROVE  /\ DOMAIN ram \subseteq Known \cup held["tables"]
         /\ Forest(ram, Parts, held["tables"])
         /\ cloning # NotCloning => CloneFilled
         /\ ~panicked => Whole(ram, Parts, held["tables"])
BY DEF ForestInv

LEMMA ForestKept ==
  ASSUME ForestInv, pc \notin {"init_physical", "lost", "init_virtual"},
         pc' \notin {"init_physical", "lost", "init_virtual"},
         UNCHANGED <<ram, tables, pageMap, cloning, clones>>,
         held'["tables"] = held["tables"],
         pc = "running" => pc' = "running",
         ~starved' => ~starved, ~panicked' => ~panicked
  PROVE  ForestInv'
<1>1. clones' # {} => pc' = "running"
  BY DEF ForestInv
<1>2. ASSUME ~starved'
      PROVE  /\ (DOMAIN ram \subseteq Known \cup held["tables"])'
             /\ Forest(ram, Parts, held["tables"])'
             /\ (cloning # NotCloning => CloneFilled)'
             /\ ~panicked' => Whole(ram, Parts, held["tables"])'
  <2>1. /\ DOMAIN ram \subseteq Known \cup held["tables"]
        /\ Forest(ram, Parts, held["tables"])
        /\ cloning # NotCloning => CloneFilled
        /\ ~panicked => Whole(ram, Parts, held["tables"])
    BY <1>2, WhileForest
  <2>2. Known' = Known
    BY DEF Known
  <2>3. Parts' = Parts
    BY DEF Parts, Filled
  <2>4. CloneFilled' <=> CloneFilled
    BY DEF CloneFilled, Filling
  <2> QED BY <2>1, <2>2, <2>3, <2>4
<1> QED BY <1>1, <1>2 DEF ForestInv

LEMMA ForestInit ==
  ASSUME KInit
  PROVE  ForestInv
<1>1. held["tables"] = {}
  BY KernelMemoryAssumption DEF KInit, Init
<1>2. pc = "init_physical" /\ clones = {}
  BY DEF KInit
<1> QED BY <1>1, <1>2 DEF ForestInv

\* init_physical's page tables are held by nobody.
LEMMA ForestBefore ==
  ASSUME TreeInv, ForestInv, KNext, ~NewPageMap, pc \in {"init_physical", "lost", "init_virtual"}
  PROVE  ForestInv'
<1>1. pc' \in {"init_physical", "lost", "init_virtual"}
  BY StillWithoutPageMap
<1>2. held["tables"] = {} /\ clones = {}
  BY DEF ForestInv
<1>3. held'["tables"] = held["tables"] /\ clones' = clones
  <2>1. CASE Scan \/ MapLowMemory \/ SwitchBitmap \/ LoseMachine
    BY <2>1 DEF Scan, ScanDescriptor, HaltWithoutSegment, UseInitialBitmap,
                MapLowMemory, MapNext, SwitchBitmap, LoseMachine, paging, vars
  <2>2. CASE map
    <3>1. mapping # NoMapping
      BY <2>2, LevelOfNoMapping DEF map, MapThroughTable, MapNewTable, MapPage
    <3>2. pc \in {"init_physical", "lost"} /\ phase # "ready"
      BY <3>1 DEF TreeInv, Places
    <3>3. phase = "map"
      BY <3>1, <3>2 DEF TreeInv, KInv, InOrder, Booting
    <3> QED BY <2>2, <3>3 DEF map, MapThroughTable, MapNewTable, MapPage, TakeTable,
                              paging, vars
  <2>3. CASE Running
    <3>1. CASE expand_heap \/ clone_active_page_map
      BY <3>1 DEF expand_heap, clone_active_page_map, Idle, At
    <3>2. CASE CloneTable \/ CloneEntered \/ CloneReturns
      <4>1. cloning.level > 1
        <5>1. CASE CloneTable
          BY <5>1 DEF CloneTable
        <5>2. CASE CloneEntered \/ CloneReturns
          <6>1. cloning.level \in {2, 3, 4}
            BY <5>2 DEF CloneEntered, CloneReturns
          <6> QED BY <6>1
        <5> QED BY <3>2, <5>1, <5>2
      <4>2. cloning # NotCloning
        BY <4>1, LevelOfNoMapping
      <4>3. pc = "running"
        BY <4>2 DEF TreeInv, KInv, InOrder
      <4> QED BY <4>3
    <3> QED BY <2>3, <3>1, <3>2 DEF Running
  <2>4. CASE ~(Scan \/ MapLowMemory \/ SwitchBitmap \/ LoseMachine) /\ KStage1
    BY <2>4 DEF KStage1, MapRam, MapKernel, UnmapNull, flush_page_map, init_heap,
                LockFramebuffer, MapFramebuffer, RequestTarget, MapTarget, Loop, At
  <2> QED BY <2>1, <2>2, <2>3, <2>4 DEF KNext
<1> QED BY <1>1, <1>2, <1>3 DEF ForestInv

\* init_virtual's page map: one table.
LEMMA NewPageMapForest ==
  ASSUME Leftover = Empty, TreeInv, ForestInv, NewPageMap
  PROVE  ForestInv'
<1> DEFINE f == request_page(mem).frame
<1>1. /\ pc = "init_virtual" /\ pc' = "map_ram"
      /\ Grant("tables", request_page(mem), 1)
      /\ pageMap' = f
      /\ starved' = (f = nullptr)
      /\ UNCHANGED <<ram, cloning, clones>>
  BY DEF NewPageMap, At, Go
<1>2. /\ KInv /\ phase = "ready" /\ cloning = NotCloning
      /\ BootTables /\ held["tables"] = {} /\ clones = {}
  BY <1>1, WhileReady DEF TreeInv, ForestInv
<1>3. tables' = tables
  BY <1>1 DEF Grant
<1>4. ASSUME ~starved'
      PROVE  /\ (DOMAIN ram \subseteq Known \cup held["tables"])'
             /\ Forest(ram, Parts, held["tables"])'
             /\ Whole(ram, Parts, held["tables"])'
  <2>1. f # nullptr
    BY <1>1, <1>4
  <2>2. /\ f \notin held["tables"] \cup KernelFrames \cup tables
        /\ held'["tables"] = held["tables"] \cup {f}
    BY <1>1, <1>2, <2>1, FreshTable
  <2>3. Parts' = {<<f, 4>>}
    BY <1>1, <1>2 DEF Parts
  <2> HIDE DEF f
  <2>4. DOMAIN ram \subseteq Known
    BY <1>2 DEF BootTables
  <2>5. Table(ram, f) = Empty
    BY <2>2, <2>4 DEF Known, Table
  <2>6. Under(ram, <<f, 4>>) = {} /\ PartTables(ram, <<f, 4>>) = {f}
    BY <2>5, EmptyPart
  <2>7. Forest(ram, {<<f, 4>>}, {f}) /\ Whole(ram, {<<f, 4>>}, {f})
    BY <2>6 DEF Forest, Whole
  <2>8. held'["tables"] = {f}
    BY <1>2, <2>2
  <2>9. (DOMAIN ram \subseteq Known \cup held["tables"])'
    BY <1>1, <1>3, <2>4 DEF Known
  <2> QED BY <1>1, <2>3, <2>7, <2>8, <2>9
<1> QED BY <1>1, <1>2, <1>4 DEF ForestInv

LEMMA ForestUnchanged ==
  ASSUME ForestInv, UNCHANGED kvars
  PROVE  ForestInv'
<1>1. /\ UNCHANGED <<ram, tables, held, pageMap, cloning, clones, pc, starved, panicked>>
  BY DEF kvars, vars
<1>2. CASE pc \notin {"init_physical", "lost", "init_virtual"}
  BY <1>1, <1>2, ForestKept
<1>3. CASE pc \in {"init_physical", "lost", "init_virtual"}
  BY <1>1, <1>3 DEF ForestInv
<1> QED BY <1>2, <1>3

\* What neither writes a table nor asks for one.
LEMMA ForestAside ==
  ASSUME TreeInv, ForestInv, pc \notin {"init_physical", "lost", "init_virtual"},
         \/ MapRam \/ MapKernel \/ MapFramebuffer \/ MapTarget
         \/ flush_page_map \/ LockFramebuffer \/ RequestTarget
         \/ init_heap \/ expand_heap \/ MapThroughTable
  PROVE  ForestInv'
<1>1. /\ KInv /\ phase = "ready"
  BY WhileReady
<1>2. CASE MapRam \/ MapKernel \/ MapFramebuffer \/ MapTarget
  <2>1. /\ UNCHANGED <<ram, tables, held, pageMap, cloning, clones, starved, panicked>>
        /\ pc # "running"
        /\ pc' = pc \/ pc' \in {"map_kernel", "unmap_null", "request_target", "running"}
    BY <1>2 DEF MapRam, MapKernel, MapFramebuffer, MapTarget, Loop, MapNext, At, Go,
                paging, vars
  <2>2. pc' \notin {"init_physical", "lost", "init_virtual"}
    BY <2>1
  <2> QED BY <2>1, <2>2, ForestKept
<1>3. CASE flush_page_map
  BY <1>3, ForestKept DEF flush_page_map, At, Go, vars
<1>4. CASE LockFramebuffer
  BY <1>4, ForestKept DEF LockFramebuffer, LockDevice, At, Go, paging
<1>5. CASE RequestTarget
  <2>1. /\ pc = "request_target" /\ pc' \in {"running", "map_target"}
        /\ Grant("renderer", request_pages(mem, fbPages), fbPages)
        /\ UNCHANGED <<ram, pageMap, cloning, clones, starved>>
    BY <1>5 DEF RequestTarget, At, Go
  <2>2. held'["tables"] = held["tables"] /\ tables' = tables
    BY <2>1, GrantElsewhere DEF Grant
  <2>3. ~panicked' => ~panicked
    BY <2>1, GrantPanics
  <2> QED BY <2>1, <2>2, <2>3, ForestKept
<1>6. CASE init_heap \/ expand_heap
  <2>1. /\ Grant("heap", request_page(mem), 1)
        /\ UNCHANGED <<ram, pageMap, cloning, clones, starved>>
        /\ \/ pc = "init_heap" /\ pc' = "lock_framebuffer"
           \/ pc = "running" /\ pc' = "running"
    BY <1>6 DEF init_heap, expand_heap, HeapPage, Idle, At, Go
  <2>2. held'["tables"] = held["tables"] /\ tables' = tables
    BY <2>1, GrantElsewhere DEF Grant
  <2>3. ~panicked' => ~panicked
    BY <2>1, GrantPanics
  <2> QED BY <2>1, <2>2, <2>3, ForestKept
<1>7. CASE MapThroughTable
  BY <1>7, ForestKept DEF MapThroughTable, paging, vars
<1> QED BY <1>2, <1>3, <1>4, <1>5, <1>6, <1>7

-----------------------------------------------------------------------------
(* map() and unmap().                                                      *)

\* One part stays where it is, and what is written is in it, or new.
LEMMA PageMapWritten ==
  ASSUME TreeInv, ForestInv, pc \notin {"init_physical", "lost", "init_virtual"},
         ~starved, cloning = NotCloning, NEW N, N \cap held["tables"] = {},
         Tree(ram', pageMap), Nodes(ram', pageMap) = Nodes(ram, pageMap) \cup N,
         \A t \in held["tables"] \ Nodes(ram, pageMap) : Table(ram', t) = Table(ram, t),
         DOMAIN ram' \subseteq DOMAIN ram \cup held'["tables"],
         held'["tables"] = held["tables"] \cup N,
         UNCHANGED <<tables, pageMap, cloning, clones, pc>>,
         ~panicked' => ~panicked
  PROVE  ForestInv'
<1> DEFINE z == <<pageMap, 4>>
<1>1. /\ DOMAIN ram \subseteq Known \cup held["tables"]
      /\ Forest(ram, Parts, held["tables"])
      /\ ~panicked => Whole(ram, Parts, held["tables"])
  BY WhileForest
<1>2. Parts = {<<c, 4>> : c \in clones \cup {pageMap}} /\ Parts' = Parts
  BY DEF Parts
<1>3. z \in Parts /\ \A x \in Parts : x[2] \in {2, 3, 4}
  BY <1>2
<1>4. /\ PartTables(ram, z) = Nodes(ram, pageMap)
      /\ PartTables(ram', z) = Nodes(ram', pageMap)
      /\ pageMap \notin Under(ram', z)
  BY RootPart DEF Tree
<1>5. z[1] = pageMap
  OBVIOUS
<1> HIDE DEF z
<1>6. OnePartChanges(ram, ram', Parts, Parts, {z}, z, held["tables"], N)
  BY <1>3, <1>4, <1>5 DEF OnePartChanges
<1>7. /\ Forest(ram', Parts, held["tables"] \cup N)
      /\ ~panicked' => Whole(ram', Parts, held["tables"] \cup N)
  BY <1>1, <1>6, ForestStep
<1>9. (DOMAIN ram \subseteq Known \cup held["tables"])'
  BY <1>1 DEF Known
<1>10. clones' # {} => pc' = "running"
  BY DEF ForestInv
<1> QED BY <1>2, <1>7, <1>9, <1>10 DEF ForestInv

LEMMA MapForest ==
  ASSUME TreeInv, ForestInv, pc \notin {"init_physical", "lost", "init_virtual"},
         MapNewTable \/ MapPage
  PROVE  ForestInv'
<1>1. CASE starved'
  <2>1. /\ pc' = pc /\ clones' = clones
    BY DEF MapNewTable, MapPage
  <2> QED BY <1>1, <2>1 DEF ForestInv
<1>2. CASE ~starved' /\ MapNewTable
  <2>1. /\ mapping # NoMapping /\ ~starved
        /\ Tree(ram', pageMap)
        /\ \E f : TableAdded(f)
    BY <1>2, NewTableEffect
  <2>2. cloning = NotCloning /\ phase = "ready"
    BY <2>1, WhileOnTheWay, WhileReady
  <2>3. PICK f : TableAdded(f)
    BY <2>1
  <2>4. /\ UNCHANGED <<pageMap, cloning, clones, pc>>
        /\ TakeTable(request_page(mem))
    BY <1>2 DEF MapNewTable
  <2>5. Grant("tables", request_page(mem), 1)
    BY <2>2, <2>4 DEF TakeTable
  <2>6. tables' = tables /\ (~panicked' => ~panicked)
    BY <2>5, GrantPanics DEF Grant
  <2> DEFINE N == {f}
  <2>7. /\ N \cap held["tables"] = {}
        /\ Nodes(ram', pageMap) = Nodes(ram, pageMap) \cup N
        /\ \A t \in held["tables"] \ Nodes(ram, pageMap) : Table(ram', t) = Table(ram, t)
        /\ DOMAIN ram' \subseteq DOMAIN ram \cup held'["tables"]
        /\ held'["tables"] = held["tables"] \cup N
    BY <2>3 DEF TableAdded
  <2> HIDE DEF N
  <2> QED BY <2>1, <2>2, <2>4, <2>6, <2>7, PageMapWritten
<1>3. CASE ~starved' /\ MapPage
  <2>1. /\ UNCHANGED <<pageMap, cloning, clones, pc, tables, held, panicked, starved>>
        /\ mapping.level = 1
    BY <1>3 DEF MapPage, vars
  <2>2. mapping # NoMapping
    BY <2>1, LevelOfNoMapping
  <2>3. cloning = NotCloning /\ ~starved
    BY <1>3, <2>1, <2>2, WhileOnTheWay
  <2>4. /\ Tree(ram', pageMap)
        /\ Nodes(ram', pageMap) = Nodes(ram, pageMap)
    BY <1>3, <2>3, MapPageEffect
  <2>5. /\ \A t \in held["tables"] \ Nodes(ram, pageMap) : Table(ram', t) = Table(ram, t)
        /\ DOMAIN ram' \subseteq DOMAIN ram \cup held["tables"]
    BY <1>3, <2>3, EntryWrites
  <2> DEFINE N == {}
  <2>6. /\ N \cap held["tables"] = {}
        /\ Nodes(ram', pageMap) = Nodes(ram, pageMap) \cup N
        /\ DOMAIN ram' \subseteq DOMAIN ram \cup held'["tables"]
        /\ held'["tables"] = held["tables"] \cup N
    BY <2>1, <2>4, <2>5
  <2> HIDE DEF N
  <2> QED BY <2>1, <2>3, <2>4, <2>5, <2>6, PageMapWritten
<1> QED BY <1>1, <1>2, <1>3

\* unmap(nullptr) writes to the kernel's pml1, which is held by nobody.
LEMMA UnmapNullForest ==
  ASSUME TreeInv, ForestInv, UnmapNull
  PROVE  ForestInv'
<1>1. /\ pc = "unmap_null" /\ pc' = "flush" /\ ram' = unmap(ram, active, 0)
      /\ UNCHANGED <<held, tables, panicked, pageMap, starved, cloning, clones>>
  BY DEF UnmapNull, At, Go, vars
<1>2. KInv /\ cloning = NotCloning /\ clones = {}
  BY <1>1, WhileReady DEF ForestInv
<1>3. ASSUME ~starved
      PROVE  ForestInv'
  <2>1. PageMapBuilt /\ OldMap
    BY <1>1, <1>3 DEF TreeInv, Switched
  <2>2. /\ \A t \in held["tables"] : Table(ram', t) = Table(ram, t)
        /\ DOMAIN ram' \subseteq DOMAIN ram \cup KernelFrames
    BY <1>2, <2>1, UnmapNullElsewhere
  <2>3. Tree(ram', pageMap) /\ Nodes(ram', pageMap) = Nodes(ram, pageMap)
    BY <2>1, <2>2, TreeElsewhere DEF PageMapBuilt
  <2>4. /\ DOMAIN ram \subseteq Known \cup held["tables"]
        /\ Forest(ram, Parts, held["tables"])
        /\ ~panicked => Whole(ram, Parts, held["tables"])
    BY <1>1, <1>3, WhileForest
  <2>5. Parts = {<<pageMap, 4>>} /\ Parts' = Parts
    BY <1>1, <1>2 DEF Parts
  <2>6. /\ PartTables(ram', <<pageMap, 4>>) = PartTables(ram, <<pageMap, 4>>)
        /\ pageMap \notin Under(ram', <<pageMap, 4>>)
    BY <2>3, RootPart DEF Tree
  <2> DEFINE x == <<pageMap, 4>>
  <2>7. x[1] = pageMap
    OBVIOUS
  <2> HIDE DEF x
  <2>8. Forest(ram', Parts, held["tables"])
    BY <2>4, <2>5, <2>6, <2>7 DEF Forest, x
  <2>9. ~panicked => Whole(ram', Parts, held["tables"])
    BY <2>4, <2>5, <2>6 DEF Whole
  <2>10. (DOMAIN ram \subseteq Known \cup held["tables"])'
    BY <1>1, <2>2, <2>4 DEF Known
  <2> QED BY <1>1, <1>2, <2>5, <2>8, <2>9, <2>10 DEF ForestInv
<1>4. CASE starved
  BY <1>1, <1>2, <1>4 DEF ForestInv
<1> QED BY <1>3, <1>4

-----------------------------------------------------------------------------
(* clone_active_page_map().                                                *)

\* What the invariants say of a clone that is being filled.
LEMMA WhileCloning ==
  ASSUME TreeInv, ForestInv, ~starved, cloning # NotCloning
  PROVE  /\ pc = "running" /\ KInv /\ phase = "ready" /\ pageMap # nullptr
         /\ DOMAIN ram \subseteq Known \cup held["tables"]
         /\ Nodes(ram, pageMap) \subseteq held["tables"]
         /\ Forest(ram, Parts, held["tables"])
         /\ ~panicked => Whole(ram, Parts, held["tables"])
         /\ ClonesInto(cloning, held["tables"] \ Nodes(ram, pageMap))
         /\ CloneFilled
         /\ Parts = {<<c, 4>> : c \in clones \cup {pageMap}} \cup Filled
<1>1. pc = "running" /\ KInv /\ phase = "ready"
  BY WhileReady DEF TreeInv, KInv, InOrder
<1>2. PageMapBuilt
  BY <1>1 DEF TreeInv
<1>3. CloneOutside /\ pageMap # nullptr /\ Nodes(ram, pageMap) \subseteq held["tables"]
  BY <1>2 DEF PageMapBuilt
<1>4. /\ DOMAIN ram \subseteq Known \cup held["tables"]
      /\ Forest(ram, Parts, held["tables"])
      /\ ~panicked => Whole(ram, Parts, held["tables"])
      /\ CloneFilled
  BY <1>1, WhileForest
<1> QED BY <1>1, <1>3, <1>4 DEF CloneOutside, Parts

\* The tables that are copied are those of the active page map.
LEMMA OldInTree ==
  ASSUME CloneFilled, NEW l \in cloning.level .. 4
  PROVE  /\ l \in {2, 3, 4} /\ cloning.slot[l] \in Nat
         /\ PartTables(ram, <<cloning.old[l], l>>) \subseteq Nodes(ram, pageMap)
<1>1. /\ cloning.level \in {2, 3, 4}
      /\ cloning.old[4] = pageMap
      /\ EntriesPerTable \in Nat
  BY Entries DEF CloneFilled
<1>2. ASSUME NEW k \in cloning.level .. 4
      PROVE  k \in {2, 3, 4} /\ cloning.slot[k] \in Nat
  BY <1>1, <1>2 DEF CloneFilled, Filling
<1>3. ASSUME NEW k \in {3, 4}, cloning.level <= k - 1
      PROVE  PartTables(ram, <<cloning.old[k - 1], k - 1>>)
                \subseteq PartTables(ram, <<cloning.old[k], k>>)
  <2>1. k \in cloning.level .. 4 /\ k > cloning.level
    BY <1>1, <1>3
  <2>2. /\ cloning.slot[k] \in Slots
        /\ Leads(Table(ram, cloning.old[k])[cloning.slot[k]], cloning.old[k - 1])
    BY <1>1, <1>2, <2>1 DEF CloneFilled, Filling, Slots
  <2>3. PartTables(ram, <<cloning.old[k - 1], k - 1>>) \subseteq Under(ram, <<cloning.old[k], k>>)
    BY <2>2, EntryIsUnder DEF Leads
  <2> QED BY <2>3 DEF PartTables
<1>4. PartTables(ram, <<cloning.old[4], 4>>) = Nodes(ram, pageMap)
  BY <1>1, RootPart
<1>5. cloning.level <= 3 =>
         PartTables(ram, <<cloning.old[3], 3>>) \subseteq Nodes(ram, pageMap)
  BY <1>3, <1>4
<1>6. cloning.level <= 2 =>
         PartTables(ram, <<cloning.old[2], 2>>) \subseteq Nodes(ram, pageMap)
  BY <1>1, <1>3, <1>5
<1>7. l = 4 \/ (l = 3 /\ cloning.level <= 3) \/ (l = 2 /\ cloning.level <= 2)
  BY <1>1
<1>8. PartTables(ram, <<cloning.old[l], l>>) \subseteq Nodes(ram, pageMap)
  BY <1>4, <1>5, <1>6, <1>7
<1> QED BY <1>2, <1>8

\* The parts of a clone are apart from one another and from what it copies.
LEMMA FilledApart ==
  ASSUME TreeInv, ForestInv, ~starved, cloning # NotCloning, NEW l \in cloning.level .. 4
  PROVE  /\ <<cloning.new[l], l>> \in Parts
         /\ cloning.new[l] \notin Under(ram, <<cloning.new[l], l>>)
         /\ PartTables(ram, <<cloning.new[l], l>>) \subseteq held["tables"] \ Nodes(ram, pageMap)
         /\ PartTables(ram, <<cloning.old[l], l>>) \subseteq Nodes(ram, pageMap)
         /\ \A k \in cloning.level .. 4 :
               k # l => PartTables(ram, <<cloning.new[l], l>>)
                           \cap PartTables(ram, <<cloning.new[k], k>>) = {}
<1>1. /\ Forest(ram, Parts, held["tables"]) /\ CloneFilled
      /\ ClonesInto(cloning, held["tables"] \ Nodes(ram, pageMap))
      /\ Parts = {<<c, 4>> : c \in clones \cup {pageMap}} \cup Filled
  BY WhileCloning
<1>2. \A k \in cloning.level .. 4 : <<cloning.new[k], k>> \in Parts
  BY <1>1 DEF Filled
<1>3. <<pageMap, 4>> \in Parts /\ PartTables(ram, <<pageMap, 4>>) = Nodes(ram, pageMap)
  BY <1>1, RootPart
<1>4. cloning.new[l] # pageMap
  <2>1. cloning.new[l] \notin Nodes(ram, pageMap)
    BY <1>1 DEF ClonesInto
  <2> QED BY <2>1 DEF Nodes
<1>5. <<cloning.new[l], l>> # <<pageMap, 4>>
  BY <1>4
<1>6. PartTables(ram, <<cloning.new[l], l>>) \cap Nodes(ram, pageMap) = {}
  BY <1>1, <1>2, <1>3, <1>5 DEF Forest
<1>7. ASSUME NEW k \in cloning.level .. 4, k # l
      PROVE  PartTables(ram, <<cloning.new[l], l>>)
                 \cap PartTables(ram, <<cloning.new[k], k>>) = {}
  <2>1. <<cloning.new[l], l>> # <<cloning.new[k], k>>
    BY <1>7
  <2> QED BY <1>1, <1>2, <2>1 DEF Forest
<1>8. /\ PartTables(ram, <<cloning.new[l], l>>) \subseteq held["tables"]
      /\ cloning.new[l] \notin Under(ram, <<cloning.new[l], l>>)
  <2> DEFINE x == <<cloning.new[l], l>>
  <2>1. x \in Parts /\ x[1] = cloning.new[l]
    BY <1>2
  <2> HIDE DEF x
  <2>2. PartTables(ram, x) \subseteq held["tables"] /\ x[1] \notin Under(ram, x)
    BY <1>1, <2>1 DEF Forest
  <2> QED BY <2>1, <2>2 DEF x
<1> QED BY <1>1, <1>2, <1>6, <1>7, <1>8, OldInTree

\* A level that the step does not touch.
LEMMA FillingStays ==
  ASSUME NEW r, NEW s, NEW c, NEW d, NEW l \in {2, 3, 4}, Filling(r, c, l),
         d.slot[l] = c.slot[l], d.old[l] = c.old[l], d.new[l] = c.new[l],
         l > d.level => l > c.level /\ d.old[l - 1] = c.old[l - 1],
         BothLeftAlone(r, s, c.old[l], c.new[l], l)
  PROVE  Filling(s, d, l)
<1>1. c.slot[l] \in Nat
  BY Entries DEF Filling
<1>2. FilledUpTo(s, c.old[l], c.new[l], c.slot[l], l)
  <2> DEFINE o == c.old[l]
             n == c.new[l]
             i == c.slot[l]
  <2>1. FilledUpTo(r, o, n, i, l) /\ i \in Nat /\ BothLeftAlone(r, s, o, n, l)
    BY <1>1 DEF Filling
  <2> HIDE DEF o, n, i
  <2>2. FilledUpTo(s, o, n, i, l)
    BY <2>1, FilledStays
  <2> QED BY <2>2 DEF o, n, i
<1>3. Table(s, c.old[l]) = Table(r, c.old[l])
  BY DEF PartTables, LeftAlone, BothLeftAlone
<1> QED BY <1>2, <1>3 DEF Filling

\* A page granted to the running clone: nobody's table, and not written yet.
LEMMA CloneGrant ==
  ASSUME TreeInv, ForestInv, DataInv, ~starved, pc = "running", UNCHANGED <<pc, starved>>,
         NEW f, f = request_page(mem).frame,
         Grant("tables", request_page(mem), 1)
  PROVE  /\ tables' = tables /\ Known' = Known
         /\ ~panicked' => ~panicked /\ f # nullptr
         /\ f = nullptr => held' = held
         /\ f # nullptr => /\ f \notin held["tables"] \cup Known
                           /\ held'["tables"] = held["tables"] \cup {f}
                           /\ Table(ram, f) = Leftover
<1>1. KInv /\ phase = "ready"
  BY WhileReady
<1>2. tables' = tables /\ Known' = Known
  BY DEF Grant, Known
<1>3. ~panicked' => ~panicked
  BY GrantPanics
<1>4. ASSUME ~panicked'
      PROVE  f # nullptr
  <2>1. DataMapped
    BY <1>3, <1>4 DEF DataInv
  <2>2. f \in Nat /\ f >= mem.FirstFreePage /\ mem.FirstFreePage > 0
    BY <1>1, <1>4, <2>1, PageGranted DEF DataMapped
  <2>3. mem.FirstFreePage \in Nat
    BY <1>1 DEF KInv, IInv, TypeOK, PageFramesType
  <2> QED BY <2>2, <2>3 DEF nullptr
<1>5. ASSUME f = nullptr
      PROVE  held' = held
  BY <1>5 DEF Grant
<1>6. ASSUME f # nullptr
      PROVE  /\ f \notin held["tables"] \cup Known
             /\ held'["tables"] = held["tables"] \cup {f}
             /\ Table(ram, f) = Leftover
  <2>1. /\ f \notin held["tables"] \cup Known
        /\ held'["tables"] = held["tables"] \cup {f}
    BY <1>1, <1>6, FreshTable DEF Known
  <2>2. DOMAIN ram \subseteq Known \cup held["tables"]
    BY WhileForest
  <2> QED BY <2>1, <2>2 DEF Table
<1> QED BY <1>2, <1>3, <1>4, <1>5, <1>6

\* No page for a table: what has been made of the clone is forgotten.
LEMMA CloneForgotten ==
  ASSUME TreeInv, ForestInv, ~starved, pc = "running", UNCHANGED <<pc, starved, pageMap, clones>>,
         cloning' = NotCloning, UNCHANGED <<ram, tables, held>>, panicked'
  PROVE  ForestInv'
<1>1. /\ DOMAIN ram \subseteq Known \cup held["tables"]
      /\ Forest(ram, Parts, held["tables"])
  BY WhileForest
<1>2. Parts' \subseteq Parts
  BY DEF Parts
<1>3. Forest(ram, Parts', held["tables"])
  BY <1>1, <1>2 DEF Forest
<1>4. (DOMAIN ram \subseteq Known \cup held["tables"])'
  BY <1>1 DEF Known
<1> QED BY <1>3, <1>4 DEF ForestInv

\* What is still to be shown of a step of a clone.
LEMMA CloneForest ==
  ASSUME pc' = "running",
         DOMAIN ram' \subseteq Known' \cup held'["tables"],
         Forest(ram', Parts', held'["tables"]),
         cloning' # NotCloning => CloneFilled',
         ~panicked' => Whole(ram', Parts', held'["tables"])
  PROVE  ForestInv'
BY DEF ForestInv

LEMMA CloneBegunForest ==
  ASSUME TreeInv, ForestInv, DataInv, ~starved, clone_active_page_map
  PROVE  ForestInv'
<1> DEFINE f == request_page(mem).frame
           z == <<f, 4>>
<1>1. /\ pc = "running" /\ cloning = NotCloning
      /\ Grant("tables", request_page(mem), 1)
      /\ UNCHANGED <<pc, starved, pageMap, clones>>
      /\ IF f = nullptr
         THEN UNCHANGED <<ram, cloning>>
         ELSE /\ ram' = Clear(ram, f)
              /\ cloning' = [NotCloning EXCEPT !.level = 4, !.old[4] = active,
                                               !.new[4] = f]
  BY DEF clone_active_page_map, Idle, At, CloneUnchanged
<1>2. /\ tables' = tables /\ Known' = Known
      /\ ~panicked' => ~panicked /\ f # nullptr
      /\ f = nullptr => held' = held
      /\ f # nullptr => /\ f \notin held["tables"] \cup Known
                        /\ held'["tables"] = held["tables"] \cup {f}
  BY <1>1, CloneGrant
<1> HIDE DEF f
<1>3. CASE f = nullptr
  BY <1>1, <1>2, <1>3, CloneForgotten
<1>4. CASE f # nullptr
  <2>1. /\ DOMAIN ram \subseteq Known \cup held["tables"]
        /\ Forest(ram, Parts, held["tables"])
        /\ ~panicked => Whole(ram, Parts, held["tables"])
    BY <1>1, WhileForest
  <2>2. /\ active = pageMap
        /\ cloning' = [level |-> 4, old |-> [NoTables EXCEPT ![4] = pageMap],
                       new |-> [NoTables EXCEPT ![4] = f], slot |-> NoTables]
    BY <1>1, <1>4 DEF NotCloning, TreeInv, Places, Switched
  <2>3. /\ [NoTables EXCEPT ![4] = f][4] = f
        /\ [NoTables EXCEPT ![4] = pageMap][4] = pageMap
        /\ DOMAIN [NoTables EXCEPT ![4] = pageMap] = 2 .. 4
        /\ NoTables[4] = 0 /\ DOMAIN NoTables = 2 .. 4
    BY DEF NoTables
  <2>4. cloning' # NotCloning
    BY <2>2 DEF NotCloning
  <2>5. Filled' = {z}
    <3>1. Filled' = {<<cloning'.new[l], l>> : l \in 4 .. 4}
      BY <2>2 DEF Filled
    <3>2. 4 .. 4 = {4} /\ cloning'.new[4] = f
      BY <2>2, <2>3
    <3> QED BY <3>1, <3>2
  <2>6. Parts = {<<c, 4>> : c \in clones \cup {pageMap}} /\ Parts' = Parts \cup {z}
    BY <1>1, <2>4, <2>5 DEF Parts
  <2>7. \A x \in Parts : x[1] \in held["tables"] /\ x[2] \in {2, 3, 4}
    BY <2>1, <2>6 DEF Forest, PartTables
  <2>8. z \notin Parts
    BY <1>2, <1>4, <2>7
  <2>9. /\ Table(ram', f) = Empty
        /\ \A t \in held["tables"] : Table(ram', t) = Table(ram, t)
    BY <1>1, <1>2, <1>4, PutTable DEF Clear
  <2>10. Under(ram', z) = {} /\ PartTables(ram', z) = {f}
    BY <2>9, EmptyPart
  <2>11. OnePartChanges(ram, ram', Parts, Parts', {}, z, held["tables"], {f})
    BY <1>2, <1>4, <2>6, <2>7, <2>8, <2>9, <2>10 DEF OnePartChanges
  <2>12. /\ Forest(ram', Parts', held'["tables"])
         /\ ~panicked' => Whole(ram', Parts', held'["tables"])
    BY <1>2, <1>4, <2>1, <2>11, ForestStep
  <2>13. DOMAIN ram' \subseteq Known' \cup held'["tables"]
    BY <1>1, <1>2, <1>4, <2>1 DEF Clear, Put
  <2>14. FilledUpTo(ram', pageMap, f, 0, 4)
    <3>1. \A i \in Slots : i >= 0 /\ ~(i < 0)
      BY Entries
    <3> QED BY <2>9, <3>1 DEF FilledUpTo, Empty, Absent
  <2>15. CloneFilled'
    <3>1. Filling(ram', cloning', 4)
      BY <2>2, <2>3, <2>14, Entries DEF Filling
    <3> QED BY <1>1, <2>2, <2>3, <3>1 DEF CloneFilled
  <2> QED BY <1>1, <2>12, <2>13, <2>15, CloneForest
<1> QED BY <1>3, <1>4

LEMMA EmptyFilled ==
  ASSUME NEW r, NEW old, NEW new, NEW l, Table(r, new) = Empty
  PROVE  FilledUpTo(r, old, new, 0, l)
<1>1. \A i \in Slots : i >= 0 /\ ~(i < 0)
  BY Entries
<1> QED BY <1>1 DEF FilledUpTo, Empty, Absent

LEMMA NothingWritten ==
  ASSUME NEW r, NEW old, NEW new, NEW l
  PROVE  BothLeftAlone(r, r, old, new, l)
BY DEF BothLeftAlone, LeftAlone

\* The entry that CloneTable works on: those between the last one and it are
\* absent.
LEMMA NextEntry ==
  ASSUME CloneFilled, ToCopy # {}, NEW i, i = Min(ToCopy)
  PROVE  /\ cloning.level \in {2, 3, 4}
         /\ i \in Slots /\ i \in Nat /\ i < EntriesPerTable
         /\ Table(ram, cloning.old[cloning.level])[i].present
         /\ FilledUpTo(ram, cloning.old[cloning.level], cloning.new[cloning.level], i,
                       cloning.level)
<1> DEFINE l == cloning.level
<1>1. /\ l \in {2, 3, 4} /\ EntriesPerTable \in Nat
      /\ Filling(ram, cloning, l)
  BY Entries DEF CloneFilled
<1>2. /\ cloning.slot[l] \in Nat
      /\ FilledUpTo(ram, cloning.old[l], cloning.new[l], cloning.slot[l], l)
  BY <1>1 DEF Filling
<1>3. ToCopy \in SUBSET Nat
  BY <1>1, <1>2 DEF ToCopy
<1>4. i \in ToCopy /\ \A j \in ToCopy : i <= j
  BY <1>3, MinIsLeast
<1>5. /\ i \in Slots /\ i \in Nat /\ i < EntriesPerTable /\ cloning.slot[l] <= i
      /\ Table(ram, cloning.old[l])[i].present
  <2>1. /\ i \in cloning.slot[l] .. EntriesPerTable - 1
        /\ Table(ram, cloning.old[l])[i].present
    BY <1>4 DEF ToCopy, OldTable
  <2>2. i \in Nat /\ cloning.slot[l] <= i /\ i <= EntriesPerTable - 1
    <3> DEFINE from == cloning.slot[l]
    <3>1. from \in Nat /\ EntriesPerTable \in Nat /\ i \in from .. EntriesPerTable - 1
      BY <1>1, <1>2, <2>1
    <3> HIDE DEF from
    <3>2. i \in Nat /\ from <= i /\ i <= EntriesPerTable - 1
      BY <3>1
    <3> QED BY <3>2 DEF from
  <2>3. i \in Slots /\ i < EntriesPerTable
    BY <1>1, <2>2 DEF Slots
  <2> QED BY <2>1, <2>2, <2>3
<1>6. ASSUME NEW j \in Slots, cloning.slot[l] <= j, j < i
      PROVE  ~Table(ram, cloning.old[l])[j].present
  <2>1. j \in Nat /\ j <= EntriesPerTable - 1
    BY <1>1 DEF Slots
  <2>2. j \in cloning.slot[l] .. EntriesPerTable - 1
    BY <1>1, <1>2, <1>6, <2>1
  <2>3. j \notin ToCopy
    BY <1>4, <1>5, <1>6, <2>1
  <2> QED BY <2>2, <2>3 DEF ToCopy, OldTable
<1>7. FilledUpTo(ram, cloning.old[l], cloning.new[l], i, l)
  <2> DEFINE old == cloning.old[l]
             new == cloning.new[l]
             slot == cloning.slot[l]
  <2>1. /\ FilledUpTo(ram, old, new, slot, l) /\ slot \in Nat /\ slot <= i
        /\ \A j \in Slots : slot <= j /\ j < i => ~Table(ram, old)[j].present
    BY <1>2, <1>5, <1>6
  <2> HIDE DEF old, new, slot, l
  <2>2. FilledUpTo(ram, old, new, i, l)
    BY <1>5, <2>1, AbsentAreFilled
  <2> QED BY <2>2 DEF old, new, slot
<1> QED BY <1>1, <1>5, <1>7

\* What CloneTable does, by its cases.
LEMMA CloneTableCases ==
  ASSUME TreeInv, CloneTable
  PROVE  /\ cloning # NotCloning /\ pc = "running"
         /\ Grant("tables", request_page(mem), 1)
         /\ UNCHANGED <<pc, starved, pageMap, clones>>
         /\ ToCopy # {} /\ cloning.level > 1
         /\ LET i == Min(ToCopy)
                old == OldTable[i].frame
                f == request_page(mem).frame
            IN /\ f = nullptr => cloning' = NotCloning /\ UNCHANGED ram
               /\ f # nullptr /\ cloning.level = 2 =>
                    /\ ram' = Write(Put(ram, f, Table(ram, old)), cloning.new[2], i, To(f))
                    /\ cloning' = [cloning EXCEPT !.slot[2] = i + 1]
               /\ f # nullptr /\ cloning.level > 2 =>
                    /\ cloning' = Descended(cloning.level, i, old, f)
                    /\ UNCHANGED ram
<1>1. cloning.level > 1
  BY DEF CloneTable
<1>2. cloning # NotCloning
  BY <1>1, LevelOfNoMapping
<1>3. pc = "running"
  BY <1>2 DEF TreeInv, KInv, InOrder
<1>4. /\ Grant("tables", request_page(mem), 1) /\ ToCopy # {}
      /\ UNCHANGED <<pc, starved, pageMap, clones>>
  BY DEF CloneTable, CloneUnchanged
<1> DEFINE i == Min(ToCopy)
           old == OldTable[i].frame
           f == request_page(mem).frame
<1>5. /\ ToCopy # {}
      /\ CASE f = nullptr -> cloning' = NotCloning /\ UNCHANGED ram
           [] f # nullptr /\ cloning.level = 2 ->
                /\ ram' = Write(Put(ram, f, Table(ram, old)), cloning.new[2], i, To(f))
                /\ cloning' = [cloning EXCEPT !.slot[2] = i + 1]
           [] f # nullptr /\ cloning.level > 2 ->
                /\ cloning' = Descended(cloning.level, i, old, f)
                /\ UNCHANGED ram
  BY DEF CloneTable
<1> HIDE DEF i, old, f
<1>6. cloning.level > 2 => cloning.level # 2
  OBVIOUS
<1>7. f = nullptr => cloning' = NotCloning /\ UNCHANGED ram
  BY <1>5
<1>8. f # nullptr /\ cloning.level = 2 =>
         /\ ram' = Write(Put(ram, f, Table(ram, old)), cloning.new[2], i, To(f))
         /\ cloning' = [cloning EXCEPT !.slot[2] = i + 1]
  BY <1>5
<1>9. f # nullptr /\ cloning.level > 2 =>
         cloning' = Descended(cloning.level, i, old, f) /\ UNCHANGED ram
  BY <1>5, <1>6, Zenon
<1> QED BY <1>1, <1>2, <1>3, <1>4, <1>7, <1>8, <1>9 DEF i, old, f

\* The components of a clone that is being filled.
LEMMA CloneRecord ==
  ASSUME TreeInv, ForestInv, ~starved, cloning # NotCloning
  PROVE  \E l, o, n, s :
             /\ cloning = [level |-> l, old |-> o, new |-> n, slot |-> s]
             /\ l \in {2, 3, 4} /\ DOMAIN o = 2 .. 4 /\ DOMAIN n = 2 .. 4 /\ DOMAIN s = 2 .. 4
BY WhileCloning DEF ClonesInto, CloneFilled

\* CloneTable above the last level: the loop goes on in a new table, which is
\* not cleared.
LEMMA CloneDescends ==
  ASSUME Leftover = Empty, TreeInv, ForestInv, DataInv, ~starved, CloneTable,
         cloning.level > 2, request_page(mem).frame # nullptr
  PROVE  ForestInv'
<1> DEFINE i == Min(ToCopy)
           old == OldTable[i].frame
           f == request_page(mem).frame
<1>1. /\ cloning # NotCloning /\ pc = "running" /\ ToCopy # {}
      /\ Grant("tables", request_page(mem), 1)
      /\ UNCHANGED <<ram, pc, starved, pageMap, clones>>
      /\ cloning' = Descended(cloning.level, i, old, f)
  BY CloneTableCases
<1>2. /\ tables' = tables /\ Known' = Known
      /\ ~panicked' => ~panicked
      /\ f \notin held["tables"] \cup Known
      /\ held'["tables"] = held["tables"] \cup {f}
      /\ Table(ram, f) = Empty
  BY <1>1, CloneGrant
<1>3. /\ DOMAIN ram \subseteq Known \cup held["tables"]
      /\ Forest(ram, Parts, held["tables"]) /\ CloneFilled
      /\ ~panicked => Whole(ram, Parts, held["tables"])
      /\ Parts = {<<c, 4>> : c \in clones \cup {pageMap}} \cup Filled
  BY <1>1, WhileCloning
<1>4. PICK l, o, n, s :
          /\ cloning = [level |-> l, old |-> o, new |-> n, slot |-> s]
          /\ l \in {2, 3, 4} /\ DOMAIN o = 2 .. 4 /\ DOMAIN n = 2 .. 4 /\ DOMAIN s = 2 .. 4
  BY <1>1, CloneRecord
<1>5. cloning.level = l /\ cloning.old = o /\ cloning.new = n /\ cloning.slot = s
  BY <1>4
<1>6. l \in {3, 4}
  BY <1>4, <1>5
<1>7. /\ i \in Slots /\ i \in Nat /\ i < EntriesPerTable
      /\ Table(ram, o[l])[i].present /\ old = Table(ram, o[l])[i].frame
      /\ FilledUpTo(ram, o[l], n[l], i, l)
  BY <1>1, <1>3, <1>5, NextEntry DEF OldTable
<1> HIDE DEF i, old, f
<1> DEFINE oo == [o EXCEPT ![l - 1] = old]
           nn == [n EXCEPT ![l - 1] = f]
           ss == [s EXCEPT ![l] = i, ![l - 1] = 0]
           z == <<f, l - 1>>
<1>8. cloning' = [level |-> l - 1, old |-> oo, new |-> nn, slot |-> ss]
  BY <1>1, <1>5 DEF Descended
<1>9. /\ oo[l - 1] = old /\ nn[l - 1] = f /\ ss[l - 1] = 0 /\ ss[l] = i
      /\ DOMAIN oo = 2 .. 4 /\ DOMAIN ss = 2 .. 4
      /\ \A k \in l .. 4 : oo[k] = o[k] /\ nn[k] = n[k]
      /\ \A k \in l + 1 .. 4 : ss[k] = s[k]
      /\ oo[4] = o[4]
  BY <1>4, <1>6
<1>10. /\ cloning'.level = l - 1 /\ cloning'.old = oo /\ cloning'.new = nn
       /\ cloning'.slot = ss
  BY <1>8
<1> HIDE DEF oo, nn, ss
<1>11. cloning' # NotCloning
  BY <1>6, <1>10 DEF NotCloning
<1>12. Filled' = Filled \cup {z}
  <2>1. Filled = {<<n[k], k>> : k \in l .. 4}
    BY <1>5 DEF Filled
  <2>2. Filled' = {<<nn[k], k>> : k \in l - 1 .. 4}
    BY <1>10 DEF Filled
  <2>3. l - 1 .. 4 = {l - 1} \cup (l .. 4)
    BY <1>6
  <2> QED BY <1>9, <2>1, <2>2, <2>3
<1>13. Parts' = Parts \cup {z}
  BY <1>1, <1>3, <1>11, <1>12 DEF Parts
<1>14. z[1] = f
  OBVIOUS
<1>15. \A x \in Parts : x[1] \in held["tables"] /\ x[2] \in {2, 3, 4}
  <2>1. \A x \in Parts : x[1] \in held["tables"]
    BY <1>3 DEF Forest, PartTables
  <2>2. \A x \in Filled : x[2] \in {2, 3, 4}
    BY <1>4, <1>5 DEF Filled
  <2> QED BY <1>3, <2>1, <2>2
<1>16. z \notin Parts
  BY <1>2, <1>14, <1>15
<1>17. Under(ram, z) = {} /\ PartTables(ram, z) = {f}
  BY <1>2, EmptyPart
<1> HIDE DEF z
<1>18. OnePartChanges(ram, ram', Parts, Parts', {}, z, held["tables"], {f})
  BY <1>1, <1>2, <1>13, <1>14, <1>15, <1>16, <1>17 DEF OnePartChanges
<1>19. /\ Forest(ram', Parts', held'["tables"])
       /\ ~panicked' => Whole(ram', Parts', held'["tables"])
  BY <1>2, <1>3, <1>18, ForestStep
<1>20. DOMAIN ram' \subseteq Known' \cup held'["tables"]
  BY <1>1, <1>2, <1>3
<1>21. Filling(ram, cloning', l - 1)
  <2>1. FilledUpTo(ram, old, f, 0, l - 1)
    BY <1>2, EmptyFilled
  <2> QED BY <1>6, <1>9, <1>10, <2>1, Entries DEF Filling
<1>22. Filling(ram, cloning', l)
  <2>1. Leads(Table(ram, oo[l])[ss[l]], oo[l - 1])
    BY <1>6, <1>7, <1>9 DEF Leads
  <2>2. ss[l] \in 0 .. EntriesPerTable /\ ss[l] < EntriesPerTable
    BY <1>7, <1>9, Entries
  <2>3. FilledUpTo(ram, oo[l], nn[l], ss[l], l)
    BY <1>6, <1>7, <1>9
  <2> QED BY <1>10, <2>1, <2>2, <2>3 DEF Filling
<1>23. ASSUME NEW k \in l + 1 .. 4
       PROVE  Filling(ram, cloning', k)
  <2>1. k \in {2, 3, 4} /\ k \in l .. 4 /\ k - 1 \in l .. 4 /\ k > l
    BY <1>6, <1>23
  <2>2. Filling(ram, cloning, k)
    BY <1>3, <1>5, <2>1 DEF CloneFilled
  <2>3. ss[k] = s[k] /\ oo[k] = o[k] /\ nn[k] = n[k] /\ oo[k - 1] = o[k - 1]
    BY <1>9, <1>23, <2>1
  <2>4. BothLeftAlone(ram, ram, cloning.old[k], cloning.new[k], k)
    BY NothingWritten
  <2> QED BY <1>5, <1>10, <2>1, <2>2, <2>3, <2>4, FillingStays
<1>24. CloneFilled'
  <2>1. \A k \in l - 1 .. 4 : k = l - 1 \/ k = l \/ k \in l + 1 .. 4
    BY <1>6
  <2>2. \A k \in cloning'.level .. 4 : Filling(ram', cloning', k)
    BY <1>1, <1>10, <1>21, <1>22, <1>23, <2>1
  <2>3. cloning'.level \in {2, 3, 4} /\ cloning'.old[4] = pageMap'
    BY <1>1, <1>3, <1>5, <1>6, <1>9, <1>10 DEF CloneFilled
  <2> QED BY <1>9, <1>10, <2>2, <2>3 DEF CloneFilled
<1> QED BY <1>1, <1>19, <1>20, <1>24, CloneForest

\* CloneTable at the last level: a copy of the table, entered at once.
LEMMA CloneCopies ==
  ASSUME TreeInv, ForestInv, DataInv, ~starved, CloneTable,
         cloning.level = 2, request_page(mem).frame # nullptr
  PROVE  ForestInv'
<1> DEFINE i == Min(ToCopy)
           old == OldTable[i].frame
           f == request_page(mem).frame
<1>1. /\ cloning # NotCloning /\ pc = "running" /\ ToCopy # {}
      /\ Grant("tables", request_page(mem), 1)
      /\ UNCHANGED <<pc, starved, pageMap, clones>>
      /\ ram' = Write(Put(ram, f, Table(ram, old)), cloning.new[2], i, To(f))
      /\ cloning' = [cloning EXCEPT !.slot[2] = i + 1]
  BY CloneTableCases
<1>2. /\ tables' = tables /\ Known' = Known
      /\ ~panicked' => ~panicked
      /\ f \notin held["tables"] \cup Known
      /\ held'["tables"] = held["tables"] \cup {f}
  BY <1>1, CloneGrant
<1>3. /\ DOMAIN ram \subseteq Known \cup held["tables"]
      /\ Nodes(ram, pageMap) \subseteq held["tables"]
      /\ Forest(ram, Parts, held["tables"]) /\ CloneFilled
      /\ ~panicked => Whole(ram, Parts, held["tables"])
      /\ Parts = {<<c, 4>> : c \in clones \cup {pageMap}} \cup Filled
  BY <1>1, WhileCloning
<1>4. PICK l, o, n, s :
          /\ cloning = [level |-> l, old |-> o, new |-> n, slot |-> s]
          /\ l \in {2, 3, 4} /\ DOMAIN o = 2 .. 4 /\ DOMAIN n = 2 .. 4 /\ DOMAIN s = 2 .. 4
  BY <1>1, CloneRecord
<1>5. cloning.level = 2 /\ cloning.old = o /\ cloning.new = n /\ cloning.slot = s /\ l = 2
  BY <1>4
<1>6. /\ i \in Slots /\ i \in Nat /\ i < EntriesPerTable
      /\ Table(ram, o[2])[i].present /\ old = Table(ram, o[2])[i].frame
      /\ FilledUpTo(ram, o[2], n[2], i, 2)
  BY <1>1, <1>3, <1>5, NextEntry DEF OldTable
<1> HIDE DEF i, old, f
<1> DEFINE ss == [s EXCEPT ![2] = i + 1]
           z == <<n[2], 2>>
<1>7. cloning' = [level |-> 2, old |-> o, new |-> n, slot |-> ss]
  BY <1>1, <1>4, <1>5
<1>8. /\ ss[2] = i + 1 /\ ss[3] = s[3] /\ ss[4] = s[4] /\ DOMAIN ss = 2 .. 4
  BY <1>4
<1>9. cloning'.level = 2 /\ cloning'.old = o /\ cloning'.new = n /\ cloning'.slot = ss
  BY <1>7
<1> HIDE DEF ss
<1>10. cloning' # NotCloning
  BY <1>9 DEF NotCloning
<1>11. Filled' = Filled /\ Parts' = Parts
  <2>1. Filled' = Filled
    BY <1>5, <1>9 DEF Filled
  <2> QED BY <1>1, <1>10, <2>1 DEF Parts
<1>12. 2 \in cloning.level .. 4 /\ 3 \in cloning.level .. 4 /\ 4 \in cloning.level .. 4
  BY <1>5
<1>13. /\ z \in Parts /\ n[2] \notin Under(ram, z)
       /\ PartTables(ram, z) \subseteq held["tables"] \ Nodes(ram, pageMap)
       /\ PartTables(ram, <<o[2], 2>>) \subseteq Nodes(ram, pageMap)
  BY <1>1, <1>5, <1>12, FilledApart
<1>14. /\ n[2] \in PartTables(ram, z) /\ o[2] \in PartTables(ram, <<o[2], 2>>)
       /\ old \in PartTables(ram, <<o[2], 2>>)
  <2>1. Table(ram, o[2])[i].frame \in PartTables(ram, <<Table(ram, o[2])[i].frame, 2 - 1>>)
    BY DEF PartTables
  <2>2. PartTables(ram, <<Table(ram, o[2])[i].frame, 2 - 1>>) \subseteq Under(ram, <<o[2], 2>>)
    BY <1>6, EntryIsUnder
  <2> QED BY <1>6, <2>1, <2>2 DEF PartTables
<1>15. f # n[2] /\ f # old /\ n[2] # old /\ n[2] \in held["tables"]
  BY <1>2, <1>3, <1>13, <1>14
<1>16. /\ Table(ram', f) = Table(ram, old) /\ Table(ram', old) = Table(ram, old)
       /\ Table(ram', n[2]) = [Table(ram, n[2]) EXCEPT ![i] = To(f)]
       /\ \A t : t # f /\ t # n[2] => Table(ram', t) = Table(ram, t)
  BY <1>1, <1>5, <1>15, PutTable, WriteTable
<1>17. /\ PartTables(ram', z) = PartTables(ram, z) \cup {f}
       /\ n[2] \notin Under(ram', z)
  <2>1. DOMAIN Table(ram, n[2]) = Slots /\ ~Table(ram, n[2])[i].present
    BY <1>6 DEF FilledUpTo
  <2> QED BY <1>6, <1>13, <1>15, <1>16, <2>1, CopyEntered
<1>18. /\ z[1] = n[2]
       /\ \A x \in Parts : x[2] \in {2, 3, 4}
  <2>1. \A x \in Filled : x[2] \in {2, 3, 4}
    BY <1>5 DEF Filled
  <2> QED BY <1>3, <2>1
<1> HIDE DEF z
<1>19. OnePartChanges(ram, ram', Parts, Parts', {z}, z, held["tables"], {f})
  BY <1>2, <1>11, <1>13, <1>14, <1>16, <1>17, <1>18 DEF OnePartChanges
<1>20. /\ Forest(ram', Parts', held'["tables"])
       /\ ~panicked' => Whole(ram', Parts', held'["tables"])
  BY <1>2, <1>3, <1>19, ForestStep
<1>21. DOMAIN ram' \subseteq Known' \cup held'["tables"]
  BY <1>1, <1>2, <1>3, <1>5, <1>15 DEF Write, Put
<1>22. Filling(ram', cloning', 2)
  <2>1. BelowLeftAlone(ram, ram', o[2], n[2], 2)
    <3>1. Under(ram, z) \subseteq PartTables(ram, z)
      BY DEF PartTables
    <3>2. \A t \in PartTables(ram, <<o[2], 2>>) \cup Under(ram, z) : t # f /\ t # n[2]
      BY <1>2, <1>3, <1>13, <1>14, <3>1
    <3> QED BY <1>16, <3>2 DEF BelowLeftAlone, LeftAlone, z
  <2>2. EntryAlike(ram', Table(ram, o[2])[i], To(f), 2)
    <3>1. Alike1(ram', old, f)
      BY <1>16 DEF Alike1
    <3> QED BY <1>6, <3>1 DEF EntryAlike, To
  <2>3. FilledUpTo(ram', o[2], n[2], i + 1, 2)
    <3> DEFINE u == o[2]
               v == n[2]
    <3>1. /\ FilledUpTo(ram, u, v, i, 2)
          /\ Table(ram', v) = [Table(ram, v) EXCEPT ![i] = To(f)]
          /\ BelowLeftAlone(ram, ram', u, v, 2)
          /\ EntryAlike(ram', Table(ram, u)[i], To(f), 2)
      BY <1>6, <1>16, <2>1, <2>2
    <3> HIDE DEF u, v
    <3>2. FilledUpTo(ram', u, v, i + 1, 2)
      BY <1>6, <3>1, EntryFilled
    <3> QED BY <3>2 DEF u, v
  <2>4. i + 1 \in 0 .. EntriesPerTable
    BY <1>6, Entries
  <2> QED BY <1>8, <1>9, <2>3, <2>4 DEF Filling
<1>23. ASSUME NEW k \in {3, 4}
       PROVE  Filling(ram', cloning', k)
  <2>1. k \in cloning.level .. 4 /\ k > 2 /\ k # 2
    BY <1>5, <1>23
  <2>2. Filling(ram, cloning, k)
    BY <1>3, <2>1 DEF CloneFilled
  <2>3. /\ PartTables(ram, <<n[k], k>>) \cap PartTables(ram, <<n[2], 2>>) = {}
        /\ PartTables(ram, <<n[k], k>>) \subseteq held["tables"]
        /\ PartTables(ram, <<o[k], k>>) \subseteq Nodes(ram, pageMap)
    BY <1>1, <1>5, <1>12, <2>1, FilledApart
  <2>4. BothLeftAlone(ram, ram', o[k], n[k], k)
    <3>1. \A t \in PartTables(ram, <<o[k], k>>) \cup PartTables(ram, <<n[k], k>>) :
             t # f /\ t # n[2]
      BY <1>2, <1>3, <1>13, <1>14, <2>3 DEF z
    <3> QED BY <1>16, <3>1 DEF BothLeftAlone, LeftAlone
  <2>5. /\ cloning'.slot[k] = cloning.slot[k] /\ cloning'.old[k] = cloning.old[k]
        /\ cloning'.new[k] = cloning.new[k] /\ cloning'.old[k - 1] = cloning.old[k - 1]
        /\ k > cloning.level
    BY <1>5, <1>8, <1>9, <1>23, <2>1
  <2>6. BothLeftAlone(ram, ram', cloning.old[k], cloning.new[k], k)
    BY <1>5, <2>4
  <2> QED BY <2>2, <2>5, <2>6, FillingStays
<1>24. CloneFilled'
  <2>1. \A k \in cloning'.level .. 4 : Filling(ram', cloning', k)
    BY <1>9, <1>22, <1>23
  <2>2. cloning'.level \in {2, 3, 4} /\ cloning'.old[4] = pageMap'
    BY <1>1, <1>3, <1>5, <1>9 DEF CloneFilled
  <2> QED BY <1>4, <1>8, <1>9, <2>1, <2>2 DEF CloneFilled
<1> QED BY <1>1, <1>20, <1>21, <1>24, CloneForest

\* What two tables lead to, however deep, is left alone by a write to a third.
LEMMA AlikeUnderWrite ==
  ASSUME NEW r, NEW s, NEW t, NEW u, NEW l \in {2, 3}, BothLeftAlone(r, s, t, u, l),
         l = 2 => Alike2(r, t, u), l = 3 => Alike3(r, t, u)
  PROVE  /\ l = 2 => Alike2(s, t, u)
         /\ l = 3 => Alike3(s, t, u)
BY AlikeStays DEF BothLeftAlone, LeftAlone

\* CloneEntered: the finished part becomes one with that of its parent.
LEMMA CloneEnteredForest ==
  ASSUME TreeInv, ForestInv, ~starved, CloneEntered
  PROVE  ForestInv'
<1>1. /\ cloning.level \in {2, 3} /\ ToCopy = {}
      /\ UNCHANGED <<vars, pc, starved, pageMap, clones>>
  BY DEF CloneEntered, CloneUnchanged
<1>2. cloning # NotCloning
  BY <1>1, LevelOfNoMapping
<1>3. /\ pc = "running"
      /\ DOMAIN ram \subseteq Known \cup held["tables"]
      /\ Nodes(ram, pageMap) \subseteq held["tables"]
      /\ Forest(ram, Parts, held["tables"]) /\ CloneFilled
      /\ ~panicked => Whole(ram, Parts, held["tables"])
      /\ Parts = {<<c, 4>> : c \in clones \cup {pageMap}} \cup Filled
  BY <1>2, WhileCloning
<1>4. PICK l, o, n, s :
          /\ cloning = [level |-> l, old |-> o, new |-> n, slot |-> s]
          /\ l \in {2, 3, 4} /\ DOMAIN o = 2 .. 4 /\ DOMAIN n = 2 .. 4 /\ DOMAIN s = 2 .. 4
  BY <1>2, CloneRecord
<1>5. /\ cloning.level = l /\ cloning.old = o /\ cloning.new = n /\ cloning.slot = s
      /\ l \in {2, 3}
  BY <1>1, <1>4
<1> DEFINE p == l + 1
           i == s[p]
           t == n[p]
           u == n[l]
           ss == [s EXCEPT ![p] = i + 1]
           y == <<u, l>>
           z == <<t, p>>
<1>6. /\ ram' = Write(ram, t, i, To(u))
      /\ cloning' = [level |-> p, old |-> o, new |-> n, slot |-> ss]
  BY <1>4, <1>5 DEF CloneEntered
<1>7. /\ ss[p] = i + 1 /\ DOMAIN ss = 2 .. 4
      /\ \A k \in p + 1 .. 4 : ss[k] = s[k]
  BY <1>4, <1>5
<1>8. /\ cloning'.level = p /\ cloning'.old = o /\ cloning'.new = n /\ cloning'.slot = ss
      /\ p \in {3, 4} /\ p - 1 = l
  BY <1>5, <1>6
<1> HIDE DEF ss
<1>9. cloning' # NotCloning
  BY <1>8 DEF NotCloning
<1>10. /\ l \in cloning.level .. 4 /\ p \in cloning.level .. 4 /\ l # p
       /\ p > cloning.level
  BY <1>5
<1>11. /\ y \in Parts
       /\ PartTables(ram, y) \subseteq held["tables"] \ Nodes(ram, pageMap)
       /\ PartTables(ram, <<o[l], l>>) \subseteq Nodes(ram, pageMap)
  BY <1>2, <1>5, <1>10, FilledApart
<1>12. /\ z \in Parts /\ t \notin Under(ram, z)
       /\ PartTables(ram, z) \subseteq held["tables"] \ Nodes(ram, pageMap)
       /\ PartTables(ram, <<o[p], p>>) \subseteq Nodes(ram, pageMap)
       /\ \A k \in cloning.level .. 4 :
             k # p => PartTables(ram, z) \cap PartTables(ram, <<n[k], k>>) = {}
  BY <1>2, <1>5, <1>10, FilledApart
<1>13. PartTables(ram, z) \cap PartTables(ram, y) = {}
  BY <1>10, <1>12
<1>14. t \in PartTables(ram, z) /\ u \in PartTables(ram, y)
  BY DEF PartTables
<1>15. t \in held["tables"] /\ t \notin Nodes(ram, pageMap) /\ t \notin PartTables(ram, y)
  BY <1>12, <1>13, <1>14
<1>16. /\ Table(ram', t) = [Table(ram, t) EXCEPT ![i] = To(u)]
       /\ \A g : g # t => Table(ram', g) = Table(ram, g)
  BY <1>6, WriteTable
<1>17. /\ Filling(ram, cloning, l) /\ Filling(ram, cloning, p)
  BY <1>3, <1>10 DEF CloneFilled
<1>18. /\ i \in Slots /\ i \in Nat /\ i < EntriesPerTable
       /\ Leads(Table(ram, o[p])[i], o[l])
       /\ FilledUpTo(ram, o[p], t, i, p)
  BY <1>5, <1>8, <1>10, <1>17, Entries DEF Filling, Slots
<1>19. DOMAIN Table(ram, t) = Slots /\ ~Table(ram, t)[i].present
  BY <1>18 DEF FilledUpTo
<1>20. /\ PartTables(ram', z) = PartTables(ram, z) \cup PartTables(ram, y)
       /\ t \notin Under(ram', z)
  <2> DEFINE q == p
  <2>1. q \in {3, 4} /\ EntersPart(ram, ram', t, i, u, q)
    BY <1>8, <1>12, <1>15, <1>16, <1>19 DEF EntersPart
  <2> HIDE DEF q, t, u, i
  <2>2. PartsJoined(ram, ram', t, u, q)
    BY <1>18, <2>1, PartEntered
  <2> QED BY <1>8, <2>2 DEF q, PartsJoined
<1>21. Parts' = Parts \ {y} /\ y # z
  <2>1. Filled = {<<n[k], k>> : k \in l .. 4} /\ Filled' = {<<n[k], k>> : k \in p .. 4}
    BY <1>5, <1>8 DEF Filled
  <2>2. Filled' = Filled \ {y}
    <3>1. \A k : k \in p .. 4 <=> k \in l .. 4 /\ k # l
      BY <1>5
    <3> QED BY <2>1, <3>1
  <2>3. ASSUME NEW c \in clones \cup {pageMap}
        PROVE  <<c, 4>> # y
    BY <1>5
  <2> QED BY <1>1, <1>3, <1>8, <1>9, <2>2, <2>3 DEF Parts
<1>22. /\ z[1] = t
       /\ \A x \in Parts : x[2] \in {2, 3, 4}
  <2>1. \A x \in Filled : x[2] \in {2, 3, 4}
    BY <1>5 DEF Filled
  <2> QED BY <1>3, <2>1
<1>23. Parts' \ {z} = Parts \ {y, z} /\ z \in Parts'
  BY <1>12, <1>21
<1>24. OnePartChanges(ram, ram', Parts, Parts', {y, z}, z, held["tables"], {})
  <2> HIDE DEF y, z, t, u, i
  <2> QED BY <1>11, <1>12, <1>14, <1>16, <1>20, <1>22, <1>23 DEF OnePartChanges
<1>25. /\ held' = held /\ tables' = tables /\ panicked' = panicked
  BY <1>1 DEF vars
<1>26. /\ Forest(ram', Parts', held'["tables"])
       /\ ~panicked' => Whole(ram', Parts', held'["tables"])
  <2>1. held["tables"] \cup {} = held["tables"]
    OBVIOUS
  <2> HIDE DEF y, z
  <2> QED BY <1>3, <1>24, <1>25, <2>1, ForestStep
<1>27. DOMAIN ram' \subseteq Known' \cup held'["tables"]
  BY <1>3, <1>6, <1>15, <1>25 DEF Write, Put, Known
<1>28. /\ l = 2 => Alike2(ram, o[l], u)
       /\ l = 3 => Alike3(ram, o[l], u)
  <2> DEFINE v == o[l]
             e == s[l]
  <2>1. FilledUpTo(ram, v, u, e, l) /\ e \in Nat
    BY <1>5, <1>17, Entries DEF Filling
  <2>2. ASSUME NEW j \in Slots, e <= j
        PROVE  ~Table(ram, v)[j].present
    <3>1. j \in e .. EntriesPerTable - 1
      BY <2>1, <2>2, Entries DEF Slots
    <3> QED BY <1>1, <1>5, <3>1 DEF ToCopy, OldTable
  <2> HIDE DEF v, e, u
  <2>3. /\ l = 2 => Alike2(ram, v, u)
        /\ l = 3 => Alike3(ram, v, u)
    BY <2>1, <2>2, FilledIsAlike
  <2> QED BY <2>3 DEF v
<1>29. /\ l = 2 => Alike2(ram', o[l], u)
       /\ l = 3 => Alike3(ram', o[l], u)
  <2>1. BothLeftAlone(ram, ram', o[l], u, l)
    BY <1>11, <1>15, <1>16 DEF BothLeftAlone, LeftAlone
  <2> DEFINE v == o[l]
  <2>2. BothLeftAlone(ram, ram', v, u, l)
    BY <2>1
  <2>3. (l = 2 => Alike2(ram, v, u)) /\ (l = 3 => Alike3(ram, v, u))
    BY <1>28
  <2> HIDE DEF v, u
  <2>4. (l = 2 => Alike2(ram', v, u)) /\ (l = 3 => Alike3(ram', v, u))
    BY <1>5, <2>2, <2>3, AlikeUnderWrite
  <2> QED BY <2>4 DEF v
<1>30. EntryAlike(ram', Table(ram, o[p])[i], To(u), p)
  <2> DEFINE d == Table(ram, o[p])[i]
             q == p
  <2>1. d.present /\ d.frame = o[l] /\ To(u).present /\ To(u).frame = u
    BY <1>18 DEF Leads, To
  <2>2. (q = 3 => Alike2(ram', o[l], u)) /\ (q = 4 => Alike3(ram', o[l], u))
    BY <1>5, <1>29
  <2>3. q \in {3, 4}
    BY <1>8
  <2> HIDE DEF d, q, u, i
  <2>4. q = 3 => EntryAlike(ram', d, To(u), q)
    BY <2>1, <2>2 DEF EntryAlike
  <2>5. q = 4 => EntryAlike(ram', d, To(u), q)
    BY <2>1, <2>2 DEF EntryAlike
  <2> QED BY <2>3, <2>4, <2>5 DEF d, q
<1>31. Filling(ram', cloning', p)
  <2>1. BelowLeftAlone(ram, ram', o[p], t, p)
    BY <1>12, <1>15, <1>16 DEF BelowLeftAlone, LeftAlone
  <2>2. FilledUpTo(ram', o[p], t, i + 1, p)
    <3> DEFINE v == o[p]
               q == p
    <3>1. /\ FilledUpTo(ram, v, t, i, q)
          /\ BelowLeftAlone(ram, ram', v, t, q)
          /\ EntryAlike(ram', Table(ram, v)[i], To(u), q)
          /\ q \in {2, 3, 4}
      BY <1>8, <1>18, <1>30, <2>1
    <3> HIDE DEF v, q, t, u, i
    <3>2. FilledUpTo(ram', v, t, i + 1, q)
      BY <1>16, <1>18, <3>1, EntryFilled
    <3> QED BY <3>2 DEF v, q
  <2>3. i + 1 \in 0 .. EntriesPerTable
    BY <1>18, Entries
  <2> QED BY <1>7, <1>8, <2>2, <2>3 DEF Filling
<1>32. ASSUME NEW k \in p + 1 .. 4
       PROVE  Filling(ram', cloning', k)
  <2>1. /\ k \in {2, 3, 4} /\ k \in cloning.level .. 4 /\ k # p /\ k > cloning.level
        /\ cloning'.slot[k] = cloning.slot[k] /\ cloning'.old[k] = cloning.old[k]
        /\ cloning'.new[k] = cloning.new[k] /\ cloning'.old[k - 1] = cloning.old[k - 1]
    BY <1>5, <1>7, <1>8, <1>32
  <2>2. Filling(ram, cloning, k)
    BY <1>3, <2>1 DEF CloneFilled
  <2>3. PartTables(ram, <<cloning.old[k], k>>) \subseteq Nodes(ram, pageMap)
    BY <1>2, <2>1, FilledApart
  <2>4. t \notin PartTables(ram, <<cloning.new[k], k>>)
    BY <1>5, <1>12, <1>14, <2>1
  <2>5. BothLeftAlone(ram, ram', cloning.old[k], cloning.new[k], k)
    BY <1>15, <1>16, <2>3, <2>4 DEF BothLeftAlone, LeftAlone
  <2> QED BY <2>1, <2>2, <2>5, FillingStays
<1>33. CloneFilled'
  <2>1. \A k \in p .. 4 : k = p \/ k \in p + 1 .. 4
    BY <1>8
  <2>2. \A k \in cloning'.level .. 4 : Filling(ram', cloning', k)
    BY <1>8, <1>31, <1>32, <2>1
  <2>3. cloning'.level \in {2, 3, 4} /\ cloning'.old[4] = pageMap'
    BY <1>1, <1>3, <1>5, <1>8 DEF CloneFilled
  <2> QED BY <1>4, <1>7, <1>8, <2>2, <2>3 DEF CloneFilled
<1> QED BY <1>1, <1>3, <1>26, <1>27, <1>33, CloneForest

\* CloneReturns: the part of the clone is a page map of its own.
LEMMA CloneReturnsForest ==
  ASSUME TreeInv, ForestInv, ~starved, CloneReturns
  PROVE  ForestInv'
<1>1. /\ cloning.level = 4
      /\ clones' = clones \cup {cloning.new[4]} /\ cloning' = NotCloning
      /\ UNCHANGED <<vars, ram, pc, starved, pageMap>>
  BY DEF CloneReturns, CloneUnchanged
<1>2. cloning # NotCloning
  BY <1>1, LevelOfNoMapping
<1>3. /\ pc = "running"
      /\ DOMAIN ram \subseteq Known \cup held["tables"]
      /\ Forest(ram, Parts, held["tables"])
      /\ ~panicked => Whole(ram, Parts, held["tables"])
      /\ Parts = {<<c, 4>> : c \in clones \cup {pageMap}} \cup Filled
  BY <1>2, WhileCloning
<1>4. Filled = {<<cloning.new[4], 4>>}
  <2>1. Filled = {<<cloning.new[l], l>> : l \in 4 .. 4}
    BY <1>1 DEF Filled
  <2>2. 4 .. 4 = {4}
    OBVIOUS
  <2> QED BY <2>1, <2>2
<1>5. Parts' = Parts
  <2>1. Parts' = {<<c, 4>> : c \in clones' \cup {pageMap}}
    BY <1>1 DEF Parts
  <2> QED BY <1>1, <1>3, <1>4, <2>1
<1>6. /\ held' = held /\ Known' = Known /\ panicked' = panicked
  BY <1>1 DEF vars, Known
<1> QED BY <1>1, <1>3, <1>5, <1>6, CloneForest

LEMMA CloneStepForest ==
  ASSUME Leftover = Empty, TreeInv, DataInv, ForestInv,
         clone_active_page_map \/ CloneTable \/ CloneEntered \/ CloneReturns
  PROVE  ForestInv'
<1>1. KeepsPageMap
  BY CloneBegunOutside, CloneTableOutside, CloneDoneOutside
<1>2. pc = "running" /\ UNCHANGED <<pc, starved>>
  BY <1>1 DEF KeepsPageMap, CloneUnchanged
<1>3. CASE starved
  BY <1>2, <1>3 DEF ForestInv
<1>4. CASE ~starved /\ clone_active_page_map
  BY <1>4, CloneBegunForest
<1>5. CASE ~starved /\ CloneTable
  <2>1. CASE request_page(mem).frame = nullptr
    <3>1. /\ pc = "running" /\ cloning' = NotCloning
          /\ Grant("tables", request_page(mem), 1)
          /\ UNCHANGED <<ram, pc, starved, pageMap, clones>>
      BY <1>5, <2>1, CloneTableCases
    <3>2. tables' = tables /\ held' = held /\ panicked'
      BY <1>5, <2>1, <3>1, CloneGrant
    <3> QED BY <1>5, <3>1, <3>2, CloneForgotten
  <2>2. CASE request_page(mem).frame # nullptr
    <3>1. cloning.level \in {2, 3, 4}
      <4>1. cloning # NotCloning
        BY <1>5, CloneTableCases
      <4> QED BY <1>5, <4>1, WhileCloning DEF CloneFilled
    <3>2. CASE cloning.level = 2
      BY <1>5, <2>2, <3>2, CloneCopies
    <3>3. CASE cloning.level > 2
      BY <1>5, <2>2, <3>3, CloneDescends
    <3> QED BY <3>1, <3>2, <3>3
  <2> QED BY <2>1, <2>2
<1>6. CASE ~starved /\ CloneEntered
  BY <1>6, CloneEnteredForest
<1>7. CASE ~starved /\ CloneReturns
  BY <1>7, CloneReturnsForest
<1> QED BY <1>3, <1>4, <1>5, <1>6, <1>7

LEMMA ForestNext ==
  ASSUME Leftover = Empty, TreeInv, DataInv, ForestInv, [KNext]_kvars
  PROVE  ForestInv'
<1>1. CASE UNCHANGED kvars
  BY <1>1, ForestUnchanged
<1>2. CASE NewPageMap
  BY <1>2, NewPageMapForest
<1>3. CASE KNext /\ ~NewPageMap /\ pc \in {"init_physical", "lost", "init_virtual"}
  BY <1>3, ForestBefore
<1>4. CASE KNext /\ ~NewPageMap /\ pc \notin {"init_physical", "lost", "init_virtual"}
  <2>1. CASE Scan \/ MapLowMemory \/ SwitchBitmap \/ LoseMachine
    <3>1. phase = "ready"
      BY <1>4, WhileReady
    <3> QED BY <2>1, <3>1 DEF Scan, ScanDescriptor, HaltWithoutSegment, UseInitialBitmap,
                              MapLowMemory, SwitchBitmap, LoseMachine
  <2>2. CASE UnmapNull
    BY <2>2, UnmapNullForest
  <2>3. CASE KStage1 /\ ~(Scan \/ MapLowMemory \/ SwitchBitmap \/ LoseMachine) /\ ~UnmapNull
    <3>1. \/ MapRam \/ MapKernel \/ MapFramebuffer \/ MapTarget
          \/ flush_page_map \/ LockFramebuffer \/ RequestTarget \/ init_heap
      BY <1>4, <2>3 DEF KStage1
    <3> QED BY <1>4, <3>1, ForestAside
  <2>4. CASE map
    BY <1>4, <2>4, ForestAside, MapForest DEF map
  <2>5. CASE Running
    BY <1>4, <2>5, ForestAside, CloneStepForest DEF Running
  <2> QED BY <1>4, <2>1, <2>2, <2>3, <2>4, <2>5 DEF KNext
<1> QED BY <1>1, <1>2, <1>3, <1>4

LEMMA NodesArePageTables ==
  ASSUME NEW r, NEW root
  PROVE  PageTables(r, root) = Nodes(r, root)
BY DEF PageTables, Nodes, Level3, Level2, Level1

(* Every frame that was requested for a page table, by init_virtual, map() *)
(* or clone_active_page_map, is a table of the active page map or of a     *)
(* finished clone, and these have no other tables: while memory lasts none *)
(* is lost and none is left over.                                          *)
THEOREM TablesStayAccounted ==
  ASSUME Leftover = Empty
  PROVE  KSpec => []TablesAccounted
<1>1. KInit => TreeInv /\ DataInv /\ ForestInv
  BY TreeInit, DataInit, ForestInit
<1>2. TreeInv /\ DataInv /\ ForestInv /\ [KNext]_kvars => (TreeInv /\ DataInv /\ ForestInv)'
  BY TreeStep, DataStep, ForestNext
<1>3. TreeInv /\ ForestInv => TablesAccounted
  <2> SUFFICES ASSUME TreeInv, ForestInv, Switched, mapping = NoMapping,
                      cloning = NotCloning, ~panicked, ~starved
               PROVE  held["tables"] = UNION {PageTables(ram, r) : r \in clones \cup {active}}
    BY DEF TablesAccounted
  <2>1. pc \notin {"init_physical", "lost", "init_virtual"} /\ active = pageMap
    BY DEF TreeInv, Places, Switched
  <2>2. /\ Forest(ram, Parts, held["tables"]) /\ Whole(ram, Parts, held["tables"])
        /\ Parts = {<<c, 4>> : c \in clones \cup {pageMap}}
    BY <2>1, WhileForest DEF Parts
  <2>3. \A r : PageTables(ram, r) = PartTables(ram, <<r, 4>>)
    BY NodesArePageTables, RootPart
  <2>4. ASSUME NEW f \in held["tables"]
        PROVE  \E r \in clones \cup {active} : f \in PageTables(ram, r)
    <3>1. PICK x \in Parts : f \in PartTables(ram, x)
      BY <2>2 DEF Whole
    <3> QED BY <2>1, <2>2, <2>3, <3>1
  <2>5. ASSUME NEW r \in clones \cup {active}
        PROVE  PageTables(ram, r) \subseteq held["tables"]
    <3>1. <<r, 4>> \in Parts
      BY <2>1, <2>2
    <3>2. PartTables(ram, <<r, 4>>) \subseteq held["tables"]
      BY <2>2, <3>1 DEF Forest
    <3> QED BY <2>3, <3>2
  <2> QED BY <2>4, <2>5
<1> QED BY <1>1, <1>2, <1>3, PTL DEF KSpec

-----------------------------------------------------------------------------
(***************************************************************************)
(* When there is no memory for a table.                                    *)
(*                                                                         *)
(* Frame 0 then stands for the table.  Either it is the page map: map() is *)
(* given nullptr and returns at once, and the copies of a page map without *)
(* entries are single tables.  Or it is entered in the page map: then no   *)
(* frame is ever granted again, so no clone is begun, and what map() still *)
(* enters leads to frame 0 or to a frame of the heap.  Neither is part of  *)
(* a clone.                                                                *)
(***************************************************************************)
NoneLeft == mem.FirstFreePage >= mem.TotalPages

\* Where map() may lead to, or take a table from, when there are none left.
Stray == {nullptr} \cup held["heap"]

StrayOrAt(r, level, table) ==
    \/ table \in Stray
    \/ level = 4 /\ table = pageMap
    \/ level = 3 /\ table \in Level3(r, pageMap)
    \/ level = 2 /\ table \in Level2(r, pageMap)
    \/ level = 1 /\ table \in Level1(r, pageMap)

\* Every entry leads from S to S.
Closed(r, S) ==
    \A t \in S : \A i \in Slots : Table(r, t)[i].present => Table(r, t)[i].frame \in S

ClonesApart(r) ==
    /\ \A c \in clones :
          /\ Nodes(r, c) \subseteq held["tables"] \ Nodes(r, pageMap)
          /\ \A d \in clones \ {c} : Nodes(r, c) \cap Nodes(r, d) = {}
    /\ Closed(r, Stray)
    /\ \A t \in Nodes(r, pageMap) \cup Stray : DOMAIN Table(r, t) = Slots

ClonesUntouched ==
    /\ ClonesApart(ram)
    /\ mapping # NoMapping => StrayOrAt(ram, mapping.level, mapping.table)

NoMoreTables ==
    /\ NoneLeft
    /\ cloning = NotCloning
    /\ clones # {} => ClonesUntouched

\* The one level of the copy of a page map without entries.
EmptyClone(c) ==
    /\ c.level = 4 /\ c.old[4] = nullptr /\ c.slot[4] = 0
    /\ c.new[4] \in held["tables"] /\ Table(ram, c.new[4]) = Empty

NoPageMap ==
    /\ pageMap = nullptr
    /\ mapping = NoMapping
    /\ ~Switched => OldMap
    /\ DOMAIN ram \subseteq (Known \cup held["tables"]) \ {nullptr}
    /\ \A c \in clones : c \in held["tables"] /\ Table(ram, c) = Empty
    /\ cloning # NotCloning => EmptyClone(cloning)

\* The kernel's map() maps the heap.
HeapOnly ==
    /\ mapping = [root |-> mapping.root, page |-> mapping.page, frame |-> mapping.frame,
                  level |-> mapping.level, table |-> mapping.table]
    /\ mapping.page \in Nat /\ mapping.level \in 1 .. 4 /\ mapping.frame \in Stray

StarvedInv ==
    /\ nullptr \notin held["tables"]
    /\ pc = "running" /\ mapping # NoMapping => HeapOnly
    /\ pc \notin {"init_physical", "lost", "init_virtual"} =>
          IF starved THEN NoMoreTables \/ NoPageMap
          ELSE mem.FirstFreePage > 0 /\ pageMap \notin clones

\* Every step leaves the allocator alone, or is one call of it.
LEMMA Requests ==
  ASSUME TreeInv, [KNext]_kvars, pc \notin {"init_physical", "lost"}
  PROVE  \/ UNCHANGED <<mem, held, tables>>
         \/ LockDevice(FramebufferFrames)
         \/ Grant("tables", request_page(mem), 1)
         \/ Grant("heap", request_page(mem), 1)
         \/ Grant("renderer", request_pages(mem, fbPages), fbPages)
<1>1. phase = "ready"
  BY WhileReady
<1>2. CASE UNCHANGED kvars
  BY <1>2 DEF kvars, vars
<1>3. CASE Scan \/ MapLowMemory \/ SwitchBitmap \/ LoseMachine
  BY <1>1, <1>3 DEF Scan, ScanDescriptor, HaltWithoutSegment, UseInitialBitmap,
                    MapLowMemory, SwitchBitmap, LoseMachine
<1>4. CASE NewPageMap \/ clone_active_page_map \/ CloneTable
  BY <1>4 DEF NewPageMap, clone_active_page_map, CloneTable
<1>5. CASE MapRam \/ MapKernel \/ MapFramebuffer \/ MapTarget
  BY <1>5 DEF MapRam, MapKernel, MapFramebuffer, MapTarget, Loop, MapNext, vars
<1>6. CASE UnmapNull \/ flush_page_map \/ CloneEntered \/ CloneReturns
  BY <1>6 DEF UnmapNull, flush_page_map, CloneEntered, CloneReturns, vars
<1>7. CASE init_heap \/ expand_heap
  BY <1>7 DEF init_heap, expand_heap, HeapPage
<1>8. CASE LockFramebuffer \/ RequestTarget
  BY <1>8 DEF LockFramebuffer, RequestTarget
<1>9. CASE map
  BY <1>1, <1>9 DEF map, MapThroughTable, MapNewTable, MapPage, TakeTable, vars
<1> QED BY <1>2, <1>3, <1>4, <1>5, <1>6, <1>7, <1>8, <1>9 DEF KNext, KStage1, Running

\* The search for free frames never turns back, and null is nobody's table.
LEMMA SearchGoesOn ==
  ASSUME TreeInv, [KNext]_kvars, pc \notin {"init_physical", "lost"}
  PROVE  /\ mem.FirstFreePage \in Nat /\ mem'.FirstFreePage \in Nat
         /\ mem'.FirstFreePage >= mem.FirstFreePage
         /\ mem'.TotalPages = mem.TotalPages /\ mem.TotalPages \in Nat
         /\ Known' = Known
         /\ nullptr \notin held["tables"] => nullptr \notin held'["tables"]
         /\ held["tables"] \subseteq held'["tables"]
<1>1. KInv /\ phase = "ready"
  BY WhileReady
<1>2. mem.FirstFreePage \in Nat /\ mem.TotalPages \in Nat
  BY <1>1 DEF KInv, IInv, TypeOK, PageFramesType
<1>3. CASE UNCHANGED <<mem, held, tables>>
  BY <1>2, <1>3 DEF Known
<1>4. CASE LockDevice(FramebufferFrames)
  <2>1. /\ mem' = lock_pages(mem, FramebufferFrames) /\ tables' = tables /\ held' = held
        /\ FramebufferFrames \in SUBSET Nat
    BY <1>4, KernelMemoryAssumption, MemoryMapsAssumption DEF LockDevice
  <2>2. SameShape(mem, mem')
    BY <1>1, <2>1, SoundNow, LockPagesSound DEF KInv
  <2> QED BY <1>2, <2>1, <2>2 DEF SameShape, Known
<1>5. ASSUME NEW o, NEW a, NEW n, RequestType(mem, a), Grant(o, a, n)
      PROVE  /\ mem'.FirstFreePage \in Nat /\ mem'.FirstFreePage >= mem.FirstFreePage
             /\ mem'.TotalPages = mem.TotalPages /\ Known' = Known
  BY <1>5 DEF Grant, RequestType, PageFramesType, Known
<1>6. CASE Grant("tables", request_page(mem), 1)
  <2> DEFINE f == request_page(mem).frame
  <2>1. f = nullptr => held' = held
    BY <1>6 DEF Grant
  <2>2. f # nullptr => held'["tables"] = held["tables"] \cup {f}
    BY <1>1, <1>6, FreshTable
  <2> HIDE DEF f
  <2> QED BY <1>1, <1>2, <1>5, <1>6, <2>1, <2>2, RequestsTyped
<1>7. CASE Grant("heap", request_page(mem), 1)
  BY <1>1, <1>2, <1>5, <1>7, RequestsTyped, GrantElsewhere
<1>8. CASE Grant("renderer", request_pages(mem, fbPages), fbPages)
  BY <1>1, <1>2, <1>5, <1>8, RequestsTyped, GrantElsewhere
<1> QED BY <1>3, <1>4, <1>6, <1>7, <1>8, Requests

\* The answers to a request for a page.
LEMMA PageAnswer ==
  ASSUME KInv, phase = "ready", NEW o \in {"tables", "heap"},
         Grant(o, request_page(mem), 1)
  PROVE  LET f == request_page(mem).frame IN
         /\ f \in Nat
         /\ NoneLeft => f = nullptr
         /\ f = nullptr => held' = held
         /\ f # nullptr => mem'.FirstFreePage > 0 /\ f \in held'[o]
         /\ f = nullptr /\ mem.FirstFreePage > 0 => NoneLeft'
         /\ \/ mem'.FirstFreePage >= mem.TotalPages
            \/ f >= mem.FirstFreePage
<1> DEFINE a == request_page(mem)
           f == a.frame
<1>1. /\ RequestType(mem, a)
      /\ \/ a.panics /\ f = nullptr /\ a.mem.FirstFreePage >= mem.TotalPages
         \/ /\ Granted(mem, a, 1) /\ ~a.panics /\ f < mem.TotalPages
            /\ a.mem.FirstFreePage = f + 1
  BY SoundNow, RequestPage1 DEF Sound, KInv
<1>2. /\ o \in Owner
      /\ held \in [Owner -> SUBSET Nat]
      /\ mem.TotalPages \in Nat /\ mem.FirstFreePage \in Nat
  BY KernelMemoryAssumption DEF KInv, IInv, TypeOK, PageFramesType
<1>3. /\ held' = IF a.panics \/ f = nullptr
                 THEN held ELSE [held EXCEPT ![o] = @ \cup Frames(f, 1)]
      /\ mem' = a.mem
  BY DEF Grant
<1> HIDE DEF a
<1>4. f \in Nat /\ mem'.TotalPages = mem.TotalPages /\ mem'.FirstFreePage \in Nat
  BY <1>1, <1>3 DEF RequestType, PageFramesType
<1>5. \/ a.panics /\ f = nullptr /\ mem'.FirstFreePage >= mem.TotalPages
      \/ ~a.panics /\ f >= mem.FirstFreePage /\ f < mem.TotalPages
         /\ mem'.FirstFreePage = f + 1
  BY <1>1, <1>3 DEF Granted
<1>6. Frames(f, 1) = {f}
  BY <1>4 DEF Frames
<1>7. f # nullptr => f \in held'[o]
  BY <1>2, <1>3, <1>5, <1>6
<1>8. NoneLeft => f = nullptr
  BY <1>2, <1>4, <1>5 DEF NoneLeft
<1>9. f # nullptr => mem'.FirstFreePage > 0
  BY <1>4, <1>5 DEF nullptr
<1>10. f = nullptr /\ mem.FirstFreePage > 0 => NoneLeft'
  BY <1>2, <1>4, <1>5 DEF NoneLeft, nullptr
<1>11. mem'.FirstFreePage >= mem.TotalPages \/ f >= mem.FirstFreePage
  BY <1>5
<1>12. f = nullptr => held' = held
  BY <1>3
<1> QED BY <1>4, <1>7, <1>8, <1>9, <1>10, <1>11, <1>12 DEF a

LEMMA StarvedInit ==
  ASSUME KInit
  PROVE  StarvedInv
<1>1. held["tables"] = {}
  BY KernelMemoryAssumption DEF KInit, Init
<1>2. pc = "init_physical"
  BY DEF KInit
<1> QED BY <1>1, <1>2 DEF StarvedInv

\* The last loop of kstage1 ends between two calls of map().
LEMMA SetUpEnds ==
  ASSUME TreeInv, KStage1, pc' = "running"
  PROVE  mapping' = NoMapping /\ pc # "running"
<1>1. CASE Scan \/ MapLowMemory \/ SwitchBitmap \/ LoseMachine
  <2>1. pc \in {"init_physical", "lost"}
    <3>1. phase # "ready"
      BY <1>1 DEF Scan, ScanDescriptor, HaltWithoutSegment, UseInitialBitmap,
                  MapLowMemory, SwitchBitmap, LoseMachine
    <3> QED BY <3>1, WhileReady
  <2> QED BY <1>1, <2>1 DEF Scan, MapLowMemory, MapNext, SwitchBitmap, LoseMachine, Go
<1>2. CASE MapRam \/ MapKernel \/ MapFramebuffer \/ MapTarget
  BY <1>2 DEF MapRam, MapKernel, MapFramebuffer, MapTarget, Loop, MapNext, At, Go
<1>3. CASE NewPageMap \/ UnmapNull \/ flush_page_map \/ init_heap \/ LockFramebuffer
  BY <1>3 DEF NewPageMap, UnmapNull, flush_page_map, init_heap, LockFramebuffer, Go
<1>4. CASE RequestTarget
  BY <1>4 DEF RequestTarget, At
<1> QED BY <1>1, <1>2, <1>3, <1>4 DEF KStage1

\* The running kernel maps what expand_heap has requested.
LEMMA HeapOnlyStays ==
  ASSUME TreeInv, StarvedInv, [KNext]_kvars, pc' = "running", mapping' # NoMapping
  PROVE  HeapOnly'
<1>1. CASE UNCHANGED kvars
  <2>1. UNCHANGED <<pc, mapping, held>>
    BY <1>1 DEF kvars, vars
  <2> QED BY <2>1 DEF StarvedInv, HeapOnly, Stray
<1>2. CASE expand_heap
  <2> DEFINE f == request_page(mem).frame
             page == HEAP_VIRTUAL_BASE + heapPages
  <2>1. /\ pc = "running" /\ Grant("heap", request_page(mem), 1)
        /\ mapping' = Mapping(active, page, f)
    BY <1>2 DEF expand_heap, Idle, At, HeapPage
  <2>2. KInv /\ phase = "ready" /\ heapPages \in Nat /\ HEAP_VIRTUAL_BASE \in Nat
    BY <2>1, WhileReady, KernelMemoryAssumption
  <2>3. f = nullptr \/ f \in held'["heap"]
    BY <2>1, <2>2, PageAnswer
  <2>4. page \in Nat
    BY <2>2
  <2> HIDE DEF f, page
  <2>5. mapping' = [root |-> active, page |-> page, frame |-> f, level |-> 4, table |-> active]
    BY <2>1 DEF Mapping
  <2> QED BY <2>3, <2>4, <2>5 DEF HeapOnly, Stray
<1>3. CASE map
  <2>1. mapping # NoMapping /\ pc = "running"
    BY <1>3, LevelOfNoMapping DEF map, MapThroughTable, MapNewTable, MapPage
  <2>2. HeapOnly
    BY <2>1 DEF StarvedInv
  <2>3. phase = "ready"
    BY <2>1, WhileReady
  <2>4. /\ mapping.level > 1
        /\ \E t : mapping' = [mapping EXCEPT !.level = @ - 1, !.table = t]
    BY <1>3 DEF map, MapThroughTable, MapNewTable, MapPage, Enter
  <2>5. held'["heap"] = held["heap"]
    BY <1>3, <2>3, GrantElsewhere
       DEF map, MapThroughTable, MapNewTable, MapPage, TakeTable, vars
  <2>6. PICK t : mapping' = [mapping EXCEPT !.level = @ - 1, !.table = t]
    BY <2>4
  <2>7. PICK root, page, frame, level, table :
           /\ mapping = [root |-> root, page |-> page, frame |-> frame,
                         level |-> level, table |-> table]
           /\ page \in Nat /\ level \in 1 .. 4 /\ frame \in Stray
    BY <2>2 DEF HeapOnly
  <2>8. mapping' = [root |-> root, page |-> page, frame |-> frame,
                    level |-> level - 1, table |-> t]
    BY <2>6, <2>7
  <2>9. level - 1 \in 1 .. 4
    BY <2>4, <2>7
  <2>10. frame \in Stray'
    BY <2>5, <2>7 DEF Stray
  <2> QED BY <2>7, <2>8, <2>9, <2>10 DEF HeapOnly
<1>4. CASE clone_active_page_map \/ CloneTable \/ CloneEntered \/ CloneReturns
  BY <1>4, CloneBegunOutside, CloneTableOutside, CloneDoneOutside DEF KeepsPageMap, CloneUnchanged
<1>5. CASE KStage1
  BY <1>5, SetUpEnds
<1> QED BY <1>1, <1>2, <1>3, <1>4, <1>5 DEF KNext, Running

\* Without a free frame below the search, init_physical has no page tables.
LEMMA KernelIsNotNull ==
  ASSUME KInv
  PROVE  /\ nullptr \notin KernelFrames
         /\ mem.FirstFreePage = 0 => tables = {}
<1>1. nullptr \notin KernelFrames
  <2>1. KernelPhysical \in Nat /\ KernelPhysical > 0
    BY KernelMemoryAssumption, ConstantsAssumption
  <2> QED BY <2>1 DEF KernelFrames, Frames, nullptr
<1>2. tables \subseteq Nat /\ \A p \in tables : p < mem.FirstFreePage
  BY DEF KInv, IInv, TypeOK, TablesBelowSearch
<1> QED BY <1>1, <1>2

\* request_page has nothing for init_virtual: either all is taken, or it has
\* found frame 0, which is as good as nothing.
LEMMA NewPageMapStarved ==
  ASSUME TreeInv, ForestInv, NewPageMap
  PROVE  IF starved' THEN NoMoreTables' \/ NoPageMap'
         ELSE mem'.FirstFreePage > 0 /\ pageMap' \notin clones'
<1> DEFINE f == request_page(mem).frame
<1>1. /\ pc = "init_virtual" /\ pc' = "map_ram"
      /\ Grant("tables", request_page(mem), 1)
      /\ pageMap' = f
      /\ starved' = (f = nullptr)
      /\ UNCHANGED <<ram, active, mapping, cloning, clones>>
      /\ mapping = NoMapping
  BY DEF NewPageMap, At, Go
<1>2. /\ KInv /\ phase = "ready" /\ cloning = NotCloning /\ clones = {}
      /\ mem.FirstFreePage \in Nat
  <2>1. KInv /\ phase = "ready" /\ cloning = NotCloning
    BY <1>1, WhileReady
  <2> QED BY <1>1, <2>1 DEF ForestInv, KInv, IInv, TypeOK, PageFramesType
<1>3. /\ f = nullptr => held' = held
      /\ f # nullptr => mem'.FirstFreePage > 0
      /\ f = nullptr /\ mem.FirstFreePage > 0 => NoneLeft'
  BY <1>1, <1>2, PageAnswer
<1>4. tables' = tables /\ Known' = Known
  BY <1>1 DEF Grant, Known
<1> HIDE DEF f
<1>5. ASSUME f = nullptr, mem.FirstFreePage > 0
      PROVE  NoMoreTables'
  BY <1>1, <1>2, <1>3, <1>5 DEF NoMoreTables
<1>6. ASSUME f = nullptr, mem.FirstFreePage = 0
      PROVE  NoPageMap'
  <2>1. BootTables /\ OldMap
    BY <1>1 DEF TreeInv, Switched, BootTables
  <2>2. DOMAIN ram \subseteq (Known \cup held["tables"]) \ {nullptr}
    BY <1>2, <1>6, <2>1, KernelIsNotNull DEF BootTables, Known
  <2>3. (DOMAIN ram \subseteq (Known \cup held["tables"]) \ {nullptr})'
    BY <1>1, <1>3, <1>4, <1>6, <2>2
  <2>4. OldMap'
    BY <1>1, <2>1 DEF OldMap
  <2> QED BY <1>1, <1>2, <1>6, <2>3, <2>4 DEF NoPageMap
<1>7. mem.FirstFreePage > 0 \/ mem.FirstFreePage = 0
  BY <1>2
<1> QED BY <1>1, <1>2, <1>3, <1>5, <1>6, <1>7

\* Who changes what.
LEMMA WhoChanges ==
  ASSUME KNext, ~NewPageMap
  PROVE  /\ pageMap' = pageMap
         /\ clones' = clones \/ CloneReturns
         /\ starved' = starved \/ MapNewTable
<1>1. CASE Scan \/ MapLowMemory \/ SwitchBitmap \/ LoseMachine
  BY <1>1, Zenon DEF Scan, ScanDescriptor, HaltWithoutSegment, UseInitialBitmap,
                     MapLowMemory, MapNext, SwitchBitmap, LoseMachine, paging
<1>2. CASE MapRam \/ MapKernel \/ MapFramebuffer \/ MapTarget
  BY <1>2, Zenon DEF MapRam, MapKernel, MapFramebuffer, MapTarget, Loop, MapNext, paging
<1>3. CASE UnmapNull \/ flush_page_map
  BY <1>3, Zenon DEF UnmapNull, flush_page_map
<1>4. CASE LockFramebuffer \/ RequestTarget
  BY <1>4, Zenon DEF LockFramebuffer, RequestTarget, paging
<1>5. CASE init_heap \/ expand_heap
  BY <1>5, Zenon DEF init_heap, expand_heap, HeapPage
<1>6. CASE map
  BY <1>6, Zenon DEF map, MapThroughTable, MapNewTable, MapPage, paging
<1>7. CASE clone_active_page_map \/ CloneTable \/ CloneEntered \/ CloneReturns
  BY <1>7, Zenon DEF clone_active_page_map, CloneTable, CloneEntered, CloneReturns, CloneUnchanged
<1> QED BY <1>1, <1>2, <1>3, <1>4, <1>5, <1>6, <1>7 DEF KNext, KStage1, Running

\* While there are tables: the search has begun, and no clone is the page map.
LEMMA NotStarvedStays ==
  ASSUME TreeInv, ForestInv, KNext, ~NewPageMap, ~starved,
         pc \notin {"init_physical", "lost", "init_virtual"},
         mem.FirstFreePage > 0, pageMap \notin clones
  PROVE  mem'.FirstFreePage > 0 /\ pageMap' \notin clones'
<1>1. mem'.FirstFreePage > 0
  BY SearchGoesOn
<1>2. CASE CloneReturns
  <2>1. /\ cloning.level = 4 /\ clones' = clones \cup {cloning.new[4]}
        /\ pageMap' = pageMap
    BY <1>2 DEF CloneReturns, CloneUnchanged
  <2>2. cloning # NotCloning
    BY <2>1, LevelOfNoMapping
  <2>3. ClonesInto(cloning, held["tables"] \ Nodes(ram, pageMap))
    BY <2>2, WhileCloning
  <2>4. 4 \in cloning.level .. 4
    BY <2>1
  <2>5. cloning.new[4] \notin Nodes(ram, pageMap)
    BY <2>3, <2>4 DEF ClonesInto
  <2> QED BY <1>1, <2>1, <2>5 DEF Nodes
<1> QED BY <1>1, <1>2, WhoChanges

-----------------------------------------------------------------------------
(* Without a page map.                                                     *)

LEMMA NoPageMapAside ==
  ASSUME NoPageMap, UNCHANGED <<ram, tables, pageMap, clones, cloning>>,
         held'["tables"] = held["tables"], mapping' = NoMapping,
         ~Switched' => ~Switched /\ active' = active
  PROVE  NoPageMap'
<1>1. Known' = Known
  BY DEF Known
<1>2. ~Switched' => OldMap'
  BY DEF NoPageMap, OldMap
<1>3. cloning' # NotCloning => EmptyClone(cloning)'
  BY DEF NoPageMap, EmptyClone
<1> QED BY <1>1, <1>2, <1>3 DEF NoPageMap

\* map() without a page map returns at once.
LEMMA NoPageMapLoops ==
  ASSUME NoPageMap, Places, MapRam \/ MapKernel \/ MapFramebuffer \/ MapTarget
  PROVE  NoPageMap'
<1> USE DEF MapRam, MapKernel, MapFramebuffer, MapTarget
<1>1. PICK label, turns, root, page, frame, next :
         /\ Loop(label, turns, root, page, frame, next)
         /\ \/ root = pageMap /\ next \in {"map_kernel", "unmap_null"} /\ ~Switched
            \/ root = active /\ next \in {"request_target", "running"} /\ Switched
  <2>1. CASE MapRam
    <3>1. ~Switched
      BY <2>1 DEF Loop, At, Switched
    <3> QED BY <2>1, <3>1
  <2>2. CASE MapKernel
    <3>1. ~Switched
      BY <2>2 DEF Loop, At, Switched
    <3> QED BY <2>2, <3>1
  <2>3. CASE MapFramebuffer
    <3>1. Switched
      BY <2>3 DEF Loop, At, Switched
    <3> QED BY <2>3, <3>1
  <2>4. CASE MapTarget
    <3>1. Switched
      BY <2>4 DEF Loop, At, Switched
    <3> QED BY <2>4, <3>1
  <2> QED BY <2>1, <2>2, <2>3, <2>4
<1>2. /\ UNCHANGED <<ram, active, tables, held, pageMap, clones, cloning>>
      /\ pc = label /\ mapping = NoMapping
      /\ \/ pc' = pc /\ \E p, f : mapping' = Mapping(root, p, f)
         \/ pc' = next /\ mapping' = mapping
  BY <1>1, Zenon DEF Loop, MapNext, At, Go, paging, vars
<1>3. root = nullptr
  BY <1>1 DEF NoPageMap, Places
<1>4. mapping' = NoMapping
  BY <1>2, <1>3 DEF Mapping
<1>5. ~Switched' => ~Switched
  BY <1>1, <1>2 DEF Switched
<1> QED BY <1>2, <1>4, <1>5, NoPageMapAside

LEMMA NoPageMapUnmap ==
  ASSUME KInv, NoPageMap, UnmapNull
  PROVE  NoPageMap'
<1>1. /\ pc = "unmap_null" /\ pc' = "flush" /\ ram' = unmap(ram, active, 0)
      /\ UNCHANGED <<held, tables, active, pageMap, mapping, cloning, clones>>
  BY DEF UnmapNull, At, Go, vars
<1>2. OldMap
  BY <1>1 DEF NoPageMap, Switched
<1>3. /\ \A t \in held["tables"] : Table(ram', t) = Table(ram, t)
      /\ DOMAIN ram' \subseteq DOMAIN ram \cup KernelFrames
  BY <1>2, UnmapNullElsewhere
<1>4. \A t : t # pml1 => Table(ram', t) = Table(ram, t)
  BY <1>2, UnmapNullWrites, WriteTable
<1>5. OldMap'
  BY <1>1, <1>2, <1>4, KernelTables DEF OldMap, Upper
<1>6. (DOMAIN ram \subseteq (Known \cup held["tables"]) \ {nullptr})'
  BY <1>1, <1>3, KernelIsNotNull DEF NoPageMap, Known
<1>7. cloning' # NotCloning => EmptyClone(cloning)'
  BY <1>1, <1>3 DEF NoPageMap, EmptyClone
<1>8. (\A c \in clones : c \in held["tables"] /\ Table(ram, c) = Empty)'
  BY <1>1, <1>3 DEF NoPageMap
<1> QED BY <1>1, <1>5, <1>6, <1>7, <1>8 DEF NoPageMap

LEMMA NoPageMapHeap ==
  ASSUME TreeInv, NoPageMap, init_heap \/ expand_heap
  PROVE  NoPageMap'
<1>1. /\ Grant("heap", request_page(mem), 1)
      /\ \E p, f : mapping' = Mapping(active, p, f)
      /\ UNCHANGED <<ram, pageMap, cloning, clones>>
      /\ pc \in {"init_heap", "running"} /\ pc' \in {"lock_framebuffer", "running"}
  BY DEF init_heap, expand_heap, Idle, At, Go, HeapPage
<1>2. tables' = tables /\ held'["tables"] = held["tables"]
  BY <1>1, GrantElsewhere DEF Grant
<1>3. Switched /\ Switched'
  BY <1>1 DEF Switched
<1>4. mapping' = NoMapping
  BY <1>1, <1>3 DEF TreeInv, Places, NoPageMap, Mapping
<1> QED BY <1>1, <1>2, <1>3, <1>4, NoPageMapAside

LEMMA NoPageMapSetUp ==
  ASSUME TreeInv, NoPageMap, flush_page_map \/ LockFramebuffer \/ RequestTarget
  PROVE  NoPageMap'
<1>1. CASE flush_page_map
  BY <1>1, NoPageMapAside DEF flush_page_map, Go, Switched, vars, NoPageMap
<1>2. CASE LockFramebuffer
  BY <1>2, NoPageMapAside
     DEF LockFramebuffer, LockDevice, At, Go, Switched, paging, NoPageMap
<1>3. CASE RequestTarget
  <2>1. /\ Grant("renderer", request_pages(mem, fbPages), fbPages)
        /\ UNCHANGED <<ram, pageMap, mapping, cloning, clones>>
        /\ pc' \in {"running", "map_target"}
    BY <1>3 DEF RequestTarget, Go
  <2>2. tables' = tables /\ held'["tables"] = held["tables"]
    BY <2>1, GrantElsewhere DEF Grant
  <2>3. Switched'
    BY <2>1 DEF Switched
  <2> QED BY <2>1, <2>2, <2>3, NoPageMapAside DEF NoPageMap
<1> QED BY <1>1, <1>2, <1>3

\* A page map without entries: its clone is one table, which is cleared.
LEMMA NoPageMapClone ==
  ASSUME Leftover = Empty, TreeInv, NoPageMap,
         clone_active_page_map \/ CloneTable \/ CloneEntered \/ CloneReturns
  PROVE  /\ NoPageMap'
         /\ CloneReturns => Table(ram, cloning.new[4]) = Empty /\ active = nullptr
<1>1. /\ KeepsPageMap /\ pc = "running" /\ pc' = "running"
      /\ UNCHANGED <<pageMap, active>> /\ mapping' = NoMapping
  BY CloneBegunOutside, CloneTableOutside, CloneDoneOutside DEF KeepsPageMap, CloneUnchanged
<1>2. KInv /\ phase = "ready" /\ Switched /\ Switched' /\ active = nullptr
  BY <1>1, WhileReady DEF TreeInv, Places, Switched, NoPageMap
<1>3. Table(ram, nullptr) = Empty
  BY DEF NoPageMap, Table
<1>4. cloning # NotCloning => ToCopy = {} /\ cloning.level = 4
  <2> SUFFICES ASSUME cloning # NotCloning
               PROVE  ToCopy = {} /\ cloning.level = 4
    OBVIOUS
  <2>1. cloning.level = 4 /\ cloning.old[4] = nullptr /\ cloning.slot[4] = 0
    BY DEF NoPageMap, EmptyClone
  <2>2. OldTable = Empty
    BY <1>3, <2>1 DEF OldTable
  <2>3. \A i \in 0 .. EntriesPerTable - 1 : ~OldTable[i].present
    BY <2>2 DEF Empty, Absent, Slots
  <2>4. ToCopy = {}
    BY <2>1, <2>3 DEF ToCopy
  <2> QED BY <2>1, <2>4
<1>5. CASE clone_active_page_map
  <2> DEFINE f == request_page(mem).frame
  <2>1. /\ cloning = NotCloning /\ Grant("tables", request_page(mem), 1)
        /\ clones' = clones
        /\ IF f = nullptr
           THEN UNCHANGED <<ram, cloning>>
           ELSE /\ ram' = Clear(ram, f)
                /\ cloning' = [NotCloning EXCEPT !.level = 4, !.old[4] = active,
                                                 !.new[4] = f]
    BY <1>5 DEF clone_active_page_map, Idle
  <2>2. /\ tables' = tables /\ Known' = Known
        /\ f = nullptr => held' = held
        /\ f # nullptr => /\ f \notin held["tables"] \cup Known
                          /\ held'["tables"] = held["tables"] \cup {f}
    BY <1>2, <2>1, FreshTable DEF Grant, Known
  <2> HIDE DEF f
  <2>3. CASE f = nullptr
    <3>1. held'["tables"] = held["tables"]
      BY <2>2, <2>3
    <3>2. UNCHANGED <<ram, cloning>>
      BY <2>1, <2>3
    <3>3. NoPageMap'
      BY <1>1, <1>2, <2>1, <2>2, <3>1, <3>2, NoPageMapAside
    <3>4. cloning.level # 4
      BY <2>1, LevelOfNoMapping
    <3> QED BY <3>3, <3>4 DEF CloneReturns
  <2>4. CASE f # nullptr
    <3>1. cloning' = [level |-> 4, old |-> [NoTables EXCEPT ![4] = active],
                      new |-> [NoTables EXCEPT ![4] = f], slot |-> NoTables]
      BY <2>1, <2>4 DEF NotCloning
    <3>2. /\ cloning'.level = 4 /\ cloning'.old[4] = nullptr
          /\ cloning'.new[4] = f /\ cloning'.slot[4] = 0
      BY <1>2, <3>1 DEF NoTables
    <3>3. /\ Table(ram', f) = Empty
          /\ \A t : t # f => Table(ram', t) = Table(ram, t)
      BY <2>1, <2>4, PutTable DEF Clear
    <3>4. DOMAIN ram' = DOMAIN ram \cup {f}
      BY <2>1, <2>4 DEF Clear, Put
    <3>5. EmptyClone(cloning)'
      BY <2>2, <2>4, <3>2, <3>3 DEF EmptyClone
    <3>6. (\A c \in clones : c \in held["tables"] /\ Table(ram, c) = Empty)'
      BY <2>1, <2>2, <2>4, <3>3 DEF NoPageMap
    <3>7. (DOMAIN ram \subseteq (Known \cup held["tables"]) \ {nullptr})'
      BY <2>2, <2>4, <3>4 DEF NoPageMap
    <3>8. pageMap' = nullptr
      BY <1>1 DEF NoPageMap
    <3>9. cloning.level # 4
      BY <2>1, LevelOfNoMapping
    <3> QED BY <1>1, <1>2, <3>5, <3>6, <3>7, <3>8, <3>9 DEF NoPageMap, CloneReturns
  <2> QED BY <2>3, <2>4
<1>6. ~CloneTable /\ ~CloneEntered
  <2>1. ASSUME CloneTable
        PROVE  cloning.level > 1 /\ ToCopy # {}
    BY <2>1, Zenon DEF CloneTable
  <2>2. ASSUME CloneEntered
        PROVE  cloning.level \in {2, 3}
    BY <2>2 DEF CloneEntered
  <2> QED BY <1>4, <2>1, <2>2, LevelOfNoMapping
<1>7. CASE CloneReturns
  <2>1. /\ cloning.level = 4 /\ clones' = clones \cup {cloning.new[4]}
        /\ cloning' = NotCloning /\ UNCHANGED <<ram, held, tables>>
    BY <1>7 DEF CloneReturns, vars
  <2>2. cloning # NotCloning
    BY <2>1, LevelOfNoMapping
  <2>3. EmptyClone(cloning) /\ Known' = Known
    BY <2>1, <2>2 DEF NoPageMap, Known
  <2>4. (\A c \in clones : c \in held["tables"] /\ Table(ram, c) = Empty)'
    BY <2>1, <2>3 DEF NoPageMap, EmptyClone
  <2>5. pageMap' = nullptr
    BY <1>1 DEF NoPageMap
  <2>6. (DOMAIN ram \subseteq (Known \cup held["tables"]) \ {nullptr})'
    BY <2>1, <2>3 DEF NoPageMap
  <2> QED BY <1>1, <1>2, <2>1, <2>3, <2>4, <2>5, <2>6 DEF NoPageMap, EmptyClone
<1> QED BY <1>5, <1>6, <1>7

LEMMA NoPageMapStays ==
  ASSUME Leftover = Empty, TreeInv, NoPageMap, KNext, ~NewPageMap,
         pc \notin {"init_physical", "lost"}
  PROVE  NoPageMap'
<1>1. KInv /\ phase = "ready" /\ Places
  BY WhileReady DEF TreeInv
<1>2. CASE Scan \/ MapLowMemory \/ SwitchBitmap \/ LoseMachine
  BY <1>1, <1>2 DEF Scan, ScanDescriptor, HaltWithoutSegment, UseInitialBitmap,
                    MapLowMemory, SwitchBitmap, LoseMachine
<1>3. CASE MapRam \/ MapKernel \/ MapFramebuffer \/ MapTarget
  BY <1>1, <1>3, NoPageMapLoops
<1>4. CASE UnmapNull \/ flush_page_map \/ init_heap \/ expand_heap \/ LockFramebuffer \/ RequestTarget
  BY <1>1, <1>4, NoPageMapUnmap, NoPageMapSetUp, NoPageMapHeap
<1>5. CASE map
  <2>1. mapping # NoMapping
    BY <1>5, LevelOfNoMapping DEF map, MapThroughTable, MapNewTable, MapPage
  <2> QED BY <2>1 DEF NoPageMap
<1>6. CASE clone_active_page_map \/ CloneTable \/ CloneEntered \/ CloneReturns
  BY <1>6, NoPageMapClone
<1> QED BY <1>2, <1>3, <1>4, <1>5, <1>6 DEF KNext, KStage1, Running

-----------------------------------------------------------------------------
(* With a page map, and no table to be had.                                *)

\* What is entered leads into J.
Grows(r, s, J) ==
    \A t : \A i \in Slots :
        Table(s, t)[i].present =>
            \/ Table(r, t)[i].present /\ Table(s, t)[i].frame = Table(r, t)[i].frame
            \/ Table(s, t)[i].frame \in J

LEMMA GrowsStray ==
  ASSUME NEW r, NEW s, NEW J, NEW root, Grows(r, s, J), Closed(s, J)
  PROVE  Nodes(s, root) \subseteq Nodes(r, root) \cup J
<1>1. ASSUME NEW S, NEW T, S \subseteq T \cup J
      PROVE  Children(s, S) \subseteq Children(r, T) \cup J
  <2> SUFFICES ASSUME NEW f \in Children(s, S), f \notin J
               PROVE  f \in Children(r, T)
    OBVIOUS
  <2>1. PICK t \in S, i \in Slots : Table(s, t)[i].present /\ f = Table(s, t)[i].frame
    BY ChildrenAre
  <2>2. t \in T
    BY <1>1, <2>1 DEF Closed
  <2>3. Table(r, t)[i].present /\ f = Table(r, t)[i].frame
    BY <2>1 DEF Grows
  <2> QED BY <2>2, <2>3, ChildrenAre
<1>2. Level3(s, root) \subseteq Level3(r, root) \cup J
  BY <1>1 DEF Level3
<1>3. Level2(s, root) \subseteq Level2(r, root) \cup J
  BY <1>1, <1>2 DEF Level2
<1>4. Level1(s, root) \subseteq Level1(r, root) \cup J
  BY <1>1, <1>3 DEF Level1
<1> QED BY <1>2, <1>3, <1>4 DEF Nodes

\* The tables of a page map none of which is written to.
LEMMA SameNodes ==
  ASSUME NEW r, NEW s, NEW root, \A t \in Nodes(r, root) : Table(s, t) = Table(r, t)
  PROVE  Nodes(s, root) = Nodes(r, root)
<1> DEFINE x == <<root, 4>>
<1>1. x[2] \in {2, 3, 4}
  OBVIOUS
<1>2. \A y : y = x => PartTables(r, y) = Nodes(r, root) /\ PartTables(s, y) = Nodes(s, root)
  BY RootPart
<1> HIDE DEF x
<1> QED BY <1>1, <1>2, SameUnder

\* The heap's frames are no page tables, and nothing is written to them.
LEMMA HeapTables ==
  ASSUME KInv
  PROVE  /\ held["heap"] \cap held["tables"] = {}
         /\ held["heap"] \cap Known = {}
<1>1. "heap" \in Owner /\ "tables" \in Owner
  BY KernelMemoryAssumption
<1>2. held["heap"] \subseteq Arena
  BY <1>1 DEF KInv, IInv, HeldIsLocked
<1>3. held["heap"] \cap held["tables"] = {}
  BY <1>1 DEF KInv, IInv, HeldOnce
<1> QED BY <1>2, <1>3 DEF Arena, Known

\* An entry of the page map, or of what it strays to, that leads astray.
StrayEntry(r, s, t, i, f, old) ==
    /\ t \in Nodes(r, pageMap) \cup Stray /\ i \in Slots /\ f \in Stray
    /\ old = Table(r, t) \/ old = Empty
    /\ Table(s, t) = [old EXCEPT ![i] = To(f)]
    /\ \A g : g # t =>
          \/ Table(s, g) = Table(r, g)
          \/ g = nullptr /\ Table(s, g) = Empty

LEMMA StrayWrite ==
  ASSUME KInv, nullptr \notin held["tables"], NEW r, NEW s, ClonesApart(r),
         NEW t, NEW i, NEW f, NEW old, StrayEntry(r, s, t, i, f, old)
  PROVE  ClonesApart(s)
<1>1. nullptr \in Stray /\ Stray \cap held["tables"] = {}
  BY HeapTables DEF Stray
<1>2. DOMAIN old = Slots
  BY DEF ClonesApart, StrayEntry, Empty
<1>3. /\ DOMAIN Table(s, t) = Slots
      /\ Table(s, t)[i] = To(f)
      /\ \A j \in Slots : j # i => Table(s, t)[j] = old[j]
  BY <1>2 DEF StrayEntry
<1>4. \A j \in Slots : ~Empty[j].present
  BY DEF Empty, Absent
<1>5. Grows(r, s, Stray)
  <2> SUFFICES ASSUME NEW g, NEW j \in Slots, Table(s, g)[j].present
               PROVE  \/ /\ Table(r, g)[j].present
                         /\ Table(s, g)[j].frame = Table(r, g)[j].frame
                      \/ Table(s, g)[j].frame \in Stray
    BY DEF Grows
  <2>1. CASE g # t
    BY <1>4, <2>1 DEF StrayEntry
  <2>2. CASE g = t /\ j = i
    BY <1>3, <2>2 DEF StrayEntry, To
  <2>3. CASE g = t /\ j # i
    BY <1>3, <1>4, <2>3 DEF StrayEntry
  <2> QED BY <2>1, <2>2, <2>3
<1>6. Closed(s, Stray)
  BY <1>5 DEF ClonesApart, Closed, Grows
<1>7. Nodes(s, pageMap) \subseteq Nodes(r, pageMap) \cup Stray
  BY <1>5, <1>6, GrowsStray
<1>8. ASSUME NEW c \in clones
      PROVE  Nodes(s, c) = Nodes(r, c)
  <2>1. Nodes(r, c) \subseteq held["tables"] \ Nodes(r, pageMap)
    BY DEF ClonesApart
  <2>2. ASSUME NEW g \in Nodes(r, c)
        PROVE  Table(s, g) = Table(r, g)
    <3>1. g # t /\ g # nullptr
      BY <1>1, <2>1 DEF StrayEntry
    <3> QED BY <3>1 DEF StrayEntry
  <2> QED BY <2>2, SameNodes
<1>9. ASSUME NEW c \in clones
      PROVE  /\ Nodes(s, c) \subseteq held["tables"] \ Nodes(s, pageMap)
             /\ \A d \in clones \ {c} : Nodes(s, c) \cap Nodes(s, d) = {}
  BY <1>1, <1>7, <1>8 DEF ClonesApart
<1>10. ASSUME NEW g \in Nodes(s, pageMap) \cup Stray
       PROVE  DOMAIN Table(s, g) = Slots
  <2>1. DOMAIN Table(r, g) = Slots
    BY <1>7 DEF ClonesApart
  <2>2. DOMAIN Empty = Slots
    BY DEF Empty
  <2> QED BY <1>3, <2>1, <2>2 DEF StrayEntry
<1> QED BY <1>6, <1>9, <1>10 DEF ClonesApart

LEMMA ClonesApartStays ==
  ASSUME ClonesApart(ram'), UNCHANGED <<held, pageMap, clones>>
  PROVE  ClonesApart(ram)'
BY DEF ClonesApart, Stray

\* map() enters null in place of a table.
LEMMA NullEntered ==
  ASSUME NEW r, NEW s, NEW t, NEW i \in Slots, s = Write(Clear(r, nullptr), t, i, To(nullptr)),
         t \in Nodes(r, pageMap) \cup Stray
  PROVE  \E old : StrayEntry(r, s, t, i, nullptr, old)
<1> DEFINE old == IF t = nullptr THEN Empty ELSE Table(r, t)
<1>1. nullptr \in Stray
  BY DEF Stray
<1>2. old = Table(r, t) \/ old = Empty
  OBVIOUS
<1>3. Table(Clear(r, nullptr), t) = old
  BY PutTable DEF Clear
<1> HIDE DEF old
<1>4. Table(s, t) = [old EXCEPT ![i] = To(nullptr)]
  BY <1>3, WriteTable
<1>5. ASSUME NEW g, g # t
      PROVE  \/ Table(s, g) = Table(r, g)
             \/ g = nullptr /\ Table(s, g) = Empty
  <2>1. Table(s, g) = Table(Clear(r, nullptr), g)
    BY <1>5, WriteTable
  <2> QED BY <2>1, PutTable DEF Clear
<1> QED BY <1>1, <1>2, <1>4, <1>5 DEF StrayEntry

\* Until now the heap's frames were not written to, and the clones have had
\* nothing in common with the page map.
LEMMA ClonesApartSoFar ==
  ASSUME Leftover = Empty, TreeInv, ForestInv, StarvedInv, ~starved,
         pc \notin {"init_physical", "lost", "init_virtual"}, cloning = NotCloning,
         NEW r, Table(r, nullptr) = Empty, \A g : g # nullptr => Table(r, g) = Table(ram, g)
  PROVE  ClonesApart(r) /\ pageMap \in Nodes(r, pageMap) /\ Nodes(r, pageMap) = Nodes(ram, pageMap)
<1>1. /\ DOMAIN ram \subseteq Known \cup held["tables"]
      /\ Forest(ram, Parts, held["tables"])
      /\ Parts = {<<c, 4>> : c \in clones \cup {pageMap}}
  BY WhileForest DEF Parts
<1>2. KInv /\ PageMapBuilt /\ pageMap \notin clones /\ nullptr \notin held["tables"]
  BY DEF TreeInv, StarvedInv
<1>3. ASSUME NEW c \in clones \cup {pageMap}
      PROVE  Nodes(ram, c) \subseteq held["tables"] /\ Nodes(r, c) = Nodes(ram, c)
  <2>1. <<c, 4>> \in Parts /\ PartTables(ram, <<c, 4>>) = Nodes(ram, c)
    BY <1>1, RootPart
  <2>2. Nodes(ram, c) \subseteq held["tables"]
    BY <1>1, <2>1 DEF Forest
  <2>3. \A g \in Nodes(ram, c) : Table(r, g) = Table(ram, g)
    BY <1>2, <2>2
  <2> QED BY <2>2, <2>3, SameNodes
<1>4. ASSUME NEW c \in clones \cup {pageMap}, NEW d \in clones \cup {pageMap}, c # d
      PROVE  Nodes(r, c) \cap Nodes(r, d) = {}
  <2> DEFINE x == <<c, 4>>
             y == <<d, 4>>
  <2>1. x # y
    BY <1>4
  <2>2. /\ x \in Parts /\ PartTables(ram, x) = Nodes(ram, c)
        /\ y \in Parts /\ PartTables(ram, y) = Nodes(ram, d)
    BY <1>1, RootPart
  <2> HIDE DEF x, y
  <2>3. PartTables(ram, x) \cap PartTables(ram, y) = {}
    BY <1>1, <2>1, <2>2 DEF Forest
  <2> QED BY <1>3, <2>2, <2>3
<1>5. ASSUME NEW t \in Stray
      PROVE  Table(r, t) = Empty
  <2>1. CASE t \in held["heap"] /\ t # nullptr
    BY <1>1, <1>2, <2>1, HeapTables DEF Table
  <2> QED BY <2>1 DEF Stray
<1>6. DOMAIN Empty = Slots /\ \A i \in Slots : ~Empty[i].present
  BY DEF Empty, Absent
<1>7. Closed(r, Stray)
  BY <1>5, <1>6 DEF Closed
<1>8. ASSUME NEW t \in Nodes(r, pageMap) \cup Stray
      PROVE  DOMAIN Table(r, t) = Slots
  <2>1. CASE t \in Nodes(r, pageMap)
    <3>1. t \in Nodes(ram, pageMap) /\ t # nullptr
      BY <1>2, <1>3, <2>1
    <3> QED BY <1>2, <3>1 DEF PageMapBuilt, Tree
  <2> QED BY <1>5, <1>6, <2>1
<1>9. ASSUME NEW c \in clones
      PROVE  /\ Nodes(r, c) \subseteq held["tables"] \ Nodes(r, pageMap)
             /\ \A d \in clones \ {c} : Nodes(r, c) \cap Nodes(r, d) = {}
  <2>1. Nodes(r, c) \cap Nodes(r, pageMap) = {}
    BY <1>2, <1>4
  <2> QED BY <1>3, <1>4, <2>1
<1>10. ClonesApart(r)
  BY <1>7, <1>8, <1>9 DEF ClonesApart
<1> QED BY <1>3, <1>10 DEF Nodes

LEMMA ShortageBegins ==
  ASSUME Leftover = Empty, TreeInv, ForestInv, StarvedInv, MapNewTable, ~starved, starved',
         pc \notin {"init_physical", "lost", "init_virtual"}
  PROVE  NoMoreTables'
<1> DEFINE f == request_page(mem).frame
           t == mapping.table
           i == Index(mapping.page, mapping.level)
           r == Clear(ram, nullptr)
<1>1. /\ mapping.level > 1
      /\ TakeTable(request_page(mem))
      /\ ram' = Write(Clear(ram, f), t, i, To(f))
      /\ mapping' = [mapping EXCEPT !.level = @ - 1, !.table = f]
      /\ starved' = (starved \/ (mapping.root = pageMap /\ f = nullptr))
      /\ UNCHANGED <<pageMap, pc, cloning, clones>>
  BY DEF MapNewTable, Enter
<1>2. f = nullptr
  BY <1>1
<1>3. KInv /\ phase = "ready" /\ mapping # NoMapping
  BY <1>1, WhileReady, LevelOfNoMapping
<1>4. Grant("tables", request_page(mem), 1)
  BY <1>1, <1>3 DEF TakeTable
<1>5. held' = held /\ NoneLeft'
  <2>1. mem.FirstFreePage > 0
    BY DEF StarvedInv
  <2> QED BY <1>2, <1>3, <1>4, <2>1, PageAnswer
<1>6. /\ PageMapBuilt /\ OnTheWay /\ cloning = NotCloning
      /\ mapping.page \in Nat /\ mapping.level \in 1 .. 4
      /\ t \in Nodes(ram, pageMap)
  BY <1>3, WhileOnTheWay
<1>7. i \in Slots
  BY <1>6, IndexIsSlot
<1>8. ram' = Write(r, t, i, To(nullptr))
  BY <1>1, <1>2
<1>9. mapping'.table = nullptr
  <2>1. \E root, page, frame, level, table :
           mapping = [root |-> root, page |-> page, frame |-> frame,
                      level |-> level, table |-> table]
    BY <1>6 DEF OnTheWay
  <2> QED BY <1>1, <1>2, <2>1
<1> HIDE DEF f, t, i
<1>10. Table(r, nullptr) = Empty /\ \A g : g # nullptr => Table(r, g) = Table(ram, g)
  BY PutTable DEF Clear
<1> HIDE DEF r
<1>11. ClonesApart(r) /\ Nodes(r, pageMap) = Nodes(ram, pageMap)
  BY <1>6, <1>10, ClonesApartSoFar
<1>12. StrayEntry(r, ram', t, i, nullptr, Table(r, t))
  BY <1>6, <1>7, <1>8, <1>11, WriteTable DEF StrayEntry, Stray
<1>13. nullptr \notin held["tables"]
  BY DEF StarvedInv
<1>14. ClonesApart(ram')
  BY <1>3, <1>11, <1>12, <1>13, StrayWrite
<1>15. ClonesApart(ram)'
  BY <1>1, <1>5, <1>14, ClonesApartStays
<1>16. StrayOrAt(ram, mapping.level, mapping.table)'
  BY <1>9 DEF StrayOrAt, Stray
<1> QED BY <1>1, <1>5, <1>6, <1>15, <1>16 DEF NoMoreTables, ClonesUntouched

LEMMA NotSetUp ==
  ASSUME TreeInv, pc = "running"
  PROVE  ~KStage1
<1>1. phase = "ready"
  BY WhileReady
<1>2. ~(Scan \/ MapLowMemory \/ SwitchBitmap \/ LoseMachine)
  BY <1>1 DEF Scan, ScanDescriptor, HaltWithoutSegment, UseInitialBitmap,
              MapLowMemory, SwitchBitmap, LoseMachine
<1>3. ~(MapRam \/ MapKernel \/ MapFramebuffer \/ MapTarget)
  BY DEF MapRam, MapKernel, MapFramebuffer, MapTarget, Loop, At
<1>4. ~(NewPageMap \/ UnmapNull \/ flush_page_map)
  BY DEF NewPageMap, UnmapNull, flush_page_map, At
<1>5. ~(init_heap \/ LockFramebuffer \/ RequestTarget)
  BY DEF init_heap, LockFramebuffer, RequestTarget, At
<1> QED BY <1>2, <1>3, <1>4, <1>5 DEF KStage1

\* With no frame left nothing is requested with success.
LEMMA NothingGranted ==
  ASSUME TreeInv, NoneLeft, pc \notin {"init_physical", "lost"}, NEW o \in {"tables", "heap"},
         Grant(o, request_page(mem), 1)
  PROVE  request_page(mem).frame = nullptr /\ held' = held
<1>1. KInv /\ phase = "ready"
  BY WhileReady
<1> QED BY <1>1, PageAnswer

\* A step down, to what an entry or a table of the page map leads to.
LEMMA StrayDown ==
  ASSUME Closed(ram, Stray), NEW level \in 2 .. 4, NEW t, StrayOrAt(ram, level, t),
         NEW i \in Slots, Table(ram, t)[i].present
  PROVE  StrayOrAt(ram, level - 1, Table(ram, t)[i].frame)
<1> DEFINE f == Table(ram, t)[i].frame
<1>1. CASE t \in Stray
  BY <1>1 DEF Closed, StrayOrAt
<1>2. \A S : t \in S => f \in Children(ram, S)
  BY ChildrenAre
<1> HIDE DEF f
<1>3. CASE level = 4 /\ t = pageMap
  <2>1. f \in Level3(ram, pageMap)
    BY <1>2, <1>3 DEF Level3
  <2> QED BY <1>3, <2>1 DEF StrayOrAt, f
<1>4. CASE level = 3 /\ t \in Level3(ram, pageMap)
  <2>1. f \in Level2(ram, pageMap)
    BY <1>2, <1>4 DEF Level2
  <2> QED BY <1>4, <2>1 DEF StrayOrAt, f
<1>5. CASE level = 2 /\ t \in Level2(ram, pageMap)
  <2>1. f \in Level1(ram, pageMap)
    BY <1>2, <1>5 DEF Level1
  <2> QED BY <1>5, <2>1 DEF StrayOrAt, f
<1>6. level # 1
  OBVIOUS
<1> QED BY <1>1, <1>3, <1>4, <1>5, <1>6 DEF StrayOrAt

LEMMA StrayOrInTree ==
  ASSUME NEW level, NEW t, StrayOrAt(ram, level, t)
  PROVE  t \in Nodes(ram, pageMap) \cup Stray
BY DEF StrayOrAt, Nodes

\* map() in the running kernel, with clones about.
LEMMA StrayingMap ==
  ASSUME TreeInv, StarvedInv, NoneLeft, pc = "running", clones # {}, ClonesUntouched, map
  PROVE  /\ ClonesUntouched'
         /\ UNCHANGED <<clones, cloning>>
<1>1. mapping # NoMapping
  BY LevelOfNoMapping DEF map, MapThroughTable, MapNewTable, MapPage
<1>2. /\ KInv /\ phase = "ready" /\ HeapOnly /\ nullptr \notin held["tables"]
      /\ ClonesApart(ram) /\ StrayOrAt(ram, mapping.level, mapping.table)
  BY <1>1, WhileReady DEF StarvedInv, ClonesUntouched
<1>3. PICK root, page, frame, level, t :
         /\ mapping = [root |-> root, page |-> page, frame |-> frame,
                       level |-> level, table |-> t]
         /\ page \in Nat /\ level \in 1 .. 4 /\ frame \in Stray
         /\ StrayOrAt(ram, level, t)
  BY <1>2 DEF HeapOnly
<1>4. /\ mapping.page = page /\ mapping.frame = frame
      /\ mapping.level = level /\ mapping.table = t
  BY <1>3
<1>5. t \in Nodes(ram, pageMap) \cup Stray
  BY <1>3, StrayOrInTree
<1> DEFINE i == Index(page, level)
<1>6. i \in Slots
  BY <1>3, IndexIsSlot
<1>7. CASE MapThroughTable
  <2>1. /\ level > 1 /\ Entry(ram, t, page, level).present
        /\ mapping' = [mapping EXCEPT !.level = @ - 1,
                                      !.table = Entry(ram, t, page, level).frame]
        /\ UNCHANGED <<held, ram, pageMap, clones, cloning>>
    BY <1>4, <1>7 DEF MapThroughTable, Below, Enter, vars, paging
  <2>2. Entry(ram, t, page, level) = Table(ram, t)[i]
    BY DEF Entry
  <2> HIDE DEF i
  <2>3. mapping'.level = level - 1 /\ mapping'.table = Table(ram, t)[i].frame
    BY <1>3, <2>1, <2>2
  <2>4. StrayOrAt(ram, level - 1, Table(ram, t)[i].frame)
    BY <1>2, <1>3, <1>6, <2>1, <2>2, StrayDown DEF ClonesApart
  <2>5. StrayOrAt(ram, mapping.level, mapping.table)'
    BY <2>1, <2>3, <2>4 DEF StrayOrAt, Stray
  <2>6. ClonesApart(ram)'
    BY <1>2, <2>1 DEF ClonesApart, Stray
  <2> QED BY <2>1, <2>5, <2>6 DEF ClonesUntouched
<1>8. CASE MapNewTable
  <2>1. /\ TakeTable(request_page(mem))
        /\ ram' = Write(Clear(ram, request_page(mem).frame), t, i,
                        To(request_page(mem).frame))
        /\ mapping' = [mapping EXCEPT !.level = @ - 1, !.table = request_page(mem).frame]
        /\ UNCHANGED <<pageMap, clones, cloning>>
    BY <1>4, <1>8 DEF MapNewTable, Enter
  <2>2. request_page(mem).frame = nullptr /\ held' = held
    BY <1>2, <2>1, NothingGranted DEF TakeTable
  <2> HIDE DEF i
  <2>3. \E old : StrayEntry(ram, ram', t, i, nullptr, old)
    BY <1>5, <1>6, <2>1, <2>2, NullEntered
  <2>4. ClonesApart(ram')
    BY <1>2, <2>3, StrayWrite
  <2>5. ClonesApart(ram)'
    BY <2>1, <2>2, <2>4, ClonesApartStays
  <2>6. mapping'.table = nullptr
    BY <1>3, <2>1, <2>2
  <2>7. StrayOrAt(ram, mapping.level, mapping.table)'
    BY <2>6 DEF StrayOrAt, Stray
  <2> QED BY <2>1, <2>5, <2>7 DEF ClonesUntouched
<1>9. CASE MapPage
  <2>1. /\ ram' = Write(ram, t, i, To(frame))
        /\ mapping' = NoMapping
        /\ UNCHANGED <<held, pageMap, clones, cloning>>
    BY <1>4, <1>9 DEF MapPage, vars
  <2> HIDE DEF i
  <2>2. StrayEntry(ram, ram', t, i, frame, Table(ram, t))
    BY <1>3, <1>5, <1>6, <2>1, WriteTable DEF StrayEntry
  <2>3. ClonesApart(ram')
    BY <1>2, <2>2, StrayWrite
  <2>4. ClonesApart(ram)'
    BY <2>1, <2>3, ClonesApartStays
  <2> QED BY <2>1, <2>4 DEF ClonesUntouched
<1> QED BY <1>7, <1>8, <1>9 DEF map

LEMMA NothingFilled ==
  ASSUME cloning = NotCloning
  PROVE  ~CloneTable /\ ~CloneEntered /\ ~CloneReturns
<1>1. cloning.level = 0
  BY LevelOfNoMapping
<1>2. ASSUME CloneTable
      PROVE  cloning.level > 1
  BY <1>2, Zenon DEF CloneTable
<1> QED BY <1>1, <1>2 DEF CloneEntered, CloneReturns

\* Of a clone only the first table is requested when none is being made.
LEMMA NoCloneBegun ==
  ASSUME TreeInv, NoMoreTables, KNext, ~NewPageMap, pc \notin {"init_physical", "lost"}
  PROVE  UNCHANGED <<cloning, clones>>
<1>1. cloning = NotCloning /\ NoneLeft
  BY DEF NoMoreTables
<1>2. CASE Scan \/ MapLowMemory \/ SwitchBitmap \/ LoseMachine
  BY <1>2 DEF Scan, MapLowMemory, MapNext, SwitchBitmap, LoseMachine, paging
<1>3. CASE MapRam \/ MapKernel \/ MapFramebuffer \/ MapTarget
  BY <1>3 DEF MapRam, MapKernel, MapFramebuffer, MapTarget, Loop, MapNext, paging
<1>4. CASE UnmapNull \/ flush_page_map \/ LockFramebuffer \/ RequestTarget
  BY <1>4 DEF UnmapNull, flush_page_map, LockFramebuffer, RequestTarget, paging
<1>5. CASE init_heap \/ expand_heap
  BY <1>5 DEF init_heap, expand_heap, HeapPage
<1>6. CASE map
  BY <1>6 DEF map, MapThroughTable, MapNewTable, MapPage, paging
<1>7. CASE clone_active_page_map
  <2>1. /\ Grant("tables", request_page(mem), 1) /\ clones' = clones
        /\ request_page(mem).frame = nullptr => cloning' = cloning
    BY <1>7 DEF clone_active_page_map
  <2> QED BY <1>1, <2>1, NothingGranted
<1>8. ~CloneTable /\ ~CloneEntered /\ ~CloneReturns
  BY <1>1, NothingFilled
<1> QED BY <1>2, <1>3, <1>4, <1>5, <1>6, <1>7, <1>8 DEF KNext, KStage1, Running

LEMMA NoMoreTablesStays ==
  ASSUME TreeInv, ForestInv, StarvedInv, NoMoreTables, KNext, ~NewPageMap,
         pc \notin {"init_physical", "lost", "init_virtual"}
  PROVE  NoMoreTables'
<1>1. NoneLeft'
  BY SearchGoesOn DEF NoMoreTables, NoneLeft
<1>2. UNCHANGED <<cloning, clones>> /\ NoneLeft /\ cloning = NotCloning
  BY NoCloneBegun DEF NoMoreTables
<1>3. ASSUME clones # {}
      PROVE  ClonesUntouched'
  <2>1. pc = "running" /\ ClonesUntouched
    BY <1>3 DEF ForestInv, NoMoreTables
  <2>2. CASE expand_heap
    <3>1. /\ Grant("heap", request_page(mem), 1) /\ Switched
          /\ \E p, f : mapping' = Mapping(active, p, f)
          /\ UNCHANGED <<ram, pageMap, clones>>
      BY <1>2, <2>2 DEF expand_heap, HeapPage, Idle, At, Switched
    <3>2. held' = held /\ active = pageMap
      BY <1>2, <2>1, <3>1, NothingGranted DEF TreeInv, Places
    <3>3. mapping' # NoMapping => mapping'.level = 4 /\ mapping'.table = pageMap
      BY <3>1, <3>2 DEF Mapping
    <3>4. mapping' # NoMapping => StrayOrAt(ram, mapping.level, mapping.table)'
      BY <3>1, <3>3 DEF StrayOrAt
    <3>5. ClonesApart(ram)'
      BY <2>1, <3>1, <3>2 DEF ClonesUntouched, ClonesApart, Stray
    <3> QED BY <3>4, <3>5 DEF ClonesUntouched
  <2>3. CASE map
    BY <1>2, <1>3, <2>1, <2>3, StrayingMap
  <2>4. CASE clone_active_page_map
    <3>1. /\ Grant("tables", request_page(mem), 1)
          /\ request_page(mem).frame = nullptr => ram' = ram
          /\ UNCHANGED <<pageMap, mapping>>
      BY <2>4 DEF clone_active_page_map, CloneUnchanged
    <3>2. held' = held /\ ram' = ram
      BY <1>2, <2>1, <3>1, NothingGranted
    <3> QED BY <1>2, <2>1, <3>1, <3>2 DEF ClonesUntouched, ClonesApart, Stray, StrayOrAt
  <2>5. ~CloneTable /\ ~CloneEntered /\ ~CloneReturns
    BY <1>2, NothingFilled
  <2> QED BY <2>1, <2>2, <2>3, <2>4, <2>5, NotSetUp DEF KNext, Running
<1> QED BY <1>1, <1>2, <1>3 DEF NoMoreTables

LEMMA StarvedUnchanged ==
  ASSUME StarvedInv, UNCHANGED kvars
  PROVE  StarvedInv'
<1>1. UNCHANGED <<mem, held, tables, ram, active, pageMap, starved, pc, mapping, cloning, clones>>
  BY DEF kvars, vars
<1>2. Known' = Known /\ Stray' = Stray /\ Switched' = Switched
  BY <1>1 DEF Known, Stray, Switched
<1>3. HeapOnly => HeapOnly'
  BY <1>1, <1>2 DEF HeapOnly
<1>4. NoMoreTables => NoMoreTables'
  BY <1>1, <1>2 DEF NoMoreTables, NoneLeft, ClonesUntouched, ClonesApart, StrayOrAt
<1>5. NoPageMap => NoPageMap'
  BY <1>1, <1>2 DEF NoPageMap, OldMap, EmptyClone
<1> QED BY <1>1, <1>3, <1>4, <1>5 DEF StarvedInv

LEMMA StarvedStep ==
  ASSUME Leftover = Empty, TreeInv, DataInv, ForestInv, StarvedInv, [KNext]_kvars
  PROVE  StarvedInv'
<1>1. CASE UNCHANGED kvars
  BY <1>1, StarvedUnchanged
<1>2. CASE KNext
  <2>1. nullptr \notin held'["tables"]
    <3>1. CASE pc \notin {"init_physical", "lost"}
      BY <3>1, SearchGoesOn DEF StarvedInv
    <3>2. CASE pc \in {"init_physical", "lost"}
      <4>1. ~NewPageMap
        BY <3>2 DEF NewPageMap, At
      <4>2. pc' \in {"init_physical", "lost", "init_virtual"}
        BY <1>2, <3>2, <4>1, StillWithoutPageMap
      <4>3. ForestInv'
        BY ForestNext
      <4> QED BY <4>2, <4>3 DEF ForestInv
    <3> QED BY <3>1, <3>2
  <2>2. pc' = "running" /\ mapping' # NoMapping => HeapOnly'
    BY HeapOnlyStays
  <2>3. ASSUME pc' \notin {"init_physical", "lost", "init_virtual"}
        PROVE  IF starved' THEN NoMoreTables' \/ NoPageMap'
               ELSE mem'.FirstFreePage > 0 /\ pageMap' \notin clones'
    <3>1. CASE NewPageMap
      BY <3>1, NewPageMapStarved
    <3>2. CASE ~NewPageMap
      <4>1. pc \notin {"init_physical", "lost", "init_virtual"}
        BY <1>2, <2>3, <3>2, StillWithoutPageMap
      <4>2. ASSUME ~starved, ~starved'
            PROVE  mem'.FirstFreePage > 0 /\ pageMap' \notin clones'
        BY <1>2, <3>2, <4>1, <4>2, NotStarvedStays DEF StarvedInv
      <4>3. ASSUME ~starved, starved'
            PROVE  NoMoreTables'
        <5>1. MapNewTable
          <6>1. starved' = starved \/ MapNewTable
            BY <1>2, <3>2, WhoChanges
          <6> QED BY <4>3, <6>1
        <5> QED BY <4>1, <4>3, <5>1, ShortageBegins
      <4>4. ASSUME starved, NoMoreTables
            PROVE  NoMoreTables'
        BY <1>2, <3>2, <4>1, <4>4, NoMoreTablesStays
      <4>5. ASSUME starved, NoPageMap
            PROVE  NoPageMap'
        BY <1>2, <3>2, <4>1, <4>5, NoPageMapStays
      <4>6. starved => NoMoreTables \/ NoPageMap
        BY <4>1 DEF StarvedInv
      <4>7. ~starved' => ~starved
        BY <1>2, <3>2, HistoryGrows
      <4> QED BY <4>2, <4>3, <4>4, <4>5, <4>6, <4>7
    <3> QED BY <3>1, <3>2
  <2> QED BY <2>1, <2>2, <2>3 DEF StarvedInv
<1> QED BY <1>1, <1>2

-----------------------------------------------------------------------------
(* The clones.                                                             *)

LEMMA ClonesApartFromAll ==
  ASSUME Leftover = Empty, TreeInv, ForestInv, StarvedInv
  PROVE  ClonesArePrivate
<1> SUFFICES ASSUME NEW c \in clones, NEW d \in (clones \ {c}) \cup {active}
             PROVE  Nodes(ram, c) \cap Nodes(ram, d) = {}
  BY NodesArePageTables DEF ClonesArePrivate
<1>1. pc = "running" /\ Switched /\ active = pageMap
  BY DEF ForestInv, TreeInv, Places, Switched
<1>2. CASE ~starved
  <2> DEFINE x == <<c, 4>>
             y == <<d, 4>>
  <2>1. pageMap \notin clones
    BY <1>1, <1>2 DEF StarvedInv
  <2>2. x # y
    BY <1>1, <2>1
  <2>3. Forest(ram, Parts, held["tables"])
    BY <1>1, <1>2, WhileForest
  <2>4. x \in Parts /\ y \in Parts
    BY <1>1 DEF Parts
  <2>5. PartTables(ram, x) = Nodes(ram, c) /\ PartTables(ram, y) = Nodes(ram, d)
    BY RootPart
  <2> HIDE DEF x, y
  <2> QED BY <2>2, <2>3, <2>4, <2>5 DEF Forest
<1>3. CASE starved /\ NoMoreTables
  <2>1. ClonesApart(ram)
    BY <1>3 DEF NoMoreTables, ClonesUntouched
  <2> QED BY <1>1, <2>1 DEF ClonesApart
<1>4. CASE starved /\ NoPageMap
  <2>1. /\ pageMap = nullptr /\ Table(ram, nullptr) = Empty
        /\ \A e \in clones : e \in held["tables"] /\ Table(ram, e) = Empty
        /\ nullptr \notin held["tables"]
    BY <1>4 DEF NoPageMap, Table, StarvedInv
  <2>2. \A e : Table(ram, e) = Empty => Nodes(ram, e) = {e}
    BY EmptyPart, RootPart
  <2>3. Table(ram, c) = Empty /\ Table(ram, d) = Empty /\ c # d
    BY <1>1, <2>1
  <2> QED BY <2>2, <2>3
<1> QED BY <1>1, <1>2, <1>3, <1>4 DEF StarvedInv

LEMMA CloneReturnsExact ==
  ASSUME Leftover = Empty, TreeInv, ForestInv, StarvedInv, KNext,
         NEW c \in clones' \ clones, NEW p \in Mapped
  PROVE  Leaf(ram, c, p) = Leaf(ram, active, p)
<1>1. CloneReturns
  <2>1. NewPageMap => clones' = clones
    BY DEF NewPageMap
  <2> QED BY <2>1, WhoChanges
<1>2. /\ cloning.level = 4 /\ ToCopy = {} /\ c = cloning.new[4]
      /\ cloning # NotCloning
  BY <1>1, LevelOfNoMapping DEF CloneReturns
<1>3. KInv /\ pc = "running" /\ active = pageMap
  BY <1>2 DEF TreeInv, KInv, InOrder, Places, Switched
<1>4. p \in Nat
  BY <1>3, MappedPages, Entries DEF Pages
<1>5. CASE ~starved
  <2>1. CloneFilled
    BY <1>2, <1>5, WhileCloning
  <2>2. 4 \in cloning.level .. 4
    BY <1>2
  <2>3. /\ cloning.old[4] = pageMap /\ cloning.slot[4] \in 0 .. EntriesPerTable
        /\ FilledUpTo(ram, pageMap, c, cloning.slot[4], 4)
    BY <1>2, <2>1, <2>2 DEF CloneFilled, Filling
  <2>4. cloning.slot[4] \in Nat
    BY <2>3, Entries
  <2>5. \A j \in Slots : cloning.slot[4] <= j => ~Table(ram, pageMap)[j].present
    <3> SUFFICES ASSUME NEW j \in Slots, cloning.slot[4] <= j,
                        Table(ram, pageMap)[j].present
                 PROVE  FALSE
      OBVIOUS
    <3>1. j \in cloning.slot[4] .. EntriesPerTable - 1
      BY <2>4, Entries DEF Slots
    <3>2. j \in ToCopy
      BY <1>2, <2>3, <3>1 DEF ToCopy, OldTable
    <3> QED BY <1>2, <3>2
  <2>6. \A i \in Slots : EntryAlike(ram, Table(ram, pageMap)[i], Table(ram, c)[i], 4)
    BY <2>3, <2>4, <2>5, FilledIsAlike
  <2> QED BY <1>3, <1>4, <2>6, AlikeLeads
<1>6. CASE starved
  <2>1. NoPageMap
    BY <1>2, <1>3, <1>6 DEF StarvedInv, NoMoreTables
  <2>2. Table(ram, c) = Empty /\ active = nullptr
    BY <1>1, <1>2, <2>1, NoPageMapClone
  <2>3. Table(ram, active) = Empty
    BY <2>1, <2>2 DEF NoPageMap, Table
  <2> QED BY <2>2, <2>3 DEF Leaf, Entry
<1> QED BY <1>5, <1>6

(* clone_active_page_map makes tables of its own for all that it copies,   *)
(* also when a request in between finds no memory: no later map() in the   *)
(* active page map, not even one without memory for tables, and no other   *)
(* clone ever writes to them.                                              *)
THEOREM ClonesStayPrivate ==
  ASSUME Leftover = Empty
  PROVE  KSpec => []ClonesArePrivate
<1>1. KInit => TreeInv /\ DataInv /\ ForestInv /\ StarvedInv
  BY TreeInit, DataInit, ForestInit, StarvedInit
<1>2. /\ TreeInv /\ DataInv /\ ForestInv /\ StarvedInv
      /\ [KNext]_kvars
      => (TreeInv /\ DataInv /\ ForestInv /\ StarvedInv)'
  BY TreeStep, DataStep, ForestNext, StarvedStep
<1>3. TreeInv /\ ForestInv /\ StarvedInv => ClonesArePrivate
  BY ClonesApartFromAll
<1> QED BY <1>1, <1>2, <1>3, PTL DEF KSpec

(* "an exact copy of the currently active page map": what is returned      *)
(* leads every page the kernel maps where the active page map leads it,    *)
(* although the tables above the last level are filled without being       *)
(* cleared first, and the copying is spread over as many requests as the   *)
(* page map has tables.                                                    *)
THEOREM ClonesAreExact ==
  ASSUME Leftover = Empty
  PROVE  KSpec => CloneIsExact
<1>1. KInit => TreeInv /\ DataInv /\ ForestInv /\ StarvedInv
  BY TreeInit, DataInit, ForestInit, StarvedInit
<1>2. /\ TreeInv /\ DataInv /\ ForestInv /\ StarvedInv
      /\ [KNext]_kvars
      => (TreeInv /\ DataInv /\ ForestInv /\ StarvedInv)'
  BY TreeStep, DataStep, ForestNext, StarvedStep
<1>3. TreeInv /\ ForestInv /\ StarvedInv /\ [KNext]_kvars =>
         [\A c \in clones' \ clones : \A p \in Mapped :
              Leaf(ram, c, p) = Leaf(ram, active, p)]_kvars
  BY CloneReturnsExact
<1> QED BY <1>1, <1>2, <1>3, PTL DEF KSpec, CloneIsExact

-----------------------------------------------------------------------------
(***************************************************************************)
(* Where page tables are read and written.                                 *)
(*                                                                         *)
(* Until flush_page_map the page map that _start loaded is active.  It     *)
(* maps the frames of pml1 to themselves, and those that init_physical has *)
(* got to: its entries in pml2 lead to different tables, and nothing that  *)
(* init_virtual does reaches those; only the final bitmap may be put over  *)
(* them.  What is beyond, the kernel would fault on, if it were given such *)
(* a frame for a page table.                                               *)
(***************************************************************************)
LowMapped == IF pc = "init_physical" THEN Done ELSE FramesMapped
TablesSpared == phase = "ready" => OverwrittenFrames \cap tables = {}
InReach(t) == t < EntriesPerTable \/ (t < LowMapped /\ TablesSpared)

\* Every page table that there is before the switch of page maps lies among the
\* frames that are mapped so far.  When the final bitmap has been put over one of
\* init_physical's tables, those of pml1 alone are.  (So it is on all machines of
\* the run, up to a panic.)
TablesInReach ==
    ~Switched =>
        /\ ~panicked
        /\ \A t \in {pml4, pml3, pml2, pml1} \cup tables \cup held["tables"] : InReach(t)

LowTables == {pml1} \cup tables
LowEntry(r, p) == Table(r, pml2)[p \div EntriesPerTable]

LowEntries(r, S) ==
    /\ \A i \in Slots : Table(r, pml2)[i].present =>
          /\ Table(r, pml2)[i].frame \in S \ Upper
          /\ DOMAIN Table(r, Table(r, pml2)[i].frame) = Slots
    /\ NoSharing(r, {pml2})

LowPage(r, p) ==
    /\ LowEntry(r, p).present
    /\ Table(r, LowEntry(r, p).frame)[p % EntriesPerTable] = To(p)

LowWalk ==
    IF mapping.level = 1 THEN Leads(LowEntry(ram, mapping.page), mapping.table)
    ELSE mapping.table \in Upper

BeforeUnmap == pc \in {"init_physical", "init_virtual", "map_ram", "map_kernel", "unmap_null"}

LowMap ==
    /\ LowEntries(ram, LowTables)
    /\ \A p \in Nat : InReach(p) => LowPage(ram, p)
    /\ pc = "init_physical" => at <= FramesMapped /\ (mapping # NoMapping => LowWalk)

LowInv ==
    /\ BeforeUnmap /\ ~panicked /\ ~starved => LowMap
    /\ \A t \in held["tables"] : t < mem.TotalPages

LEMMA LowIsPage ==
  ASSUME NEW p \in Nat, p < EntriesPerTable * EntriesPerTable
  PROVE  /\ p \div EntriesPerTable \in Slots
         /\ p % EntriesPerTable \in Slots
         /\ Index(p, 4) = 0 /\ Index(p, 3) = 0
         /\ Index(p, 2) = p \div EntriesPerTable
         /\ Index(p, 1) = p % EntriesPerTable
<1>1. EntriesPerTable \in Nat \ {0} /\ Span[1] = 1
  BY Entries DEF Span
<1>2. p \div 1 = p
  OBVIOUS
<1>3. Index(p, 1) = p % EntriesPerTable
  BY <1>1, <1>2 DEF Index
<1>4. Index(p, 1) \in Slots
  BY IndexIsSlot
<1> QED BY <1>3, <1>4, LowIndexes

\* Two pages whose entries are in the same place are one.
LEMMA OneLowPage ==
  ASSUME NEW p \in Nat, NEW q \in Nat,
         p \div EntriesPerTable = q \div EntriesPerTable,
         p % EntriesPerTable = q % EntriesPerTable
  PROVE  p = q
<1> DEFINE n == EntriesPerTable
<1>1. n \in Nat \ {0} /\ p \div n = q \div n /\ p % n = q % n
  BY Entries
<1> HIDE DEF n
<1>2. p = (p \div n) * n + (p % n) /\ q = (q \div n) * n + (q % n)
  BY <1>1, DivMod
<1> QED BY <1>1, <1>2, Zenon

LEMMA LowPageIsMapped ==
  ASSUME NEW r, NEW p \in Nat, p < EntriesPerTable * EntriesPerTable,
         Table(r, pml4)[0] = To(pml3), Table(r, pml3)[0] = To(pml2), LowPage(r, p)
  PROVE  Maps(r, pml4, p, p)
<1>1. /\ Index(p, 4) = 0 /\ Index(p, 3) = 0
      /\ Index(p, 2) = p \div EntriesPerTable
      /\ Index(p, 1) = p % EntriesPerTable
  BY LowIsPage
<1>2. /\ Entry(r, pml4, p, 4) = To(pml3)
      /\ Follow(r, To(pml3), p, 3) = To(pml2)
      /\ Follow(r, To(pml2), p, 2) = LowEntry(r, p)
  BY <1>1 DEF Entry, Follow, To, LowEntry
<1>3. Follow(r, LowEntry(r, p), p, 1) = To(p)
  BY <1>1 DEF LowPage, Follow, Entry
<1> QED BY <1>2, <1>3 DEF Maps, Leaf

LEMMA FramesMappedIs ==
  ASSUME KInv
  PROVE  /\ FramesMapped \in Nat /\ mem.TotalPages \in Nat
         /\ FramesMapped <= EntriesPerTable * EntriesPerTable
         /\ EntriesPerTable <= EntriesPerTable * EntriesPerTable
         /\ EntriesPerTable * EntriesPerTable \in Nat
         /\ EntriesPerTable \in Nat \ {0}
<1>1. mem.TotalPages \in Nat
  BY DEF KInv, IInv, TypeOK, PageFramesType
<1>2. /\ InitialPageBitmapPageCount \in Nat /\ EntriesPerTable \in Nat \ {0}
      /\ InitialPageBitmapPageCount <= EntriesPerTable * EntriesPerTable
  BY ConstantsAssumption, KernelMemoryAssumption
<1>3. /\ EntriesPerTable * EntriesPerTable \in Nat
      /\ EntriesPerTable <= EntriesPerTable * EntriesPerTable
  BY <1>2
<1> QED BY <1>1, <1>2, <1>3 DEF FramesMapped

\* What is mapped to itself is within the tables of pml2.
LEMMA LowIsReached ==
  ASSUME TreeInv, pc = "init_physical" => at <= FramesMapped, NEW p \in Nat, InReach(p)
  PROVE  p < EntriesPerTable * EntriesPerTable
<1>1. /\ FramesMapped \in Nat /\ at \in Nat
      /\ FramesMapped <= EntriesPerTable * EntriesPerTable
      /\ EntriesPerTable <= EntriesPerTable * EntriesPerTable
      /\ EntriesPerTable * EntriesPerTable \in Nat
      /\ EntriesPerTable \in Nat \ {0}
  BY FramesMappedIs DEF TreeInv, Places
<1> DEFINE end == EntriesPerTable * EntriesPerTable
<1>2. LowMapped \in Int /\ LowMapped <= FramesMapped
  BY <1>1 DEF LowMapped, Done
<1>3. /\ FramesMapped \in Nat /\ FramesMapped <= end /\ EntriesPerTable <= end
      /\ end \in Nat /\ EntriesPerTable \in Nat
  BY <1>1
<1> HIDE DEF end
<1>4. p < end
  BY <1>2, <1>3 DEF InReach
<1> QED BY <1>4 DEF end

-----------------------------------------------------------------------------
(* The tables behind pml2 under writes.                                    *)

LEMMA LowElsewhere ==
  ASSUME NEW r, NEW s, NEW S, LowEntries(r, S),
         \A t \in S \cup {pml2} : Table(s, t) = Table(r, t)
  PROVE  /\ LowEntries(s, S)
         /\ \A p \in Nat : p < EntriesPerTable * EntriesPerTable /\ LowPage(r, p) => LowPage(s, p)
<1>1. Table(s, pml2) = Table(r, pml2)
  OBVIOUS
<1>2. ASSUME NEW i \in Slots, Table(r, pml2)[i].present
      PROVE  Table(s, Table(r, pml2)[i].frame) = Table(r, Table(r, pml2)[i].frame)
  BY <1>2 DEF LowEntries
<1>3. LowEntries(s, S)
  BY <1>1, <1>2 DEF LowEntries, NoSharing
<1>4. ASSUME NEW p \in Nat, p < EntriesPerTable * EntriesPerTable, LowPage(r, p)
      PROVE  LowPage(s, p)
  BY <1>1, <1>2, <1>4, LowIsPage DEF LowPage, LowEntry
<1> QED BY <1>3, <1>4

LEMMA LowTableEntered ==
  ASSUME NEW r, NEW s, NEW S, NEW i \in Slots, NEW f, LowEntries(r, S),
         f \notin S \cup Upper, DOMAIN Table(r, pml2) = Slots, ~Table(r, pml2)[i].present,
         Entered(r, s, pml2, i, f)
  PROVE  /\ LowEntries(s, S \cup {f})
         /\ Table(s, pml2)[i] = To(f)
         /\ \A p \in Nat : p < EntriesPerTable * EntriesPerTable /\ LowPage(r, p) => LowPage(s, p)
<1>1. /\ Table(s, pml2)[i] = To(f)
      /\ \A j \in Slots \ {i} : Table(s, pml2)[j] = Table(r, pml2)[j]
      /\ Table(s, f) = Empty
      /\ \A t : t # pml2 /\ t # f => Table(s, t) = Table(r, t)
  BY DEF Entered, Upper
<1>2. ASSUME NEW j \in Slots, j # i, Table(r, pml2)[j].present
      PROVE  /\ Table(r, pml2)[j].frame \in S \ Upper
             /\ Table(r, pml2)[j].frame # f
             /\ Table(s, Table(r, pml2)[j].frame) = Table(r, Table(r, pml2)[j].frame)
  BY <1>1, <1>2 DEF LowEntries, Upper
<1>3. ASSUME NEW j \in Slots, Table(s, pml2)[j].present
      PROVE  /\ Table(s, pml2)[j].frame \in (S \cup {f}) \ Upper
             /\ DOMAIN Table(s, Table(s, pml2)[j].frame) = Slots
             /\ Table(s, pml2)[j].frame = f => j = i
  <2>1. CASE j = i
    <3>1. Table(s, pml2)[j].frame = f /\ f \notin Upper
      BY <1>1, <2>1 DEF To
    <3>2. DOMAIN Table(s, f) = Slots
      BY <1>1 DEF Empty
    <3> QED BY <2>1, <3>1, <3>2
  <2>2. CASE j # i
    BY <1>1, <1>2, <1>3, <2>2 DEF LowEntries
  <2> QED BY <2>1, <2>2
<1>4. NoSharing(s, {pml2})
  <2> SUFFICES ASSUME NEW j \in Slots, NEW k \in Slots,
                      Table(s, pml2)[j].present, Table(s, pml2)[k].present,
                      Table(s, pml2)[j].frame = Table(s, pml2)[k].frame
               PROVE  j = k
    BY DEF NoSharing
  <2>1. j = i <=> k = i
    BY <1>1, <1>3 DEF To
  <2>2. CASE j # i /\ k # i
    BY <1>1, <2>2 DEF LowEntries, NoSharing
  <2> QED BY <2>1, <2>2
<1>5. LowEntries(s, S \cup {f})
  BY <1>3, <1>4 DEF LowEntries
<1>6. ASSUME NEW p \in Nat, p < EntriesPerTable * EntriesPerTable, LowPage(r, p)
      PROVE  LowPage(s, p)
  <2>1. p \div EntriesPerTable \in Slots /\ p \div EntriesPerTable # i
    BY <1>6, LowIsPage DEF LowPage, LowEntry
  <2> QED BY <1>1, <1>2, <1>6, <2>1 DEF LowPage, LowEntry
<1> QED BY <1>1, <1>5, <1>6

LEMMA LowPageWritten ==
  ASSUME NEW r, NEW S, LowEntries(r, S), NEW p \in Nat,
         p < EntriesPerTable * EntriesPerTable, NEW t, Leads(LowEntry(r, p), t)
  PROVE  LET s == Write(r, t, Index(p, 1), To(p)) IN
         /\ LowEntries(s, S)
         /\ LowPage(s, p)
         /\ \A q \in Nat : q < EntriesPerTable * EntriesPerTable /\ LowPage(r, q) => LowPage(s, q)
<1> DEFINE i == p \div EntriesPerTable
           k == p % EntriesPerTable
           s == Write(r, t, k, To(p))
<1>1. i \in Slots /\ k \in Slots /\ Index(p, 1) = k
  BY LowIsPage
<1>2. Table(r, pml2)[i].present /\ Table(r, pml2)[i].frame = t
  BY DEF Leads, LowEntry
<1> HIDE DEF i, k
<1>3. t \notin Upper /\ DOMAIN Table(r, t) = Slots
  BY <1>1, <1>2 DEF LowEntries
<1>4. /\ Table(s, t) = [Table(r, t) EXCEPT ![k] = To(p)]
      /\ \A u : u # t => Table(s, u) = Table(r, u)
  BY WriteTable
<1> HIDE DEF s
<1>5. Table(s, pml2) = Table(r, pml2) /\ \A u : DOMAIN Table(s, u) = DOMAIN Table(r, u)
  BY <1>3, <1>4 DEF Upper
<1>6. LowEntries(s, S)
  BY <1>5 DEF LowEntries, NoSharing
<1>7. LowPage(s, p)
  BY <1>1, <1>2, <1>3, <1>4, <1>5 DEF LowPage, LowEntry, i, k
<1>8. ASSUME NEW q \in Nat, q < EntriesPerTable * EntriesPerTable, LowPage(r, q)
      PROVE  LowPage(s, q)
  <2> DEFINE j == q \div EntriesPerTable
  <2>1. j \in Slots /\ q % EntriesPerTable \in Slots
    BY <1>8, LowIsPage
  <2>2. /\ Table(r, pml2)[j].present
        /\ Table(r, Table(r, pml2)[j].frame)[q % EntriesPerTable] = To(q)
    BY <1>8 DEF LowPage, LowEntry
  <2> HIDE DEF j
  <2>3. CASE Table(r, pml2)[j].frame = t
    <3>1. j = i
      BY <1>1, <1>2, <2>1, <2>2, <2>3 DEF LowEntries, NoSharing
    <3>2. CASE q % EntriesPerTable = k
      <4>1. q = p
        BY <3>1, <3>2, OneLowPage DEF i, j, k
      <4> QED BY <1>7, <4>1
    <3>3. CASE q % EntriesPerTable # k
      <4>1. Table(s, t)[q % EntriesPerTable] = Table(r, t)[q % EntriesPerTable]
        BY <1>3, <1>4, <2>1, <3>3
      <4> QED BY <1>5, <2>2, <2>3, <4>1 DEF LowPage, LowEntry, j
    <3> QED BY <3>2, <3>3
  <2>4. CASE Table(r, pml2)[j].frame # t
    BY <1>4, <1>5, <2>2, <2>4 DEF LowPage, LowEntry, j
  <2> QED BY <2>3, <2>4
<1> QED BY <1>1, <1>6, <1>7, <1>8 DEF s

-----------------------------------------------------------------------------
(* The page map of init_physical, step by step.                            *)

LEMMA LowInit ==
  ASSUME KInit
  PROVE  LowInv
<1>1. /\ ram = Prekernel /\ pc = "init_physical" /\ at = 0 /\ mapping = NoMapping
      /\ held["tables"] = {} /\ mem.TotalPages \in Nat
  BY KernelMemoryAssumption DEF KInit, Init, PowerOn
<1>2. FramesMapped \in Nat /\ 0 <= FramesMapped
  BY <1>1, ConstantsAssumption DEF FramesMapped
<1>3. /\ pml1 \in DOMAIN Prekernel
      /\ pml1 # pml4 /\ pml1 # pml3 /\ pml1 # pml2 /\ pml1 # PrekernelTables[3]
  BY KernelMemoryAssumption DEF Prekernel, pml4, pml3, pml2, pml1
<1>4. Table(ram, pml1) = [i \in Slots |-> To(i)]
  BY <1>1, <1>3 DEF Table, Prekernel, pml4, pml3, pml2, pml1
<1>5. Table(ram, pml2) = [Empty EXCEPT ![0] = To(pml1)]
  BY <1>1, PrekernelTablesAre
<1>6. \A i \in Slots :
         /\ Table(ram, pml2)[i].present => i = 0
         /\ i = 0 => Table(ram, pml2)[i] = To(pml1)
  BY <1>5, Entries DEF Empty, Absent
<1>7. \A i \in Slots : Table(ram, pml2)[i].present => Table(ram, pml2)[i].frame = pml1
  BY <1>6 DEF To
<1>8. LowEntries(ram, LowTables)
  <2>1. DOMAIN Table(ram, pml1) = Slots
    BY <1>4
  <2>2. NoSharing(ram, {pml2})
    BY <1>6 DEF NoSharing
  <2> QED BY <1>7, <2>1, <2>2, KernelTables DEF LowEntries, LowTables
<1>9. ASSUME NEW p \in Nat, InReach(p)
      PROVE  LowPage(ram, p)
  <2>1. LowMapped = 0
    BY <1>1 DEF LowMapped, Done
  <2>2. p < EntriesPerTable /\ EntriesPerTable \in Nat \ {0}
    BY <1>9, <2>1, Entries DEF InReach
  <2>3. p \div EntriesPerTable = 0 /\ p % EntriesPerTable = p /\ p \in Slots
    BY <2>2 DEF Slots
  <2>4. LowEntry(ram, p) = To(pml1)
    BY <1>6, <2>3, Entries DEF LowEntry
  <2>5. LowEntry(ram, p).present /\ LowEntry(ram, p).frame = pml1
    BY <2>4 DEF To
  <2>6. Table(ram, pml1)[p % EntriesPerTable] = To(p)
    BY <1>4, <2>3
  <2> QED BY <2>5, <2>6 DEF LowPage
<1> QED BY <1>1, <1>2, <1>8, <1>9 DEF LowInv, LowMap

\* When nothing is written to the tables that are reached from pml2.
LEMMA LowStays ==
  ASSUME TreeInv, LowMap, tables' = tables,
         \A t \in LowTables \cup {pml2} : Table(ram', t) = Table(ram, t),
         \A p \in Nat : InReach(p)' => InReach(p),
         pc' = "init_physical" =>
             at' <= FramesMapped' /\ (mapping' # NoMapping => LowWalk')
  PROVE  LowMap'
<1>1. LowEntries(ram, LowTables)
  BY DEF LowMap
<1>2. /\ LowEntries(ram', LowTables)
      /\ \A p \in Nat : p < EntriesPerTable * EntriesPerTable /\ LowPage(ram, p) =>
                            LowPage(ram', p)
  BY <1>1, LowElsewhere
<1>3. ASSUME NEW p \in Nat, InReach(p)'
      PROVE  LowPage(ram', p)
  <2>1. InReach(p) /\ LowPage(ram, p)
    BY <1>3 DEF LowMap
  <2>2. p < EntriesPerTable * EntriesPerTable
    BY <2>1, LowIsReached DEF LowMap
  <2> QED BY <1>2, <2>1, <2>2
<1>4. LowTables' = LowTables
  BY DEF LowTables
<1> QED BY <1>2, <1>3, <1>4 DEF LowMap

LEMMA ScanLow ==
  ASSUME TreeInv, KInv', LowMap, Scan
  PROVE  LowMap'
<1>1. /\ phase = "scan" /\ phase' # "ready"
      /\ UNCHANGED <<tables, pc, at, mapping, ram>>
  BY DEF Scan, paging, ScanDescriptor, HaltWithoutSegment, UseInitialBitmap
<1>2. pc = "init_physical" /\ mapping = NoMapping /\ at = 0
  BY <1>1 DEF TreeInv, KInv, InOrder, Booting
<1>3. FramesMapped' \in Nat
  <2>1. mem'.TotalPages \in Nat
    BY DEF KInv, IInv, TypeOK, PageFramesType
  <2> QED BY <2>1, ConstantsAssumption DEF FramesMapped
<1>4. \A p \in Nat : InReach(p)' <=> InReach(p)
  BY <1>1, <1>2 DEF InReach, LowMapped, Done, TablesSpared
<1>5. at' <= FramesMapped'
  BY <1>1, <1>2, <1>3
<1> QED BY <1>1, <1>2, <1>4, <1>5, LowStays

LEMMA MapLowMemoryLow ==
  ASSUME TreeInv, LowMap, MapLowMemory
  PROVE  LowMap'
<1>1. /\ phase = "map" /\ pc = "init_physical" /\ mapping = NoMapping
      /\ at < FramesMapped
      /\ mapping' = Mapping(active, at, at)
      /\ at' = at + 1
      /\ UNCHANGED <<mem, tables, phase, pc, ram, active>>
  BY DEF MapLowMemory, At, MapNext, paging, vars
<1>2. at \in Nat /\ FramesMapped \in Nat /\ active = pml4
  BY <1>1, FramesMappedIs, WhileBooting DEF TreeInv, Places, OldMap
<1>3. /\ mapping'.level = 4 /\ mapping'.table = pml4 /\ mapping' # NoMapping
  BY <1>1, <1>2, KernelTables, LevelOfNoMapping DEF Mapping
<1>4. FramesMapped' = FramesMapped
  BY <1>1 DEF FramesMapped
<1>5. \A p \in Nat : InReach(p)' <=> InReach(p)
  <2>1. LowMapped' = LowMapped
    BY <1>1, <1>2, <1>3 DEF LowMapped, Done
  <2> QED BY <1>1, <2>1 DEF InReach, TablesSpared
<1>6. at' <= FramesMapped' /\ LowWalk'
  BY <1>1, <1>2, <1>3, <1>4 DEF LowWalk, Upper
<1> QED BY <1>1, <1>5, <1>6, LowStays

LEMMA SwitchBitmapLow ==
  ASSUME TreeInv, LowMap, SwitchBitmap
  PROVE  LowMap'
<1>1. /\ phase = "map" /\ pc = "init_physical" /\ pc' = "init_virtual" /\ phase' = "ready"
      /\ mapping = NoMapping /\ at >= FramesMapped
      /\ mem' = FinalBitmap(mem)
      /\ ram' = Overwritten(Garbled) /\ BitmapIsWritable
      /\ UNCHANGED <<tables, largest>>
  BY DEF SwitchBitmap, At, Go
<1>2. KInv /\ at \in Nat /\ FramesMapped \in Nat /\ OldMap
  BY <1>1, FramesMappedIs, WhileBooting DEF TreeInv, Places
<1>3. mem'.TotalPages = mem.TotalPages
  BY <1>1, <1>2, FinalBitmapSound DEF KInv
<1>4. FramesMapped' = FramesMapped /\ OverwrittenFrames' = OverwrittenFrames
  BY <1>1, <1>3 DEF FramesMapped, OverwrittenFrames, Overwrites, FinalBuffer, bitmapSize
<1>5. /\ \A t \in {pml2, pml1} : Table(ram', t) = Table(ram, t)
      /\ \A t : t \notin OverwrittenFrames => Table(ram', t) = Table(ram, t)
      /\ \A t : DOMAIN Table(ram, t) = Slots => DOMAIN Table(ram', t) = Slots
  BY <1>1, KernelTables, OverwrittenTables, KernelSpared
<1>6. LowEntries(ram, LowTables)
  BY DEF LowMap
<1>7. LowEntries(ram', LowTables') /\ LowTables' = LowTables
  BY <1>1, <1>5, <1>6 DEF LowEntries, NoSharing, LowTables
<1>8. ASSUME NEW p \in Nat, InReach(p)'
      PROVE  LowPage(ram', p)
  <2>1. LowMapped = at /\ LowMapped' = FramesMapped /\ TablesSpared
    BY <1>1, <1>4 DEF LowMapped, Done, TablesSpared
  <2>2. InReach(p)
    BY <1>1, <1>2, <1>8, <2>1 DEF InReach
  <2>3. LowPage(ram, p) /\ p < EntriesPerTable * EntriesPerTable
    BY <1>1, <1>2, <2>2, LowIsReached DEF LowMap
  <2>4. p \div EntriesPerTable \in Slots /\ LowEntry(ram', p) = LowEntry(ram, p)
    BY <1>5, <2>3, LowIsPage DEF LowEntry
  <2>5. LowEntry(ram, p).frame \in LowTables
    BY <1>6, <2>3, <2>4 DEF LowEntries, LowEntry, LowPage
  <2>6. Table(ram', LowEntry(ram, p).frame) = Table(ram, LowEntry(ram, p).frame)
    <3>1. CASE LowEntry(ram, p).frame = pml1
      BY <1>5, <3>1
    <3>2. CASE LowEntry(ram, p).frame # pml1 /\ p < EntriesPerTable
      <4>1. p \div EntriesPerTable = 0
        BY <3>2, Entries
      <4> QED BY <1>2, <3>2, <4>1 DEF LowEntry, OldMap, To
    <3>3. CASE LowEntry(ram, p).frame # pml1 /\ ~(p < EntriesPerTable)
      <4>1. OverwrittenFrames \cap tables = {}
        BY <1>1, <1>4, <1>8, <3>3 DEF InReach, TablesSpared
      <4> QED BY <1>5, <2>5, <3>3, <4>1 DEF LowTables
    <3> QED BY <3>1, <3>2, <3>3
  <2> QED BY <2>3, <2>4, <2>6 DEF LowPage
<1>9. pc' # "init_physical"
  BY <1>1
<1> QED BY <1>7, <1>8, <1>9 DEF LowMap

\* map() while init_physical runs.
LEMMA BootWalk ==
  ASSUME TreeInv, LowMap, map, pc = "init_physical"
  PROVE  /\ KInv /\ phase = "map" /\ mapping.level > 0 /\ mapping # NoMapping
         /\ Walking /\ OldMap /\ at \in Nat /\ at <= FramesMapped
         /\ mapping.page = at - 1 /\ mapping.frame = at - 1 /\ mapping.page \in Nat
         /\ mapping.page < EntriesPerTable * EntriesPerTable
         /\ Index(mapping.page, 2) \in Slots
         /\ mapping.level = 2 => Below = LowEntry(ram, mapping.page)
         /\ UNCHANGED <<pc, at, active>>
<1>1. KInv /\ OldMap /\ phase \in {"scan", "map", "halted"}
  BY WhileBooting
<1>2. mapping # NoMapping
  BY LevelOfNoMapping DEF map, MapThroughTable, MapNewTable, MapPage
<1>3. phase = "map" /\ mapping.level > 0
  <2>1. phase = "map"
    BY <1>1, <1>2 DEF KInv, InOrder, Booting
  <2> QED BY <1>1, <1>2, <2>1, WhileMapping DEF MapsLowMemory, Walking
<1>4. /\ Walking /\ mapping.page = at - 1 /\ mapping.page \in Nat /\ at \in Nat
      /\ mapping.page < EntriesPerTable * EntriesPerTable
  BY <1>1, <1>3, WalkFacts
<1>5. mapping.frame = at - 1
  BY <1>4 DEF Walking
<1>6. mapping.level = 2 => Below = LowEntry(ram, mapping.page)
  <2>1. Index(mapping.page, 2) = mapping.page \div EntriesPerTable
    BY <1>4, LowIndexes
  <2>2. mapping.level = 2 => mapping.table = pml2
    BY <1>4 DEF Walking
  <2> QED BY <2>1, <2>2 DEF Below, Entry, LowEntry
<1>7. Index(mapping.page, 2) \in Slots
  BY <1>4, IndexIsSlot
<1>8. UNCHANGED <<pc, at, active>>
  BY DEF map, MapThroughTable, MapNewTable, MapPage, paging
<1>9. at <= FramesMapped
  BY DEF LowMap
<1> QED BY <1>1, <1>2, <1>3, <1>4, <1>5, <1>6, <1>7, <1>8, <1>9

LEMMA LowThroughTable ==
  ASSUME TreeInv, LowMap, MapThroughTable, pc = "init_physical"
  PROVE  LowMap'
<1>1. /\ KInv /\ phase = "map" /\ mapping # NoMapping
      /\ Walking /\ at <= FramesMapped
      /\ mapping.level = 2 => Below = LowEntry(ram, mapping.page)
      /\ UNCHANGED <<pc, at>>
  BY BootWalk DEF map
<1>2. /\ mapping.level > 1 /\ Below.present
      /\ mapping' = [mapping EXCEPT !.level = @ - 1, !.table = Below.frame]
      /\ UNCHANGED <<mem, tables, phase, ram>>
  BY DEF MapThroughTable, Enter, paging, vars
<1>3. /\ mapping.level = 4 => Below = To(pml3)
      /\ mapping.level = 3 => Below = To(pml2)
      /\ mapping.level \in {2, 3, 4}
  BY <1>1, <1>2, BelowIs
<1>4. /\ mapping'.level = mapping.level - 1
      /\ mapping'.table = Below.frame
      /\ mapping'.page = mapping.page
      /\ mapping' # NoMapping
  <2>1. PICK l, t : mapping = [root |-> pml4, page |-> at - 1, frame |-> at - 1,
                               level |-> l, table |-> t]
    BY <1>1 DEF Walking
  <2>2. /\ mapping'.level = mapping.level - 1
        /\ mapping'.table = Below.frame
        /\ mapping'.page = mapping.page
    BY <1>2, <2>1
  <2> QED BY <1>3, <2>2, LevelOfNoMapping
<1>5. LowWalk'
  <2>1. CASE mapping.level = 2
    <3>1. Leads(LowEntry(ram', mapping'.page), mapping'.table)
      BY <1>1, <1>2, <1>4, <2>1 DEF Leads, LowEntry
    <3> QED BY <1>4, <2>1, <3>1 DEF LowWalk
  <2>2. CASE mapping.level \in {3, 4}
    <3>1. mapping'.table \in Upper /\ mapping'.level # 1
      BY <1>3, <1>4, <2>2 DEF To, Upper
    <3> QED BY <3>1 DEF LowWalk
  <2> QED BY <1>3, <2>1, <2>2
<1>6. FramesMapped' = FramesMapped /\ LowMapped' = LowMapped
  BY <1>1, <1>2, <1>4 DEF FramesMapped, LowMapped, Done
<1>7. \A p \in Nat : InReach(p)' <=> InReach(p)
  BY <1>1, <1>2, <1>6 DEF InReach, TablesSpared
<1> QED BY <1>1, <1>2, <1>5, <1>6, <1>7, LowStays

\* A frame that is granted for one of init_physical's tables is not one yet.
LEMMA NewBootTable ==
  ASSUME KInv, phase = "map", pc = "init_physical", ~request_page(mem).panics
  PROVE  /\ request_page(mem).frame \notin LowTables \cup Upper
         /\ request_page(mem).mem.TotalPages = mem.TotalPages
<1> DEFINE a == request_page(mem)
<1>1. /\ IInv /\ PageFramesType(mem) /\ KernelFrames \subseteq mem.PageMap.bits
      /\ RequestType(mem, a)
      /\ \/ Refused(mem, a) /\ a.panics
         \/ Granted(mem, a, 1)
  BY SoundNow, RequestPage1, WhileMapping DEF Sound, KInv, MapsLowMemory
<1>2. \A p \in tables : p < mem.FirstFreePage /\ p \in Nat
  BY <1>1 DEF IInv, TablesBelowSearch, TypeOK
<1>3. mem.FirstFreePage \in Nat
  BY <1>1 DEF PageFramesType
<1>4. Granted(mem, a, 1)
  BY <1>1
<1> HIDE DEF a
<1>5. a.frame \in Nat /\ a.frame >= mem.FirstFreePage
  BY <1>1, <1>4 DEF RequestType, Granted
<1>6. a.frame \notin tables
  BY <1>2, <1>3, <1>5
<1>7. a.frame \notin mem.PageMap.bits
  <2>1. a.frame \in Frames(a.frame, 1)
    BY <1>5 DEF Frames
  <2> QED BY <1>1, <1>4, <1>5, <2>1, LockedIsBit DEF Granted
<1>8. a.frame \notin LowTables \cup Upper
  BY <1>1, <1>6, <1>7, KernelTables, UpperFrames DEF LowTables
<1> QED BY <1>1, <1>8 DEF RequestType, a

LEMMA LowNewTable ==
  ASSUME TreeInv, LowMap, MapNewTable, pc = "init_physical", ~panicked'
  PROVE  LowMap'
<1> DEFINE f == request_page(mem).frame
           page == mapping.page
<1>1. /\ KInv /\ phase = "map" /\ mapping # NoMapping
      /\ Walking /\ at <= FramesMapped /\ page \in Nat
      /\ page < EntriesPerTable * EntriesPerTable
      /\ Index(page, 2) \in Slots
      /\ mapping.level = 2 => Below = LowEntry(ram, page)
      /\ UNCHANGED <<pc, at>>
  BY BootWalk DEF map
<1>2. /\ mapping.level > 1 /\ ~Below.present
      /\ TakeTable(request_page(mem))
      /\ ram' = Write(Clear(ram, f), mapping.table, Index(page, mapping.level), To(f))
      /\ mapping' = [mapping EXCEPT !.level = @ - 1, !.table = f]
  BY DEF MapNewTable, Enter
<1>3. mapping.level = 2 /\ mapping.table = pml2
  <2>1. mapping.level = 2
    BY <1>1, <1>2, BelowIs DEF To
  <2> QED BY <1>1, <2>1 DEF Walking
<1>4. /\ mem' = request_page(mem).mem /\ tables' = tables \cup {f}
      /\ panicked' = (panicked \/ request_page(mem).panics)
  BY <1>1, <1>2 DEF TakeTable
<1>5. ~request_page(mem).panics
  BY <1>4, Zenon
<1>6. f \notin LowTables \cup Upper /\ mem'.TotalPages = mem.TotalPages
  BY <1>1, <1>4, <1>5, NewBootTable
<1>7. /\ mapping'.level = 1 /\ mapping'.table = f /\ mapping'.page = page
      /\ mapping' # NoMapping
  <2>1. PICK l, t : mapping = [root |-> pml4, page |-> at - 1, frame |-> at - 1,
                               level |-> l, table |-> t]
    BY <1>1 DEF Walking
  <2> HIDE DEF f
  <2>2. mapping'.level = mapping.level - 1 /\ mapping'.table = f /\ mapping'.page = page
    BY <1>2, <2>1
  <2> QED BY <1>3, <2>2, LevelOfNoMapping
<1>8. UpperTables(ram, entry) /\ LowEntries(ram, LowTables)
  BY <1>1, WhileMapping DEF LowMap, MapsLowMemory
<1>9. /\ Index(page, 2) = page \div EntriesPerTable
      /\ DOMAIN Table(ram, pml2) = Slots
      /\ ~Table(ram, pml2)[Index(page, 2)].present
  <2>1. Index(page, 2) = page \div EntriesPerTable
    BY <1>1, LowIndexes
  <2> QED BY <1>1, <1>2, <1>3, <1>8, <2>1 DEF UpperTables, Upper, LowEntry
<1> HIDE DEF f, page
<1>10. Entered(ram, ram', pml2, Index(page, 2), f)
  <2>1. f # pml2
    BY <1>6 DEF Upper
  <2> QED BY <1>2, <1>3, <2>1, EnteredIs
<1>11. /\ LowEntries(ram', LowTables \cup {f})
       /\ Table(ram', pml2)[Index(page, 2)] = To(f)
       /\ \A p \in Nat : p < EntriesPerTable * EntriesPerTable /\ LowPage(ram, p) =>
                             LowPage(ram', p)
  BY <1>1, <1>6, <1>8, <1>9, <1>10, LowTableEntered
<1>12. LowTables' = LowTables \cup {f}
  BY <1>4 DEF LowTables
<1>13. FramesMapped' = FramesMapped /\ LowMapped' = LowMapped
  BY <1>1, <1>6, <1>7 DEF FramesMapped, LowMapped, Done
<1>14. ASSUME NEW p \in Nat, InReach(p)'
       PROVE  LowPage(ram', p)
  <2>1. InReach(p)
    BY <1>1, <1>13, <1>14 DEF InReach, TablesSpared
  <2>2. LowPage(ram, p) /\ p < EntriesPerTable * EntriesPerTable
    BY <2>1, LowIsReached DEF LowMap
  <2> QED BY <1>11, <2>2
<1>15. LowWalk'
  <2>1. LowEntry(ram', mapping'.page) = To(f)
    BY <1>7, <1>9, <1>11 DEF LowEntry
  <2>2. Leads(LowEntry(ram', mapping'.page), mapping'.table)
    BY <1>7, <2>1 DEF Leads, To
  <2> QED BY <1>7, <2>2 DEF LowWalk
<1> QED BY <1>1, <1>11, <1>12, <1>13, <1>14, <1>15 DEF LowMap

LEMMA LowMapPage ==
  ASSUME TreeInv, LowMap, MapPage, pc = "init_physical"
  PROVE  LowMap'
<1> DEFINE page == mapping.page
<1>1. /\ mapping # NoMapping /\ at \in Nat /\ at <= FramesMapped /\ phase = "map"
      /\ page \in Nat /\ page = at - 1 /\ mapping.frame = page
      /\ page < EntriesPerTable * EntriesPerTable
      /\ UNCHANGED <<pc, at>>
  BY BootWalk DEF map
<1>2. /\ mapping.level = 1
      /\ ram' = Write(ram, mapping.table, Index(page, 1), To(page))
      /\ mapping' = NoMapping
      /\ UNCHANGED <<mem, tables>>
  BY <1>1 DEF MapPage, vars
<1>3. Leads(LowEntry(ram, page), mapping.table) /\ LowEntries(ram, LowTables)
  BY <1>1, <1>2 DEF LowMap, LowWalk
<1> HIDE DEF page
<1>4. /\ LowEntries(ram', LowTables)
      /\ LowPage(ram', page)
      /\ \A q \in Nat : q < EntriesPerTable * EntriesPerTable /\ LowPage(ram, q) =>
                            LowPage(ram', q)
  BY <1>1, <1>2, <1>3, LowPageWritten
<1>5. /\ FramesMapped' = FramesMapped /\ LowTables' = LowTables
      /\ LowMapped' = at /\ LowMapped = at - 1
  BY <1>1, <1>2 DEF FramesMapped, LowTables, LowMapped, Done
<1>6. ASSUME NEW p \in Nat, InReach(p)'
      PROVE  LowPage(ram', p)
  <2>1. p < EntriesPerTable \/ p < at
    BY <1>5, <1>6 DEF InReach
  <2>2. p = page \/ InReach(p)
    BY <1>1, <1>5, <2>1 DEF InReach, TablesSpared
  <2>3. CASE InReach(p)
    <3>1. LowPage(ram, p) /\ p < EntriesPerTable * EntriesPerTable
      BY <2>3, LowIsReached DEF LowMap
    <3> QED BY <1>4, <3>1
  <2> QED BY <1>4, <2>2, <2>3
<1> QED BY <1>1, <1>2, <1>4, <1>5, <1>6 DEF LowMap

-----------------------------------------------------------------------------
(* init_virtual leaves the page map that is active alone.                  *)

LEMMA RunsWhenRunning ==
  ASSUME TreeInv, Running
  PROVE  pc = "running"
<1>1. CASE expand_heap \/ clone_active_page_map
  BY <1>1 DEF expand_heap, clone_active_page_map, Idle, At
<1>2. CASE CloneTable \/ CloneEntered \/ CloneReturns
  <2>1. cloning.level > 1 \/ cloning.level \in {2, 3} \/ cloning.level = 4
    BY <1>2 DEF CloneTable, CloneEntered, CloneReturns
  <2>2. cloning # NotCloning
    BY <2>1, LevelOfNoMapping
  <2> QED BY <2>2 DEF TreeInv, KInv, InOrder
<1> QED BY <1>1, <1>2 DEF Running

\* The kernel gets to unmap_null from what comes before it only.
LEMMA StillBefore ==
  ASSUME TreeInv, [KNext]_kvars, BeforeUnmap'
  PROVE  /\ BeforeUnmap
         /\ pc \notin {"init_physical", "lost"} => pc' # "init_physical"
         /\ ~UnmapNull /\ ~flush_page_map /\ ~Running
<1>1. CASE UNCHANGED kvars
  <2>1. pc' = pc /\ active' = active /\ at' = at /\ cloning' = cloning /\ mem' = mem
        /\ heapPages' = heapPages /\ ram' = ram
    BY <1>1 DEF kvars, vars
  <2>2. BeforeUnmap
    BY <2>1 DEF BeforeUnmap
  <2>3. ~UnmapNull /\ ~flush_page_map
    BY <2>1, <2>2 DEF UnmapNull, flush_page_map, Go, BeforeUnmap
  <2>4. ~Running
    BY <2>2, RunsWhenRunning DEF BeforeUnmap
  <2> QED BY <2>1, <2>2, <2>3, <2>4
<1>2. CASE KNext
  <2>1. ~UnmapNull /\ ~flush_page_map
    BY DEF UnmapNull, flush_page_map, Go, BeforeUnmap
  <2>2. ~Running
    <3> SUFFICES ASSUME Running PROVE FALSE
      OBVIOUS
    <3>1. pc = "running"
      BY RunsWhenRunning
    <3>2. pc' = "running"
      BY <3>1 DEF Running, expand_heap, clone_active_page_map, CloneTable, CloneEntered,
                  CloneReturns, CloneUnchanged
    <3> QED BY <3>2 DEF BeforeUnmap
  <2>3. CASE Scan \/ MapLowMemory \/ SwitchBitmap \/ LoseMachine
    <3>1. pc = "init_physical"
      <4>1. phase # "ready"
        BY <2>3 DEF Scan, ScanDescriptor, HaltWithoutSegment, UseInitialBitmap,
                    MapLowMemory, SwitchBitmap, LoseMachine
      <4>2. pc \in {"init_physical", "lost"}
        BY <4>1 DEF TreeInv, KInv, InOrder
      <4>3. pc' = pc \/ pc = "init_physical"
        BY <2>3 DEF Scan, MapLowMemory, SwitchBitmap, LoseMachine, At
      <4> QED BY <4>2, <4>3 DEF BeforeUnmap
    <3> QED BY <2>1, <2>2, <3>1 DEF BeforeUnmap
  <2>4. CASE NewPageMap \/ MapRam \/ MapKernel
    BY <2>1, <2>2, <2>4 DEF NewPageMap, MapRam, MapKernel, Loop, At, Go, MapNext, BeforeUnmap
  <2>5. CASE init_heap \/ LockFramebuffer \/ MapFramebuffer \/ RequestTarget \/ MapTarget
    <3>1. FALSE
      BY <2>5 DEF init_heap, LockFramebuffer, MapFramebuffer, RequestTarget, MapTarget, Loop,
                  At, Go, MapNext, BeforeUnmap
    <3> QED BY <3>1
  <2>6. CASE map
    <3>1. pc' = pc
      BY <2>6 DEF map, MapThroughTable, MapNewTable, MapPage
    <3> QED BY <2>1, <2>2, <3>1 DEF BeforeUnmap
  <2> QED BY <1>2, <2>1, <2>2, <2>3, <2>4, <2>5, <2>6 DEF KNext, KStage1
<1> QED BY <1>1, <1>2

LEMMA NotWrittenLow ==
  ASSUME TreeInv, [KNext]_kvars, BeforeUnmap', pc \notin {"init_physical", "lost"},
         ~starved'
  PROVE  \A t \in KernelFrames \cup tables : Table(ram', t) = Table(ram, t)
<1>1. /\ ~UnmapNull /\ ~flush_page_map /\ ~Running
      /\ KInv /\ phase = "ready" /\ BeforeUnmap
  BY StillBefore, WhileReady
<1>2. CASE ~map
  <2>1. ram' = ram
    <3>1. CASE UNCHANGED kvars
      BY <3>1 DEF kvars
    <3>2. CASE KStage1
      BY <1>1, <3>2 DEF KStage1, Scan, MapLowMemory, MapNext, SwitchBitmap, LoseMachine,
                        NewPageMap, MapRam, MapKernel, Loop, init_heap, HeapPage, LockFramebuffer, MapFramebuffer,
                        RequestTarget, MapTarget, paging
    <3> QED BY <1>1, <1>2, <3>1, <3>2 DEF KNext
  <2> QED BY <2>1
<1>3. CASE map
  <2>1. mapping # NoMapping /\ ~NewPageMap
    <3>1. mapping # NoMapping
      BY <1>3, LevelOfNoMapping DEF map, MapThroughTable, MapNewTable, MapPage
    <3> QED BY <3>1 DEF NewPageMap, At
  <2>2. ~starved
    BY <1>3, <2>1, HistoryGrows DEF KNext
  <2>3. mapping.table \in Nodes(ram, pageMap) /\ PageMapBuilt /\ mapping.root = pageMap
    BY <2>1, <2>2, WhileOnTheWay
  <2>4. held["tables"] \cap (KernelFrames \cup tables) = {}
    <3>1. held["tables"] \subseteq Arena
      BY <1>1, KernelMemoryAssumption DEF KInv, IInv, HeldIsLocked
    <3> QED BY <3>1 DEF Arena
  <2>5. mapping.table \notin KernelFrames \cup tables
    BY <2>3, <2>4 DEF PageMapBuilt
  <2>6. CASE MapThroughTable
    BY <2>6 DEF MapThroughTable, paging
  <2>7. CASE MapPage
    BY <2>5, <2>7, WriteTable DEF MapPage
  <2>8. CASE MapNewTable
    <3> DEFINE f == request_page(mem).frame
    <3>1. /\ TakeTable(request_page(mem))
          /\ ram' = Write(Clear(ram, f), mapping.table,
                          Index(mapping.page, mapping.level), To(f))
          /\ starved' = (starved \/ (mapping.root = pageMap /\ f = nullptr))
      BY <2>8 DEF MapNewTable
    <3>2. f # nullptr
      BY <2>3, <3>1
    <3>3. f \notin KernelFrames \cup tables
      BY <1>1, <3>1, <3>2, FreshTable DEF TakeTable
    <3> HIDE DEF f
    <3>4. \A t : t # f => Table(Clear(ram, f), t) = Table(ram, t)
      BY PutTable DEF Clear
    <3>5. \A t : t # mapping.table => Table(ram', t) = Table(Clear(ram, f), t)
      BY <3>1, WriteTable
    <3> QED BY <2>5, <3>3, <3>4, <3>5
  <2> QED BY <1>3, <2>6, <2>7, <2>8 DEF map
<1> QED BY <1>2, <1>3

LEMMA LowAside ==
  ASSUME TreeInv, LowMap, [KNext]_kvars, BeforeUnmap', pc \notin {"init_physical", "lost"},
         ~starved'
  PROVE  LowMap'
<1>1. \A t \in KernelFrames \cup tables : Table(ram', t) = Table(ram, t)
  BY NotWrittenLow
<1>2. \A t \in LowTables \cup {pml2} : Table(ram', t) = Table(ram, t)
  BY <1>1, KernelTables DEF LowTables
<1>3. pc' # "init_physical"
  BY StillBefore
<1>4. mem'.TotalPages = mem.TotalPages
  BY SearchGoesOn
<1>5. tables' = tables
  <2>1. CASE UNCHANGED <<mem, held, tables>>
    BY <2>1
  <2>2. CASE LockDevice(FramebufferFrames)
    BY <2>2 DEF LockDevice
  <2>3. ASSUME NEW o, NEW a, NEW n, Grant(o, a, n)
        PROVE  tables' = tables
    BY <2>3 DEF Grant
  <2> QED BY <2>1, <2>2, <2>3, Requests
<1>6. LowMapped' = LowMapped
  BY <1>3, <1>4 DEF LowMapped, FramesMapped
<1>7. \A p \in Nat : InReach(p)' <=> InReach(p)
  <2>1. phase = "ready" /\ phase' = "ready" /\ largest' = largest
    <3>1. phase = "ready" /\ [Next]_vars
      BY WhileReady, KInvStep DEF TreeInv
    <3> QED BY <3>1 DEF Next, Boot, Run, ScanDescriptor, HaltWithoutSegment, UseInitialBitmap,
                        MapTable, UseFinalBitmap, RequestPage, RequestPages, Grant, FreePages,
                        LockDevice, vars
  <2>2. OverwrittenFrames' = OverwrittenFrames
    BY <1>4, <2>1 DEF OverwrittenFrames, Overwrites, FinalBuffer, bitmapSize
  <2> QED BY <1>5, <1>6, <2>1, <2>2 DEF InReach, TablesSpared
<1> QED BY <1>2, <1>3, <1>5, <1>7, LowStays

\* Page tables lie within the frames that are counted.
LEMMA HeldWithin ==
  ASSUME TreeInv, ForestInv, ForestInv', [KNext]_kvars,
         \A t \in held["tables"] : t < mem.TotalPages
  PROVE  \A t \in held'["tables"] : t < mem'.TotalPages
<1>1. CASE pc \in {"init_physical", "lost"}
  <2>1. CASE UNCHANGED kvars
    BY <2>1 DEF kvars, vars
  <2>2. CASE KNext
    <3>1. ~NewPageMap
      BY <1>1 DEF NewPageMap, At
    <3>2. pc' \in {"init_physical", "lost", "init_virtual"}
      BY <1>1, <2>2, <3>1, StillWithoutPageMap
    <3> QED BY <3>2 DEF ForestInv
  <2> QED BY <2>1, <2>2
<1>2. CASE pc \notin {"init_physical", "lost"}
  <2>1. mem'.TotalPages = mem.TotalPages /\ KInv /\ phase = "ready"
    BY <1>2, SearchGoesOn, WhileReady
  <2>2. held'["tables"] = held["tables"] \/ Grant("tables", request_page(mem), 1)
    <3>1. CASE LockDevice(FramebufferFrames)
      BY <3>1 DEF LockDevice
    <3> QED BY <1>2, <3>1, Requests, GrantElsewhere
  <2>3. CASE Grant("tables", request_page(mem), 1)
    <3> DEFINE a == request_page(mem)
               f == a.frame
    <3>1. f = nullptr => held' = held
      BY <2>3 DEF Grant
    <3>2. f # nullptr => held'["tables"] = held["tables"] \cup {f}
      BY <2>1, <2>3, FreshTable
    <3>3. f # nullptr => f < mem.TotalPages
      BY <2>1, SoundNow, RequestPage1 DEF Sound, KInv
    <3> HIDE DEF f
    <3> QED BY <2>1, <3>1, <3>2, <3>3
  <2> QED BY <2>1, <2>2, <2>3
<1> QED BY <1>1, <1>2

LEMMA LowStep ==
  ASSUME TreeInv, ForestInv, ForestInv', KInv', LowInv, [KNext]_kvars
  PROVE  LowInv'
<1>1. \A t \in held'["tables"] : t < mem'.TotalPages
  BY HeldWithin DEF LowInv
<1>2. ASSUME BeforeUnmap', ~panicked', ~starved'
      PROVE  LowMap'
  <2>1. ~panicked /\ ~starved
    <3>1. CASE UNCHANGED kvars
      BY <1>2, <3>1 DEF kvars, vars
    <3>2. CASE KNext /\ ~NewPageMap
      BY <1>2, <3>2, HistoryGrows
    <3>3. CASE NewPageMap
      <4>1. Grant("tables", request_page(mem), 1) /\ pc = "init_virtual"
        BY <3>3 DEF NewPageMap, At
      <4>2. ~starved
        BY <4>1 DEF TreeInv, BootTables
      <4> QED BY <1>2, <4>1, <4>2, GrantPanics
    <3> QED BY <3>1, <3>2, <3>3
  <2>2. LowMap
    BY <1>2, <2>1, StillBefore DEF LowInv
  <2>3. CASE pc \notin {"init_physical", "lost"}
    BY <1>2, <2>2, <2>3, LowAside
  <2>4. CASE pc = "init_physical" /\ UNCHANGED kvars
    <3>1. UNCHANGED <<mem, tables, phase, largest, ram, pc, at, mapping>>
      BY <2>4 DEF kvars, vars
    <3>2. \A p \in Nat : InReach(p)' <=> InReach(p)
      BY <3>1 DEF InReach, LowMapped, Done, FramesMapped, TablesSpared, OverwrittenFrames,
                  Overwrites, FinalBuffer, bitmapSize
    <3>3. LowMap' <=> LowMap
      BY <3>1, <3>2 DEF LowMap, LowEntries, LowTables, NoSharing, FramesMapped, LowPage,
                        LowEntry, LowWalk
    <3> QED BY <2>2, <3>3
  <2>5. CASE pc = "init_physical" /\ KNext
    <3>1. CASE Scan \/ MapLowMemory \/ SwitchBitmap \/ LoseMachine
      <4>1. ~LoseMachine
        BY <1>2 DEF LoseMachine, Go, BeforeUnmap
      <4> QED BY <2>2, <3>1, <4>1, ScanLow, MapLowMemoryLow, SwitchBitmapLow
    <3>2. CASE map
      BY <1>2, <2>2, <2>5, <3>2, LowThroughTable, LowNewTable, LowMapPage DEF map
    <3>3. CASE KStage1 /\ ~(Scan \/ MapLowMemory \/ SwitchBitmap \/ LoseMachine)
      BY <2>5, <3>3 DEF KStage1, NewPageMap, MapRam, MapKernel, UnmapNull, flush_page_map,
                        init_heap, LockFramebuffer, MapFramebuffer, RequestTarget, MapTarget,
                        Loop, At
    <3>4. ~Running
      BY <1>2, StillBefore
    <3> QED BY <2>5, <3>1, <3>2, <3>3, <3>4 DEF KNext
  <2>6. pc # "lost"
    BY <1>2, StillBefore DEF BeforeUnmap
  <2> QED BY <2>3, <2>4, <2>5, <2>6
<1> QED BY <1>1, <1>2 DEF LowInv

LEMMA TablesAreFrames ==
  ASSUME KInv
  PROVE  \A t \in Upper \cup LowTables \cup held["tables"] : t \in Nat
<1>1. tables \subseteq Nat /\ held["tables"] \subseteq Nat
  BY KernelMemoryAssumption DEF KInv, IInv, TypeOK
<1>2. Upper \subseteq Nat /\ pml1 \in Nat
  BY UpperFrames, KernelTables
<1> QED BY <1>1, <1>2 DEF LowTables

\* The table that a map() is at before the switch, and where it is found.
LEMMA TouchedBefore ==
  ASSUME TreeInv, DataInv, LowInv, TablesInReach, ~Switched, ~starved, mapping # NoMapping
  PROVE  Maps(ram, active, mapping.table, mapping.table)
<1>1. /\ ~panicked
      /\ \A t \in Upper \cup LowTables \cup held["tables"] : InReach(t)
      /\ KInv /\ OldMap
  BY DEF TablesInReach, Upper, LowTables, TreeInv
<1>0. pc # "lost"
  BY DEF TreeInv, Places, KInv, InOrder
<1>2. BeforeUnmap
  <2>1. CASE pc \in {"init_physical", "lost", "init_virtual"}
    BY <1>0, <2>1 DEF BeforeUnmap
  <2>2. CASE pc \notin {"init_physical", "lost", "init_virtual"}
    <3>1. pc \in Mappers
      BY <1>1, <2>2 DEF DataInv, DataMapped
    <3> QED BY <3>1 DEF Mappers, Switched, BeforeUnmap
  <2> QED BY <2>1, <2>2
<1>3. LowMap
  BY <1>1, <1>2 DEF LowInv
<1>4. mapping.table \in Upper \cup LowTables \cup held["tables"]
  <2>1. CASE pc = "init_physical"
    <3>1. LowWalk
      BY <1>3, <2>1 DEF LowMap
    <3>2. CASE mapping.level # 1
      BY <3>1, <3>2 DEF LowWalk
    <3>3. CASE mapping.level = 1
      <4>1. phase = "map"
        BY <1>1, <2>1, WhileBooting DEF KInv, InOrder, Booting
      <4>2. mapping.page \in Nat /\ mapping.page < EntriesPerTable * EntriesPerTable
        BY <1>1, <3>3, <4>1, WalkFacts
      <4>3. mapping.page \div EntriesPerTable \in Slots
        BY <4>2, LowIsPage
      <4>4. Leads(LowEntry(ram, mapping.page), mapping.table)
        BY <3>1, <3>3 DEF LowWalk
      <4> QED BY <1>3, <4>3, <4>4 DEF LowMap, LowEntries, Leads, LowEntry
    <3> QED BY <3>2, <3>3
  <2>2. CASE pc \notin {"init_physical", "lost"}
    BY <2>2, WhileOnTheWay DEF PageMapBuilt
  <2> QED BY <1>0, <2>1, <2>2
<1>5. mapping.table \in Nat /\ InReach(mapping.table)
  BY <1>1, <1>4, TablesAreFrames
<1>6. LowPage(ram, mapping.table) /\ mapping.table < EntriesPerTable * EntriesPerTable
  BY <1>3, <1>5, LowIsReached DEF LowMap
<1> QED BY <1>1, <1>5, <1>6, LowPageIsMapped DEF OldMap

LEMMA TouchedAfter ==
  ASSUME TreeInv, ForestInv, LowInv, Switched, ~starved
  PROVE  /\ \A t \in held["tables"] : Maps(ram, active, t, t)
         /\ mapping # NoMapping => mapping.table \in held["tables"]
         /\ cloning # NotCloning =>
               \A l \in cloning.level .. 4 :
                   cloning.old[l] \in held["tables"] /\ cloning.new[l] \in held["tables"]
<1>1. /\ active = pageMap /\ PageMapBuilt /\ RamTurns = mem.TotalPages
      /\ KInv /\ pc \notin {"init_physical", "lost"}
  BY DEF TreeInv, Places, Switched, RamTurns
<1>2. ASSUME NEW t \in held["tables"]
      PROVE  Maps(ram, active, t, t)
  <2>1. t \in Nat /\ t < mem.TotalPages /\ mem.TotalPages \in Nat
    BY <1>1, TablesAreFrames, TotalPagesBounded DEF LowInv
  <2> QED BY <1>1, <2>1 DEF PageMapBuilt
<1>3. mapping # NoMapping => mapping.table \in held["tables"]
  BY <1>1, WhileOnTheWay DEF PageMapBuilt
<1>4. ASSUME cloning # NotCloning, NEW l \in cloning.level .. 4
      PROVE  cloning.old[l] \in held["tables"] /\ cloning.new[l] \in held["tables"]
  <2>1. /\ Nodes(ram, pageMap) \subseteq held["tables"] /\ CloneFilled
        /\ ClonesInto(cloning, held["tables"] \ Nodes(ram, pageMap))
    BY <1>4, WhileCloning
  <2>2. cloning.new[l] \in held["tables"]
    BY <2>1 DEF ClonesInto
  <2>3. PartTables(ram, <<cloning.old[l], l>>) \subseteq Nodes(ram, pageMap)
    BY <2>1, OldInTree
  <2>4. cloning.old[l] \in Nodes(ram, pageMap)
    BY <2>3 DEF PartTables
  <2> QED BY <2>1, <2>2, <2>4
<1> QED BY <1>2, <1>3, <1>4

(* Each page table that map() and clone_active_page_map read and write at  *)
(* its physical address is mapped there, to itself, at that moment: by     *)
(* _start's page map, as far as init_physical has extended it, and by the  *)
(* page map of init_virtual afterwards.  Before the switch that is so as   *)
(* long as the frames that request_page hands out for tables lie within    *)
(* what init_physical has mapped so far, or, where the final bitmap is put *)
(* over one of its tables, within what _start had mapped.  After it there  *)
(* is no condition.                                                        *)
THEOREM TouchedTablesStayMapped ==
  ASSUME Leftover = Empty
  PROVE  KSpec => [](TablesInReach => TouchedTablesAreMapped)
<1> DEFINE Inv == TreeInv /\ DataInv /\ ForestInv /\ LowInv
<1>1. KInit => Inv
  BY TreeInit, DataInit, ForestInit, LowInit
<1>2. Inv /\ [KNext]_kvars => Inv'
  <2> SUFFICES ASSUME TreeInv, DataInv, ForestInv, LowInv, [KNext]_kvars
               PROVE  Inv'
    OBVIOUS
  <2>1. TreeInv' /\ DataInv' /\ ForestInv'
    BY TreeStep, DataStep, ForestNext
  <2>2. LowInv'
    BY <2>1, LowStep DEF TreeInv
  <2> QED BY <2>1, <2>2
<1>3. Inv => (TablesInReach => TouchedTablesAreMapped)
  <2> SUFFICES ASSUME TreeInv, DataInv, ForestInv, LowInv, TablesInReach, ~starved
               PROVE  /\ mapping # NoMapping => Maps(ram, active, mapping.table, mapping.table)
                      /\ cloning # NotCloning =>
                            \A level \in cloning.level .. 4 :
                                \A table \in {cloning.old[level], cloning.new[level]} :
                                    Maps(ram, active, table, table)
    BY DEF TouchedTablesAreMapped
  <2>1. CASE Switched
    BY <2>1, TouchedAfter
  <2>2. CASE ~Switched
    <3>1. cloning = NotCloning
      BY <2>2 DEF TreeInv, KInv, InOrder, Switched
    <3> QED BY <2>2, <3>1, TouchedBefore
  <2> QED BY <2>1, <2>2
<1> QED BY <1>1, <1>2, <1>3, PTL DEF KSpec
=============================================================================
