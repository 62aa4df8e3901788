--------------------------- MODULE BootLoaderProofs ---------------------------
(***************************************************************************)
(* BootLoader, for every memory, volume and firmware, and for any number   *)
(* of changes the firmware makes: the kernel's segments stay as they were  *)
(* loaded, the memory map it is given does not call free what belongs to   *)
(* it, and no boot services have ended on a stale map.                     *)
(***************************************************************************)
EXTENDS BootLoader, FiniteSetTheorems, TLAPS

(***************************************************************************)
(* The inductive invariant.  Besides the typing and the properties: what   *)
(* the loader was given keeps its use, since pages are only given while    *)
(* conventional and the firmware frees none but its own; a map with the    *)
(* firmware's present key says what memory is used for; and the boot       *)
(* services end only for that key.                                         *)
(***************************************************************************)
AtSegment ==
    /\ pc = "load" => at <= Len(volume.segments) /\ phdr.load
    /\ \A k \in granted : volume.segments[k].load

GrantedPages == UNION {SegmentPages(volume.segments[k]) : k \in granted}
Held == \A p \in owned \cup GrantedPages : memory[p] \in {"data", "code"}

MapRead == map.valid => pc \in {"acpi", "exit", "start", "kernel"}
KeyTells ==
    /\ mapKey <= key
    /\ map.valid /\ mapKey = key => map.uses = memory
    /\ ~bootServices => pc \in {"start", "kernel"} /\ mapKey = key

IInv ==
    /\ TypeOK
    /\ AtSegment
    /\ Held
    /\ MapRead
    /\ KeyTells
    /\ SegmentsIntact
    /\ MapKeepsLoaderMemory

-----------------------------------------------------------------------------
(* Segments.                                                               *)

\* Rounding up, the pages allocated for a segment hold all of its bytes.
LEMMA RoundingUp ==
  ASSUME NEW i \in Nat, NEW m \in Nat, i * PageSize < m
  PROVE  i < (m + PageSize - 1) \div PageSize
<1> DEFINE q == (m + PageSize - 1) \div PageSize
<1>1. PageSize \in Nat /\ PageSize > 0
  BY BootLoaderAssumption
<1>2. q \in Int /\ m + PageSize - 1 < PageSize * q + PageSize
  BY <1>1
<1>3. CASE q <= i
  <2>1. PageSize * q <= i * PageSize
    BY <1>1, <1>2, <1>3
  <2> QED BY <2>1, <1>1, <1>2
<1> QED BY <1>2, <1>3

\* The same of Written and SegmentPages.
LEMMA WrittenAllocated ==
  ASSUME NEW s \in Segment
  PROVE  Written(s) \subseteq SegmentPages(s)
<1> SUFFICES ASSUME NEW p \in Written(s) PROVE p \in SegmentPages(s)
  OBVIOUS
<1>1. /\ s.paddr \in Nat /\ s.memsz \in Nat /\ p \in Page /\ p \in Nat
      /\ s.paddr <= p /\ (p - s.paddr) * PageSize < s.memsz
  BY BootLoaderAssumption DEF Written, Segment, Page
<1>2. p - s.paddr < (s.memsz + PageSize - 1) \div PageSize
  BY <1>1, RoundingUp
<1>3. (s.memsz + PageSize - 1) \div PageSize \in Int
  BY <1>1, BootLoaderAssumption
<1> QED BY <1>1, <1>2, <1>3 DEF SegmentPages, PagesFrom, PagesOf

\* The segments of a volume are segments.
LEMMA SegmentTyped ==
  ASSUME volume \in Volumes, NEW k \in 1 .. Len(volume.segments)
  PROVE  volume.segments[k] \in Segment
BY BootLoaderAssumption DEF Volume

\* Contents are pairs of numbers, those of a loaded page too.
LEMMA ImageTyped ==
  ASSUME volume \in Volumes, NEW k \in 1 .. Len(volume.segments),
         NEW p \in Written(volume.segments[k])
  PROVE  Image(k)[p] \in Nat \X Nat
<1>1. volume.segments[k] \in Segment
  BY SegmentTyped
<1>2. /\ volume.segments[k].paddr \in Nat /\ p \in Page /\ p \in Nat
      /\ volume.segments[k].paddr <= p
  BY <1>1, BootLoaderAssumption DEF Written, Segment, Page
<1>3. p - volume.segments[k].paddr + 1 \in Nat /\ k \in Nat
  BY <1>2
<1> QED BY <1>2, <1>3 DEF Image, ImagePage
-----------------------------------------------------------------------------
(* What a step may do to memory.                                           *)

Idle == UNCHANGED <<memory, content, key, owned, granted>>

PoolGrows ==
    \E p \in Conventional :
        /\ Take({p}, "data", Garbage)
        /\ owned' = owned \cup {p}
        /\ UNCHANGED granted

SegmentGrows ==
    /\ at \in 1 .. Len(volume.segments)
    /\ phdr.load
    /\ SegmentPages(phdr) \subseteq Conventional
    /\ \E use \in {"data", "code"} : Take(SegmentPages(phdr), use, Garbage)
    /\ granted' = granted \cup {at}
    /\ UNCHANGED owned

FirmwareActs ==
    \E p \in Page :
        /\ \/ memory[p] = "conventional" /\ Take({p}, "firmware", Garbage)
           \/ memory[p] = "firmware" /\ Take({p}, "conventional", Garbage)
        /\ bootServices
        /\ UNCHANGED <<owned, granted, pc, at, bootServices, mapKey, map>>

\* The control of each step and what it does to memory, in a form the proofs
\* below can go by.
LEMMA PoolKinds ==
  ASSUME NEW success \in BOOLEAN, AllocatePool(success), UNCHANGED granted
  PROVE  Idle \/ PoolGrows
BY DEF AllocatePool, Idle, PoolGrows

\* A step of the firmware.
LEMMA FirmwareKinds ==
  ASSUME NEW p \in Page, FirmwareAllocates(p) \/ FirmwareFrees(p)
  PROVE  FirmwareActs /\ UNCHANGED volume
BY DEF FirmwareAllocates, FirmwareFrees, Firmware, FirmwareActs, Locals

\* Steps of the loader before the memory map is read.
Early == {"directory", "kernel_file", "font_header", "font_glyphs", "font_record",
          "elf_header", "program_headers", "segment", "map_size", "map_pool",
          "returned", "lost"}
EarlyStep ==
    /\ pc \in Early /\ pc' \in Early
    /\ Idle \/ PoolGrows
    /\ at' = at \/ (at' = at + 1 /\ pc = "segment" /\ ~phdr.load)
    /\ UNCHANGED <<volume, bootServices, map>>
    /\ mapKey' \in {mapKey, key}
    /\ capacity' \in {capacity, 0, Descriptors(memory), PageCount}

SegmentStep ==
    /\ pc = "segment" /\ pc' \in {"segment", "load"}
    /\ at \in 1 .. Len(volume.segments) /\ phdr.load
    /\ Idle \/ SegmentGrows
    /\ UNCHANGED <<volume, at, bootServices, map, mapKey, capacity>>

\* The font.
LEMMA FontKinds ==
  ASSUME LoadPSF1Font
  PROVE  EarlyStep
<1> USE DEF Early
<1>1. ASSUME NEW label \in {"font_header", "font_glyphs", "font_record"},
             NEW next \in {"font_glyphs", "font_record", "elf_header"},
             NEW ok \in BOOLEAN, FontStep(label, next, ok)
      PROVE  EarlyStep
  <2>1. PICK success \in BOOLEAN :
            /\ AllocatePool(success)
            /\ Goto(IF success /\ ok THEN next ELSE "elf_header")
    BY <1>1 DEF FontStep
  <2>2. Idle \/ PoolGrows
    BY <2>1, <1>1, PoolKinds DEF FontStep
  <2> QED BY <1>1, <2>1, <2>2 DEF FontStep, EarlyStep, Goto, Machine
<1>2. CASE NoFont
  BY <1>2 DEF NoFont, EarlyStep, Idle, Goto, Machine, Memory, Locals
<1>3. CASE pc = "font_header" /\ Unset
  BY <1>3 DEF Unset, EarlyStep, Idle, Goto, Machine, Memory, Locals
<1>4. (volume.font = "valid") \in BOOLEAN
  OBVIOUS
<1> QED BY <1>1, <1>2, <1>3, <1>4 DEF LoadPSF1Font

\* The steps before the segments, around them, and before the map is read.
LEMMA EarlyKinds ==
  ASSUME \/ OpenDirectory \/ OpenKernel \/ LoadPSF1Font \/ VerifyKernel
         \/ ProgramHeaders \/ SegmentsDone \/ SkipHeader \/ MapSize
  PROVE  EarlyStep
<1> USE DEF Early, EarlyStep, Idle, Goto, Machine, Memory, Locals
<1>1. CASE OpenDirectory
  BY <1>1 DEF OpenDirectory
<1>2. CASE OpenKernel
  BY <1>2 DEF OpenKernel
<1>3. CASE LoadPSF1Font
  BY <1>3, FontKinds
<1>4. CASE VerifyKernel
  BY <1>4 DEF VerifyKernel
<1>5. CASE ProgramHeaders
  <2>1. ASSUME NEW success \in BOOLEAN, ReadProgramHeaders(success)
        PROVE  EarlyStep
    <3>1. Idle \/ PoolGrows
      BY <2>1, PoolKinds DEF ReadProgramHeaders
    <3> QED BY <2>1, <3>1 DEF ReadProgramHeaders
  <2> QED BY <1>5, <2>1 DEF ProgramHeaders, Unset
<1>6. CASE SegmentsDone
  BY <1>6 DEF SegmentsDone
<1>7. CASE SkipHeader
  BY <1>7 DEF SkipHeader
<1>8. CASE MapSize
  BY <1>8 DEF MapSize
<1> QED BY <1>1, <1>2, <1>3, <1>4, <1>5, <1>6, <1>7, <1>8

\* Allocating a segment, or failing to.
LEMMA SegmentKinds ==
  ASSUME TypeOK, AllocateSegment \/ SegmentRefused
  PROVE  SegmentStep
<1>1. CASE AllocateSegment
  <2>1. at \in 1 .. Len(volume.segments)
    BY <1>1, BootLoaderAssumption DEF AllocateSegment, TypeOK, Volume
  <2>2. SegmentGrows
    BY <1>1, <2>1 DEF AllocateSegment, SegmentGrows
  <2> QED BY <1>1, <2>1, <2>2 DEF AllocateSegment, SegmentStep, Goto, Machine
<1>2. CASE SegmentRefused
  <2>1. at \in 1 .. Len(volume.segments)
    BY <1>2, BootLoaderAssumption DEF SegmentRefused, TypeOK, Volume
  <2> QED
    BY <1>2, <2>1
    DEF SegmentRefused, SegmentStep, Idle, Goto, Machine, Memory, Locals
<1> QED BY <1>1, <1>2
-----------------------------------------------------------------------------
(* Types.                                                                  *)

\* The size of the memory map is a number.
LEMMA DescriptorsTyped == \A m : Descriptors(m) \in Nat /\ PageCount \in Nat
<1> SUFFICES ASSUME NEW m PROVE Descriptors(m) \in Nat
  BY BootLoaderAssumption
<1> DEFINE runs == {p \in Page : p = 0 \/ m[p] # m[p - 1]}
<1>1. IsFiniteSet(Page)
  BY FS_Interval, BootLoaderAssumption DEF Page
<1>2. IsFiniteSet(runs)
  BY <1>1, FS_Subset
<1> QED BY <1>2, FS_CardinalityType DEF Descriptors

\* The part of TypeOK about memory.
MemoryTyped ==
    /\ memory \in [Page -> Use]
    /\ content \in [Page -> Nat \X Nat]
    /\ key \in Nat
    /\ owned \subseteq Page
    /\ granted \subseteq 1 .. Len(volume.segments)

\* No kind of step takes a variable out of its type.
LEMMA MemoryTypedStep ==
  ASSUME MemoryTyped, UNCHANGED volume, Idle \/ PoolGrows \/ SegmentGrows \/ FirmwareActs
  PROVE  MemoryTyped'
<1>1. \A P \in SUBSET Page, use \in Use :
          Take(P, use, Garbage) =>
            /\ memory' \in [Page -> Use]
            /\ content' \in [Page -> Nat \X Nat]
            /\ key' \in Nat /\ key' = key + 1
  BY DEF Take, MemoryTyped, Garbage, Elsewhere
<1>2. CASE Idle
  BY <1>2 DEF Idle, MemoryTyped
<1>3. CASE PoolGrows
  BY <1>1, <1>3 DEF PoolGrows, MemoryTyped, Conventional, Use
<1>4. CASE SegmentGrows
  BY <1>1, <1>4 DEF SegmentGrows, MemoryTyped, Conventional, Use, SegmentPages, PagesFrom
<1>5. CASE FirmwareActs
  BY <1>1, <1>5 DEF FirmwareActs, MemoryTyped, Use
<1> QED BY <1>2, <1>3, <1>4, <1>5

\* The initial state is typed.
LEMMA TypeInit == Init => TypeOK
BY BootLoaderAssumption DEF Init, TypeOK, Garbage, Elsewhere, Unread, Use

\* Every step keeps the types.
LEMMA TypeStep == TypeOK /\ AtSegment /\ [Next]_vars => TypeOK'
<1> SUFFICES ASSUME TypeOK, AtSegment, [Next]_vars PROVE TypeOK'
  OBVIOUS
<1>0. MemoryTyped
  BY DEF TypeOK, MemoryTyped
<1>1. ASSUME EarlyStep PROVE TypeOK'
  <2>1. MemoryTyped'
    BY <1>0, <1>1, MemoryTypedStep DEF EarlyStep
  <2>2. capacity' \in Nat
    BY <1>1, DescriptorsTyped DEF EarlyStep, TypeOK
  <2>3. mapKey' \in Nat /\ at' \in Nat \ {0}
    BY <1>1 DEF EarlyStep, TypeOK
  <2> QED BY <1>1, <2>1, <2>2, <2>3 DEF EarlyStep, Early, TypeOK, MemoryTyped
<1>2. ASSUME SegmentStep PROVE TypeOK'
  <2>1. MemoryTyped'
    BY <1>0, <1>2, MemoryTypedStep DEF SegmentStep
  <2> QED BY <1>2, <2>1 DEF SegmentStep, TypeOK, MemoryTyped
<1>3. ASSUME MapPool PROVE TypeOK'
  <2>1. UNCHANGED <<volume, bootServices, mapKey, map, granted, at>> /\ pc' = "map_read"
    BY <1>3 DEF MapPool, Machine, Goto
  <2>2. Idle \/ PoolGrows
    BY <1>3, <2>1, PoolKinds DEF MapPool, Memory, Idle
  <2>3. MemoryTyped'
    BY <1>0, <2>1, <2>2, MemoryTypedStep
  <2>4. capacity' \in {capacity, 0}
    BY <1>3 DEF MapPool
  <2> QED BY <2>1, <2>3, <2>4 DEF TypeOK, MemoryTyped
<1>4. CASE ReadMap
  BY <1>4, BootLoaderAssumption DEF ReadMap, TypeOK, Goto, Machine, Memory, Unread, Use
<1>5. CASE FindRoot
  BY <1>5 DEF FindRoot, TypeOK, Goto, Machine, Memory
<1>6. CASE ExitBootServices
  BY <1>6 DEF ExitBootServices, TypeOK, Goto, Memory, Locals
<1>7. CASE KernelStart
  BY <1>7 DEF KernelStart, TypeOK, Goto, Machine, Memory, Locals
<1>8. CASE LoadSegment
  <2>1. at \in 1 .. Len(volume.segments)
    BY <1>8, BootLoaderAssumption DEF LoadSegment, AtSegment, TypeOK, Volume
  <2>2. content' \in [Page -> Nat \X Nat]
    <3>1. \A p \in Written(phdr) : Image(at)[p] \in Nat \X Nat
      BY <2>1, ImageTyped DEF TypeOK, phdr
    <3> QED BY <1>8, <3>1 DEF LoadSegment, TypeOK
  <2> QED BY <1>8, <2>2 DEF LoadSegment, TypeOK, Machine, Locals
<1>9. ASSUME NEW p \in Page, FirmwareAllocates(p) \/ FirmwareFrees(p) PROVE TypeOK'
  <2>1. FirmwareActs /\ UNCHANGED <<volume, capacity>>
    BY <1>9, FirmwareKinds DEF FirmwareAllocates, FirmwareFrees, Firmware, Locals
  <2>2. MemoryTyped'
    BY <1>0, <2>1, MemoryTypedStep
  <2> QED BY <2>1, <2>2 DEF TypeOK, MemoryTyped, FirmwareActs
<1>10. CASE UNCHANGED vars
  BY <1>10 DEF vars, TypeOK
<1> QED
  BY <1>1, <1>2, <1>3, <1>4, <1>5, <1>6, <1>7, <1>8, <1>9, <1>10, EarlyKinds, SegmentKinds
  DEF Next, efi_main
-----------------------------------------------------------------------------
(* What the loader was given.                                              *)

\* A header that was granted its pages is one to load.
LEMMA AtSegmentStep == TypeOK /\ AtSegment /\ [Next]_vars => AtSegment'
<1> SUFFICES ASSUME TypeOK, AtSegment, [Next]_vars PROVE AtSegment'
  OBVIOUS
<1> USE DEF AtSegment, phdr
<1>1. ASSUME EarlyStep PROVE AtSegment'
  BY <1>1 DEF EarlyStep, Early, Idle, PoolGrows
<1>2. ASSUME SegmentStep PROVE AtSegment'
  BY <1>2 DEF SegmentStep, Idle, SegmentGrows
<1>3. CASE MapPool
  BY <1>3 DEF MapPool, Machine, Goto
<1>4. CASE ReadMap
  BY <1>4 DEF ReadMap, Goto, Machine
<1>5. CASE FindRoot
  BY <1>5 DEF FindRoot, Goto, Machine
<1>6. CASE ExitBootServices
  BY <1>6 DEF ExitBootServices, Goto, Locals
<1>7. CASE KernelStart
  BY <1>7 DEF KernelStart, Goto, Machine, Locals
<1>8. CASE LoadSegment
  BY <1>8 DEF LoadSegment, Machine, Locals
<1>9. ASSUME NEW p \in Page, FirmwareAllocates(p) \/ FirmwareFrees(p) PROVE AtSegment'
  BY <1>9, FirmwareKinds DEF FirmwareActs
<1>10. CASE UNCHANGED vars
  BY <1>10 DEF vars
<1> QED
  BY <1>1, <1>2, <1>3, <1>4, <1>5, <1>6, <1>7, <1>8, <1>9, <1>10, EarlyKinds, SegmentKinds
  DEF Next, efi_main

\* Every step is of one of the kinds above, or writes a segment.
LEMMA Kinds ==
  ASSUME TypeOK, [Next]_vars
  PROVE  /\ UNCHANGED volume
         /\ Idle \/ PoolGrows \/ SegmentGrows \/ FirmwareActs \/ LoadSegment
<1> USE DEF Idle, Goto
<1>1. CASE EarlyStep
  BY <1>1 DEF EarlyStep
<1>2. CASE SegmentStep
  BY <1>2 DEF SegmentStep
<1>3. CASE MapPool
  BY <1>3, PoolKinds DEF MapPool, Machine, Memory
<1>4. CASE ReadMap \/ FindRoot \/ ExitBootServices \/ KernelStart
  BY <1>4 DEF ReadMap, FindRoot, ExitBootServices, KernelStart, Machine, Memory, Locals
<1>5. CASE LoadSegment
  BY <1>5 DEF LoadSegment, Machine
<1>6. ASSUME NEW p \in Page, FirmwareAllocates(p) \/ FirmwareFrees(p)
      PROVE  FirmwareActs /\ UNCHANGED volume
  BY <1>6, FirmwareKinds
<1>7. CASE UNCHANGED vars
  BY <1>7 DEF vars
<1> QED
  BY <1>1, <1>2, <1>3, <1>4, <1>5, <1>6, <1>7, EarlyKinds, SegmentKinds DEF Next, efi_main

\* What the loader holds stays in use: pages are given from the conventional
\* ones, and the firmware frees only its own.
LEMMA HeldStep == TypeOK /\ Held /\ [Next]_vars => Held'
<1> SUFFICES ASSUME TypeOK, Held, [Next]_vars PROVE Held'
  OBVIOUS
<1>1. UNCHANGED volume
  BY Kinds
<1>2. CASE Idle
  <2>1. GrantedPages' = GrantedPages
    BY <1>1, <1>2 DEF Idle, GrantedPages
  <2> QED BY <2>1, <1>2 DEF Idle, Held
<1>3. CASE LoadSegment
  <2>1. UNCHANGED <<owned, granted, memory>>
    BY <1>3 DEF LoadSegment, Locals
  <2>2. GrantedPages' = GrantedPages
    BY <1>1, <2>1 DEF GrantedPages
  <2> QED BY <2>1, <2>2 DEF Held
<1>4. ASSUME UNCHANGED granted
      PROVE  /\ GrantedPages' = GrantedPages
             /\ GrantedPages \cup owned \subseteq Page
  BY <1>1, <1>4 DEF GrantedPages, SegmentPages, PagesFrom, TypeOK
<1>5. CASE PoolGrows \/ FirmwareActs
  <2> HIDE DEF GrantedPages
  <2>1. GrantedPages' = GrantedPages /\ GrantedPages \cup owned \subseteq Page
    BY <1>4, <1>5 DEF PoolGrows, FirmwareActs
  <2>2. CASE PoolGrows
    BY <2>1, <2>2 DEF PoolGrows, Take, Conventional, Held
  <2>3. CASE FirmwareActs
    BY <2>1, <2>3 DEF FirmwareActs, Take, Held
  <2> QED BY <1>5, <2>2, <2>3
<1>6. CASE SegmentGrows
  <2>1. GrantedPages' = GrantedPages \cup SegmentPages(phdr)
    BY <1>1, <1>6 DEF SegmentGrows, GrantedPages, phdr
  <2> HIDE DEF GrantedPages
  <2>2. PICK use \in {"data", "code"} : Take(SegmentPages(phdr), use, Garbage)
    BY <1>6 DEF SegmentGrows
  <2>3. \A p \in Page : memory'[p] = IF p \in SegmentPages(phdr) THEN use ELSE memory[p]
    BY <2>2 DEF Take
  <2>4. \A p \in GrantedPages \cup SegmentPages(phdr) : p \in Page
    BY DEF GrantedPages, SegmentPages, PagesFrom
  <2> QED BY <1>6, <2>1, <2>2, <2>3, <2>4 DEF SegmentGrows, Held, TypeOK
<1> QED BY <1>2, <1>3, <1>5, <1>6, Kinds

\* Once the memory map is read nothing more is allocated.
LEMMA MapReadStep ==
  ASSUME TypeOK, MapRead, [Next]_vars
  PROVE  /\ MapRead'
         /\ map.valid => UNCHANGED <<map, owned, granted>>
<1> USE DEF MapRead, Goto
<1>1. CASE EarlyStep
  BY <1>1 DEF EarlyStep, Early
<1>2. CASE SegmentStep
  BY <1>2 DEF SegmentStep
<1>3. CASE MapPool
  BY <1>3 DEF MapPool
<1>4. CASE ReadMap
  BY <1>4 DEF ReadMap, Unread
<1>5. CASE FindRoot \/ ExitBootServices \/ KernelStart
  BY <1>5 DEF FindRoot, ExitBootServices, KernelStart, Machine, Memory, Locals
<1>6. CASE LoadSegment
  BY <1>6 DEF LoadSegment, Locals
<1>7. ASSUME NEW p \in Page, FirmwareAllocates(p) \/ FirmwareFrees(p)
      PROVE  FirmwareActs
  BY <1>7, FirmwareKinds
<1>8. CASE FirmwareActs
  BY <1>8 DEF FirmwareActs
<1>9. CASE UNCHANGED vars
  BY <1>9 DEF vars
<1> QED
  BY <1>1, <1>2, <1>3, <1>4, <1>5, <1>6, <1>7, <1>8, <1>9, EarlyKinds, SegmentKinds
  DEF Next, efi_main

\* A key is the firmware's present one only if memory has not changed since,
\* and the boot services end only for that one.
LEMMA KeyTellsStep == TypeOK /\ MapRead /\ KeyTells /\ [Next]_vars => KeyTells'
<1> SUFFICES ASSUME TypeOK, MapRead, KeyTells, [Next]_vars PROVE KeyTells'
  OBVIOUS
<1> USE DEF KeyTells, MapRead, TypeOK, Goto
<1>1. CASE EarlyStep
  <2>1. bootServices /\ ~map.valid /\ UNCHANGED <<bootServices, map>>
    BY <1>1 DEF EarlyStep, Early
  <2>2. key' \in {key, key + 1}
    BY <1>1 DEF EarlyStep, Idle, PoolGrows, Take
  <2>3. mapKey' <= key'
    BY <1>1, <2>2 DEF EarlyStep
  <2> QED BY <2>1, <2>3
<1>2. CASE SegmentStep
  <2>1. bootServices /\ ~map.valid /\ UNCHANGED <<bootServices, map, mapKey>>
    BY <1>2 DEF SegmentStep
  <2>2. key' \in {key, key + 1}
    BY <1>2 DEF SegmentStep, Idle, SegmentGrows, Take
  <2> QED BY <2>1, <2>2
<1>3. CASE MapPool
  <2>1. bootServices /\ ~map.valid /\ UNCHANGED <<bootServices, map, mapKey>>
    BY <1>3 DEF MapPool, Machine
  <2>2. key' \in {key, key + 1}
    BY <1>3, PoolKinds DEF MapPool, Memory, Idle, PoolGrows, Take
  <2> QED BY <2>1, <2>2
<1>4. CASE ReadMap
  BY <1>4 DEF ReadMap, Unread, Machine, Memory
<1>5. CASE FindRoot
  BY <1>5 DEF FindRoot, Machine, Memory
<1>6. CASE ExitBootServices
  BY <1>6 DEF ExitBootServices, Memory, Locals
<1>7. CASE KernelStart
  BY <1>7 DEF KernelStart, Machine, Memory, Locals
<1>8. CASE LoadSegment
  BY <1>8 DEF LoadSegment, Machine, Locals
<1>9. ASSUME NEW p \in Page, FirmwareAllocates(p) \/ FirmwareFrees(p)
      PROVE  FirmwareActs
  BY <1>9, FirmwareKinds
<1>10. CASE FirmwareActs
  BY <1>10 DEF FirmwareActs, Take
<1>11. CASE UNCHANGED vars
  BY <1>11 DEF vars
<1> QED
  BY <1>1, <1>2, <1>3, <1>4, <1>5, <1>6, <1>7, <1>8, <1>9, <1>10, <1>11,
     EarlyKinds, SegmentKinds
  DEF Next, efi_main
-----------------------------------------------------------------------------
(* The properties.                                                         *)

\* The pages of the loader, and of the bytes of the segments it was granted.
LEMMA MineHeld == TypeOK /\ Held => \A p \in Mine : memory[p] \in {"data", "code"}
<1> SUFFICES ASSUME TypeOK, Held, NEW p \in Mine PROVE memory[p] \in {"data", "code"}
  OBVIOUS
<1>1. CASE p \in owned
  BY <1>1 DEF Held
<1>2. ASSUME NEW k \in granted, p \in Written(volume.segments[k])
      PROVE  p \in GrantedPages
  <2>1. volume.segments[k] \in Segment
    BY SegmentTyped DEF TypeOK
  <2> QED BY <1>2, <2>1, WrittenAllocated DEF GrantedPages
<1> QED BY <1>1, <1>2 DEF Mine, Held

\* Nothing of the loader's is conventional in the map it hands over.
LEMMA MapKeepsStep ==
  TypeOK /\ Held /\ MapRead /\ MapKeepsLoaderMemory /\ [Next]_vars => MapKeepsLoaderMemory'
<1> SUFFICES ASSUME TypeOK, Held, MapRead, MapKeepsLoaderMemory, [Next]_vars
             PROVE  MapKeepsLoaderMemory'
  OBVIOUS
<1>1. UNCHANGED volume
  BY Kinds
<1>2. CASE map.valid
  <2>1. UNCHANGED <<map, owned, granted>>
    BY <1>2, MapReadStep
  <2>2. Mine' = Mine
    BY <1>1, <2>1 DEF Mine
  <2> QED BY <2>1, <2>2 DEF MapKeepsLoaderMemory
<1>3. ASSUME ~map.valid, ReadMap PROVE MapKeepsLoaderMemory'
  <2>1. UNCHANGED <<memory, owned, granted>> /\ (map'.valid => map'.uses = memory)
    BY <1>3 DEF ReadMap, Memory, Unread
  <2>2. Mine' = Mine
    BY <1>1, <2>1 DEF Mine
  <2>3. \A p \in Mine : memory[p] # "conventional"
    BY MineHeld
  <2> QED BY <2>1, <2>2, <2>3 DEF MapKeepsLoaderMemory
<1>4. ASSUME ~map.valid, ~ReadMap PROVE ~map'.valid
  <2>1. CASE EarlyStep \/ SegmentStep
    BY <1>4, <2>1 DEF EarlyStep, SegmentStep
  <2>2. CASE MapPool \/ FindRoot \/ ExitBootServices \/ KernelStart \/ LoadSegment
    BY <1>4, <2>2 DEF MapPool, FindRoot, ExitBootServices, KernelStart, LoadSegment, Locals
  <2>3. ASSUME NEW p \in Page, FirmwareAllocates(p) \/ FirmwareFrees(p) PROVE ~map'.valid
    BY <1>4, <2>3, FirmwareKinds DEF FirmwareActs
  <2>4. CASE UNCHANGED vars
    BY <1>4, <2>4 DEF vars
  <2> QED
    BY <1>4, <2>1, <2>2, <2>3, <2>4, EarlyKinds, SegmentKinds DEF Next, efi_main
<1> QED BY <1>2, <1>3, <1>4 DEF MapKeepsLoaderMemory

\* A loaded segment is written by nobody but its own LoadSegment.
LEMMA SegmentsStep ==
  TypeOK /\ AtSegment /\ Held /\ SegmentsIntact /\ [Next]_vars => SegmentsIntact'
<1> SUFFICES ASSUME TypeOK, AtSegment, Held, SegmentsIntact, [Next]_vars
             PROVE  SegmentsIntact'
  OBVIOUS
<1>1. UNCHANGED volume
  BY Kinds
<1> SUFFICES ASSUME NEW k \in granted', k < at', NEW p \in Written(volume.segments[k])
             PROVE  content'[p] = Image(k)[p]
  BY <1>1 DEF SegmentsIntact, Image, ImagePage
<1>2. p \in Page
  BY DEF Written
<1>3. ASSUME k \in granted, k < at PROVE content[p] = Image(k)[p]
  BY <1>3 DEF SegmentsIntact
<1>4. ASSUME k \in granted PROVE p \notin Conventional /\ memory[p] # "firmware"
  BY <1>2, <1>4, MineHeld DEF Mine, Conventional
<1>5. \A P, use : p \notin P /\ Take(P, use, Garbage) => content'[p] = content[p]
  BY <1>2 DEF Take
<1>6. k \in Nat /\ at \in Nat
  <2>1. MemoryTyped'
    <3>1. CASE LoadSegment
      BY <3>1, <1>1, TypeStep DEF MemoryTyped, TypeOK
    <3> QED BY <3>1, Kinds, MemoryTypedStep DEF MemoryTyped, TypeOK
  <2> QED BY <2>1 DEF MemoryTyped, TypeOK
<1>7. CASE EarlyStep
  <2>1. k \in granted
    BY <1>7 DEF EarlyStep, Idle, PoolGrows
  <2>2. k # at \/ at' = at
    BY <1>7, <2>1 DEF EarlyStep, AtSegment, phdr
  <2>3. k < at
    BY <1>6, <1>7, <2>2 DEF EarlyStep
  <2>4. content'[p] = content[p]
    BY <1>4, <1>5, <1>7, <2>1 DEF EarlyStep, Idle, PoolGrows
  <2> QED BY <1>3, <2>1, <2>3, <2>4
<1>8. CASE SegmentStep
  <2>1. k < at
    BY <1>8 DEF SegmentStep
  <2>2. k \in granted
    BY <1>6, <1>8, <2>1 DEF SegmentStep, Idle, SegmentGrows
  <2>3. content'[p] = content[p]
    BY <1>4, <1>5, <1>8, <2>2 DEF SegmentStep, Idle, SegmentGrows
  <2> QED BY <1>3, <2>1, <2>2, <2>3
<1>9. CASE MapPool
  <2>1. UNCHANGED <<at, granted>>
    BY <1>9 DEF MapPool, Goto
  <2>2. Idle \/ PoolGrows
    BY <1>9, PoolKinds DEF MapPool, Memory, Idle
  <2>3. content'[p] = content[p]
    BY <1>4, <1>5, <2>1, <2>2 DEF Idle, PoolGrows
  <2> QED BY <1>3, <2>1, <2>3
<1>10. CASE ReadMap \/ FindRoot \/ ExitBootServices \/ KernelStart
  BY <1>3, <1>10 DEF ReadMap, FindRoot, ExitBootServices, KernelStart, Goto, Memory, Locals
<1>11. CASE LoadSegment
  <2>1. /\ k \in granted /\ at' = at + 1 /\ at <= Len(volume.segments) /\ phdr.load
        /\ content' = [q \in Page |-> IF q \in Written(phdr) THEN Image(at)[q] ELSE content[q]]
    BY <1>11 DEF LoadSegment, AtSegment, Locals
  <2>2. CASE k = at
    BY <1>2, <2>1, <2>2 DEF phdr
  <2>3. CASE k # at
    <3>1. k < at
      BY <1>6, <2>1, <2>3
    <3>2. /\ volume \in Volumes /\ DOMAIN volume.segments = 1 .. Len(volume.segments)
          /\ Len(volume.segments) \in Nat
      BY BootLoaderAssumption DEF TypeOK, Volume
    <3>3. k \in DOMAIN volume.segments /\ at \in DOMAIN volume.segments
      BY <1>6, <2>1, <3>2 DEF TypeOK
    <3>4. Written(volume.segments[k]) \cap Written(volume.segments[at]) = {}
      BY <2>1, <2>3, <3>2, <3>3, LinkedAssumption DEF AtSegment, phdr
    <3>5. content'[p] = content[p]
      BY <1>2, <2>1, <3>4 DEF phdr
    <3> QED BY <1>3, <2>1, <3>1, <3>5
  <2> QED BY <2>2, <2>3
<1>12. ASSUME NEW q \in Page, FirmwareAllocates(q) \/ FirmwareFrees(q)
       PROVE  FirmwareActs
  BY <1>12, FirmwareKinds
<1>13. CASE FirmwareActs
  <2>1. UNCHANGED <<at, granted>>
    BY <1>13 DEF FirmwareActs
  <2>2. content'[p] = content[p]
    BY <1>4, <1>5, <1>13, <2>1 DEF FirmwareActs, Conventional
  <2> QED BY <1>3, <2>1, <2>2
<1>14. CASE UNCHANGED vars
  BY <1>3, <1>14 DEF vars
<1> QED
  BY <1>7, <1>8, <1>9, <1>10, <1>11, <1>12, <1>13, <1>14, EarlyKinds, SegmentKinds
  DEF Next, efi_main

\* Everything the properties need, in every reachable state.
LEMMA Inductive == Spec => []IInv
<1>1. Init => IInv
  BY TypeInit
  DEF Init, IInv, AtSegment, Held, GrantedPages, MapRead, KeyTells, SegmentsIntact,
      MapKeepsLoaderMemory, Unread
<1>2. IInv /\ [Next]_vars => IInv'
  BY TypeStep, AtSegmentStep, HeldStep, MapReadStep, KeyTellsStep, SegmentsStep, MapKeepsStep
  DEF IInv
<1> QED BY <1>1, <1>2, PTL DEF Spec

\* efi_main's variables and the firmware keep their types.
THEOREM TypeCorrect == Spec => []TypeOK
<1>1. IInv => TypeOK
  BY DEF IInv
<1> QED BY <1>1, Inductive, PTL

\* If ExitBootServices has ended the boot services, the memory map the kernel
\* is given (main.c:318) is memory as it is then.
THEOREM MapCurrent == Spec => []MapIsCurrent
<1>1. IInv => MapIsCurrent
  BY DEF IInv, KeyTells, MapIsCurrent
<1> QED BY <1>1, Inductive, PTL

\* The segments that efi_main allocated (main.c:266) hold the kernel's file,
\* whatever is allocated after them.
THEOREM KernelIntact == Spec => []SegmentsIntact
<1>1. IInv => SegmentsIntact
  BY DEF IInv
<1> QED BY <1>1, Inductive, PTL

\* The map does not offer the kernel its own pages, font or map (main.c:318).
THEOREM MapProtectsLoader == Spec => []MapKeepsLoaderMemory
<1>1. IInv => MapKeepsLoaderMemory
  BY DEF IInv
<1> QED BY <1>1, Inductive, PTL
=============================================================================
