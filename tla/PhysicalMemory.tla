--------------------------- MODULE PhysicalMemory ---------------------------
(***************************************************************************)
(* The physical memory manager from boot to steady state: init_physical in *)
(* kernel/memory/physical_memory_manager.cc, then the calls the rest of    *)
(* the kernel makes.  Interrupts are off while it initialises and nothing  *)
(* else runs, so the steps of init_physical follow one another: they are   *)
(* kept apart because each leaves a state the next one depends on.         *)
(*                                                                         *)
(* Addresses are frame numbers.  tables, held, devices and panicked are    *)
(* history: who was given which frame, and whether panic() (which returns) *)
(* was ever called.                                                        *)
(***************************************************************************)
EXTENDS PageFrames, Sequences

CONSTANTS
    PageSize,                    \* PAGE_SIZE, bytes in a frame
    InitialPageBitmapPageCount,  \* frames the built-in bitmap covers
    EntriesPerTable,             \* frames one page table maps: 512
    MemoryMaps,                  \* the EFI memory maps to boot from
    KernelPhysical,              \* frame the kernel is loaded at
    KernelBytes,                 \* KERNEL_END - KERNEL_START
    Devices,                     \* ranges a driver may lock: framebuffers
    Owner,                       \* who holds frames: renderer, heap, ...
    RunSizes,                    \* numbers of pages requests ask for
    PageLimit                    \* bound: frames there are addresses for (2^40)

Conventional == 7                \* EfiConventionalMemory

Descriptors == [Type : Nat, PhysicalAddress : Nat, NumPages : Nat]

ASSUME ConstantsAssumption ==
    /\ PageSize \in Nat \ {0}
    /\ EntriesPerTable \in Nat \ {0}
    /\ PageLimit \in Nat
    /\ InitialPageBitmapPageCount \in 0 .. PageLimit
    /\ KernelPhysical \in Nat
    /\ KernelBytes \in Nat
    /\ RunSizes \subseteq Nat
    /\ Word \in Nat
    /\ PageLimit + 8 < Word

ASSUME MemoryMapsAssumption ==
    /\ MemoryMaps \subseteq Seq(Descriptors)
    /\ \A d \in Devices : d \subseteq Nat

VARIABLES
    phase,     \* "scan", "map", "ready" or "halted"
    memMap,    \* the EFI memory map
    entry,     \* the descriptor scanned next, then the table mapped next
    largest,   \* largestFreeMemorySegment and its page count
    mem,       \* the allocator's globals
    tables,    \* frames handed to map() as page tables
    devices,   \* frames drivers have locked
    held,      \* frames each owner holds
    panicked

vars == <<phase, memMap, entry, largest, mem, tables, devices, held, panicked>>

-----------------------------------------------------------------------------
(* The memory map and the frames that init_physical keeps for itself.      *)

Segments(map) == {map[k] : k \in DOMAIN map}
FreeSegments(map) == {d \in Segments(map) : d.Type = Conventional}
FramesOf(d) == Frames(d.PhysicalAddress, d.NumPages)
ConventionalFrames(map) == UNION {FramesOf(d) : d \in FreeSegments(map)}

kernelPageCount == KernelBytes \div PageSize
KernelFrames == Frames(KernelPhysical, kernelPageCount)

bitmapSize(m) == m.TotalPages \div 8 + 1
BitmapFrames(b) == Frames(B!base(b), B!length(b) \div PageSize + 1)

\* Mutant: the limit is the length of the last free segment.
LongestSegment_Last(map) ==
    map[Max({k \in DOMAIN map : map[k].Type = Conventional})].NumPages

LongestSegment(map) == Max({0} \cup {d.NumPages : d \in FreeSegments(map)})

-----------------------------------------------------------------------------
Init ==
    /\ phase = "scan"
    /\ memMap \in MemoryMaps
    /\ entry = 1
    /\ largest = [base |-> nullptr, count |-> 0]
    /\ mem = PowerOn
    /\ tables = {}
    /\ devices = {}
    /\ held = [o \in Owner |-> {}]
    /\ panicked = FALSE

\* The code adds a number of pages to a byte address here.
BelowInitialLimit(d) ==
    d.PhysicalAddress * PageSize + d.NumPages < InitialPageBitmapPageCount * PageSize

\* One turn of the first loop over the memory map.
ScanDescriptor ==
    /\ phase = "scan"
    /\ entry <= Len(memMap)
    /\ LET desc == memMap[entry] IN
       /\ mem.TotalPages + desc.NumPages <= PageLimit
       /\ largest' = IF /\ desc.Type = Conventional
                        /\ desc.NumPages > largest.count
                        /\ BelowInitialLimit(desc)
                     THEN [base |-> desc.PhysicalAddress, count |-> desc.NumPages]
                     ELSE largest
       /\ mem' = [mem EXCEPT !.TotalPages = @ + desc.NumPages]
    /\ entry' = entry + 1
    /\ UNCHANGED <<phase, memMap, tables, devices, held, panicked>>

NoSegment == largest.base = nullptr \/ largest.count = 0

\* No segment to put the bitmap in: log and halt.  A segment that starts at
\* address 0 counts as none.
HaltWithoutSegment ==
    /\ phase = "scan"
    /\ entry > Len(memMap)
    /\ NoSegment
    /\ phase' = "halted"
    /\ UNCHANGED <<memMap, entry, largest, mem, tables, devices, held, panicked>>

\* The built-in bitmap: lock everything, free what the memory map says is
\* free, lock the kernel again.
InitialBitmap(m) ==
    LET zeroed == [m EXCEPT !.PageMap =
                       B!init(InitialPageBitmapPageCount \div 8, nullptr)]
        all    == lock_pages(zeroed, Frames(0, InitialPageBitmapPageCount))
        freed  == free_pages(all, ConventionalFrames(memMap))
    IN  lock_pages(freed, KernelFrames)

UseInitialBitmap ==
    /\ phase = "scan"
    /\ entry > Len(memMap)
    /\ ~NoSegment
    /\ phase' = "map"
    /\ mem' = InitialBitmap(mem)
    /\ entry' = 1
    /\ UNCHANGED <<memMap, largest, tables, devices, held, panicked>>

\* Every frame up to the limit is mapped to itself.  The first page table is
\* the prekernel's; map() requests one more for each EntriesPerTable frames,
\* and uses whatever it is given.
MappingTable ==
    /\ entry * EntriesPerTable < mem.TotalPages
    /\ entry * EntriesPerTable < InitialPageBitmapPageCount

MapTable ==
    /\ phase = "map"
    /\ MappingTable
    /\ LET table == request_page(mem) IN
       /\ mem' = table.mem
       /\ tables' = tables \cup {table.frame}
       /\ panicked' = (panicked \/ table.panics)
    /\ entry' = entry + 1
    /\ UNCHANGED <<phase, memMap, largest, devices, held>>

\* The final bitmap, at the start of the largest segment: lock everything,
\* free the conventional memory, lock the bitmap itself and the kernel.
\* Mutant: the kernel is not locked again.
FinalBitmap_KernelFree(m) ==
    LET zeroed == [m EXCEPT !.PageMap = B!init(bitmapSize(m), largest.base),
                            !.TotalUsedPages = 0]
        all    == [lock_pages(zeroed, Frames(0, m.TotalPages + 1))
                       EXCEPT !.TotalFreePages = 0]
        freed  == [free_pages(all, ConventionalFrames(memMap))
                       EXCEPT !.MaxFreePagesInARow = LongestSegment(memMap)]
    IN  lock_pages(freed, BitmapFrames(freed.PageMap))

FinalBitmap(m) ==
    LET zeroed == [m EXCEPT !.PageMap = B!init(bitmapSize(m), largest.base),
                            !.TotalUsedPages = 0]
        all    == [lock_pages(zeroed, Frames(0, m.TotalPages + 1))
                       EXCEPT !.TotalFreePages = 0]
        freed  == [free_pages(all, ConventionalFrames(memMap))
                       EXCEPT !.MaxFreePagesInARow = LongestSegment(memMap)]
        bitmap == lock_pages(freed, BitmapFrames(freed.PageMap))
    IN  lock_pages(bitmap, KernelFrames)

UseFinalBitmap ==
    /\ phase = "map"
    /\ ~MappingTable
    /\ phase' = "ready"
    /\ mem' = FinalBitmap(mem)
    /\ UNCHANGED <<memMap, entry, largest, tables, devices, held, panicked>>

-----------------------------------------------------------------------------
(* The calls of the rest of the kernel.                                    *)

Grant(o, answer, n) ==
    /\ mem' = answer.mem
    /\ panicked' = (panicked \/ answer.panics)
    /\ held' = IF answer.panics \/ answer.frame = nullptr
               THEN held
               ELSE [held EXCEPT ![o] = @ \cup Frames(answer.frame, n)]
    /\ UNCHANGED <<phase, memMap, entry, largest, tables, devices>>

RequestPage(o) ==
    /\ phase = "ready"
    /\ Grant(o, request_page(mem), 1)

RequestPages(o, n) ==
    /\ phase = "ready"
    /\ Grant(o, request_pages(mem, n), n)

\* An owner gives back frames it holds.
FreePages(o, S) ==
    /\ phase = "ready"
    /\ mem' = free_pages(mem, S)
    /\ held' = [held EXCEPT ![o] = @ \ S]
    /\ UNCHANGED <<phase, memMap, entry, largest, tables, devices, panicked>>

\* A driver locks the frames of its device, which no descriptor calls
\* conventional memory.
LockDevice(S) ==
    /\ phase = "ready"
    /\ S \cap ConventionalFrames(memMap) = {}
    /\ mem' = lock_pages(mem, S)
    /\ devices' = devices \cup S
    /\ UNCHANGED <<phase, memMap, entry, largest, tables, held, panicked>>

Boot ==
    \/ ScanDescriptor \/ HaltWithoutSegment \/ UseInitialBitmap
    \/ MapTable \/ UseFinalBitmap

Run ==
    \/ \E o \in Owner : RequestPage(o)
    \/ \E o \in Owner, n \in RunSizes : RequestPages(o, n)
    \/ \E o \in Owner : \E a \in held[o], b \in held[o] :
           a .. b \subseteq held[o] /\ FreePages(o, a .. b)
    \/ \E S \in Devices : LockDevice(S)

Next == Boot \/ Run

Spec == Init /\ [][Next]_vars /\ WF_vars(Boot)

-----------------------------------------------------------------------------
(* Properties.                                                             *)

TypeOK ==
    /\ phase \in {"scan", "map", "ready", "halted"}
    /\ memMap \in MemoryMaps
    /\ entry \in Nat \ {0}
    /\ largest \in [base : Nat, count : Nat]
    /\ PageFramesType(mem)
    /\ tables \subseteq Nat
    /\ devices \subseteq Nat
    /\ held \in [Owner -> SUBSET Nat]
    /\ panicked \in BOOLEAN

Held == UNION {held[o] : o \in Owner}

\* What is left to give once init_physical has taken its share.
Arena ==
    IF phase = "ready"
    THEN ConventionalFrames(memMap)
           \ (tables \cup KernelFrames \cup BitmapFrames(mem.PageMap))
    ELSE {}

\* The counters agree with the bitmap through every lock and free, across the
\* wrap below zero while the built-in bitmap is used, and across the switch of
\* bitmaps: each locked frame is counted once, however often it is locked.
\* (The page past the end that lock_pages(0, TotalPages + 1) locks is counted
\* too, so the two sum to one more than TotalPages.)
CountersMatch ==
    /\ mem.TotalUsedPages = Cardinality(mem.PageMap.bits)
    /\ phase = "ready" =>
           Plus(mem.TotalFreePages, mem.TotalUsedPages) = mem.TotalPages + 1

\* Locked in the bitmap is exactly: not conventional memory, or the bitmap's
\* own, or the kernel's, or held.  A free never unlocks another's frame, a
\* request locks all it returns, and nothing is lost.  (Frame 0 is left out:
\* who is given it cannot tell it from a failure.  For the same reason a
\* machine so small that map() needed no table is left out: only there can a
\* search for a run still start at frame 0.)
FreeListExact ==
    phase = "ready" /\ tables # {} =>
        \A p \in 1 .. mem.TotalPages :
            ~locked(mem, p) <=>
                /\ p \in ConventionalFrames(memMap)
                /\ p \notin BitmapFrames(mem.PageMap) \cup KernelFrames \cup Held

\* The final bitmap marks the page tables built before it as free memory.
\* What protects them is only that every search starts above them.
TablesBelowSearch ==
    \A p \in tables : p < mem.FirstFreePage

\* request_page and request_pages give one owner one unbroken run of
\* conventional frames that nobody holds, and that is not a page table, the
\* kernel or the bitmap; only the holder can undo it.
RA == INSTANCE RunAllocator WITH arena <- Arena
GrantsAreFreeRuns == RA!Spec

\* The limit that request_pages refuses longer requests by is never below a
\* run that is really there, on a memory map whose free segments neither touch
\* nor overlap.
SegmentsApart ==
    \A d, e \in FreeSegments(memMap) :
        \/ d = e
        \/ d.PhysicalAddress + d.NumPages < e.PhysicalAddress
        \/ e.PhysicalAddress + e.NumPages < d.PhysicalAddress
RunLimitHolds ==
    phase = "ready" /\ SegmentsApart =>
        \A p \in 1 .. mem.TotalPages - mem.MaxFreePagesInARow :
            \E q \in Frames(p, mem.MaxFreePagesInARow + 1) : locked(mem, q)

\* "the base of a free page in memory": every page table is a frame that the
\* memory map calls free.  Not so past the built-in bitmap, where every page
\* reads as free (MCStarvedMaps; README, section 4).
TablesAreFreeMemory ==
    tables \subseteq ConventionalFrames(memMap)

\* The message of the panic in request_page: "Ran out of memory".  It is
\* raised only when no frame of the arena is free.
PanicOnlyWhenExhausted ==
    [][panicked' # panicked => \A p \in Arena : locked(mem, p)]_vars

\* "The page map itself takes up space within the largest free memory
\* segment ... so it doesn't get trampled on": the bitmap shares no frame with
\* a live page table.  Not so when the largest segment is the lowest one
\* (MCLowLargestMaps; README, section 4).
BitmapNotTrampled ==
    phase = "ready" => BitmapFrames(mem.PageMap) \cap tables = {}
=============================================================================
