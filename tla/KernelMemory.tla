----------------------------- MODULE KernelMemory -----------------------------
(***************************************************************************)
(* Memory from power-on to the running kernel: init_physical, init_virtual,*)
(* init_heap and the renderer's constructor, in the order kstage1 calls    *)
(* them, then heap expansions and clone_active_page_map.  The page frame   *)
(* allocator is PhysicalMemory's, which only counts page tables: here      *)
(* map() walks and fills them, and KInit, KNext and KSpec of the whole are *)
(* shown to implement its Init and Next.                                   *)
(*                                                                         *)
(* Each level of a map() is a step, since each may request a page.  pc is  *)
(* the loop kstage1 is in and at the turn of that loop.  Tables are read   *)
(* and written at their physical address, as the code does: that this is   *)
(* where the active page map leads is a property.                          *)
(***************************************************************************)
EXTENDS PhysicalMemory

CONSTANTS
    Leftover,            \* what a frame holds before anybody clears it
    Garbled,             \* what an entry reads as that the bitmap lies over
    PrekernelTables,     \* frames of prekernel_pml4, pml3, pml3_high, pml2, pml1
    KERNEL_VIRTUAL,      \* page the kernel is linked at, less KernelPhysical
    HEAP_VIRTUAL_BASE,
    virtualTargetBaseAddress,
    Framebuffer,         \* first frame of the screen's framebuffer
    fbSize,              \* pages of it that are mapped
    MaxHeapPages         \* bound: the heap grows no further

INSTANCE VirtualMemory

fbPages == fbSize + 1
FramebufferFrames == Frames(Framebuffer, fbPages)

\* Tables have more than one entry, and one table of tables is enough for the
\* frames of the built-in bitmap.  The kernel lies within these, not at address
\* 0, and the page tables it is started with are in its data section.
ASSUME KernelMemoryAssumption ==
    /\ EntriesPerTable > 1
    /\ InitialPageBitmapPageCount <= EntriesPerTable * EntriesPerTable
    /\ KernelPhysical > 0
    /\ KernelPhysical + kernelPageCount <= 8 * (InitialPageBitmapPageCount \div 8)
    /\ PrekernelTables \in [1 .. 5 -> KernelFrames]
    /\ \A i, j \in 1 .. 5 : i # j => PrekernelTables[i] # PrekernelTables[j]
    /\ KERNEL_VIRTUAL \in Nat /\ HEAP_VIRTUAL_BASE \in Nat
    /\ virtualTargetBaseAddress \in Nat /\ Framebuffer \in Nat /\ fbSize \in Nat
    /\ MaxHeapPages \in Nat \ {0}
    /\ {"tables", "heap", "renderer"} \subseteq Owner
    /\ fbPages \in RunSizes /\ FramebufferFrames \in Devices

\* RAM and the screen's framebuffer end below the addresses that the deferred
\* framebuffer, the kernel and the heap are mapped at.  These follow one another,
\* and the heap has room up to the last page.
ASSUME AddressesAssumption ==
    /\ PageLimit <= virtualTargetBaseAddress
    /\ Framebuffer + fbSize <= virtualTargetBaseAddress
    /\ virtualTargetBaseAddress + fbSize <= KERNEL_VIRTUAL
    /\ KERNEL_VIRTUAL + KernelPhysical + kernelPageCount + 2 <= HEAP_VIRTUAL_BASE
    /\ HEAP_VIRTUAL_BASE + MaxHeapPages <=
          EntriesPerTable * EntriesPerTable * EntriesPerTable * EntriesPerTable

VARIABLES
    ram,        \* the page tables
    active,     \* ActivePageMap, and CR3
    pageMap,    \* init_virtual's argument
    starved,    \* history: a table of pageMap was asked for in vain
    pc, at,
    mapping,    \* the map() that is running
    heapPages,  \* pages between sHeapStart and sHeapEnd
    target,     \* what request_pages gave the renderer
    cloning,    \* the clone_active_page_map() that is running
    clones      \* history: the page maps it has returned

kvars == <<vars, ram, active, pageMap, starved, pc, at, mapping, heapPages, target,
          cloning, clones>>

-----------------------------------------------------------------------------
NoMapping == [root |-> 0, page |-> 0, frame |-> 0, level |-> 0, table |-> 0]
\* Without a page map, map() returns at once.
Mapping(root, page, frame) ==
    IF root = nullptr THEN NoMapping
    ELSE [root |-> root, page |-> page, frame |-> frame, level |-> 4, table |-> root]

NoTables == [level \in 2 .. 4 |-> 0]
NotCloning == [level |-> 0, old |-> NoTables, new |-> NoTables, slot |-> NoTables]

\* The page map _start loads: the first EntriesPerTable frames at 0 and at
\* KERNEL_VIRTUAL, through the same pml2 and pml1.
Prekernel ==
    LET pml4 == PrekernelTables[1]
        pml3 == PrekernelTables[2]
        high == PrekernelTables[3]
        pml2 == PrekernelTables[4]
        pml1 == PrekernelTables[5]
    IN  [f \in {PrekernelTables[k] : k \in 1 .. 5} |->
            CASE f = pml4 -> [Empty EXCEPT ![0] = To(pml3),
                                           ![EntriesPerTable - 1] = To(high)]
              [] f = pml3 -> [Empty EXCEPT ![0] = To(pml2)]
              [] f = high -> [Empty EXCEPT ![EntriesPerTable - 2] = To(pml2)]
              [] f = pml2 -> [Empty EXCEPT ![0] = To(pml1)]
              [] f = pml1 -> [i \in Slots |-> To(i)]]

KInit ==
    /\ Init
    /\ ram = Prekernel
    /\ active = PrekernelTables[1]
    /\ pageMap = nullptr
    /\ starved = FALSE
    /\ pc = "init_physical"
    /\ at = 0
    /\ mapping = NoMapping
    /\ heapPages = 0
    /\ target = nullptr
    /\ cloning = NotCloning
    /\ clones = {}

At(label) == pc = label /\ mapping = NoMapping
Go(label) == pc' = label /\ at' = 0
paging == <<ram, active, pageMap, starved, heapPages, target, cloning, clones>>

\* One turn of a loop that maps consecutive pages, and the end of the loop.
MapNext(root, page, frame) ==
    /\ mapping' = Mapping(root, page, frame)
    /\ at' = at + 1
    /\ UNCHANGED <<vars, pc, paging>>

Loop(label, turns, root, page, frame, next) ==
    /\ At(label)
    /\ \/ at < turns /\ MapNext(root, page + at, frame + at)
       \/ at >= turns /\ Go(next) /\ UNCHANGED <<vars, mapping, paging>>

-----------------------------------------------------------------------------
(* map(): three levels that may need a table, and the entry of the page.   *)

\* The tables of init_physical are PhysicalMemory's `tables'; later ones are
\* held like anything else that was requested.
TakeTable(answer) ==
    IF phase = "map"
    THEN /\ mem' = answer.mem
         /\ panicked' = (panicked \/ answer.panics)
         /\ tables' = tables \cup {answer.frame}
         /\ entry' = entry + 1
         /\ UNCHANGED <<phase, memMap, largest, devices, held>>
    ELSE Grant("tables", answer, 1)

Below == Entry(ram, mapping.table, mapping.page, mapping.level)
Enter(table) == mapping' = [mapping EXCEPT !.level = @ - 1, !.table = table]

MapThroughTable ==
    /\ mapping.level > 1
    /\ Below.present
    /\ Enter(Below.frame)
    /\ UNCHANGED <<vars, pc, at, paging>>

\* Mutant: a table of the third level is entered with page_table() as its index,
\* where page_directory() is meant.
MapNewTable_WrongSlot ==
    /\ mapping.level > 1
    /\ ~Below.present
    /\ LET answer == request_page(mem)
           level  == IF mapping.level = 3 THEN 2 ELSE mapping.level
       IN
       /\ TakeTable(answer)
       /\ ram' = Write(Clear(ram, answer.frame), mapping.table,
                       Index(mapping.page, level), To(answer.frame))
       /\ Enter(answer.frame)
       /\ starved' = (starved \/ (mapping.root = pageMap /\ answer.frame = nullptr))
    /\ UNCHANGED <<active, pageMap, pc, at, heapPages, target, cloning, clones>>

\* Whatever request_page returns is cleared and entered, null as well.
MapNewTable ==
    /\ mapping.level > 1
    /\ ~Below.present
    /\ LET answer == request_page(mem) IN
       /\ TakeTable(answer)
       /\ ram' = Write(Clear(ram, answer.frame), mapping.table,
                       Index(mapping.page, mapping.level), To(answer.frame))
       /\ Enter(answer.frame)
       /\ starved' = (starved \/ (mapping.root = pageMap /\ answer.frame = nullptr))
    /\ UNCHANGED <<active, pageMap, pc, at, heapPages, target, cloning, clones>>

MapPage ==
    /\ mapping.level = 1
    /\ ram' = Write(ram, mapping.table, Index(mapping.page, 1), To(mapping.frame))
    /\ mapping' = NoMapping
    /\ UNCHANGED <<vars, active, pageMap, starved, pc, at, heapPages, target, cloning, clones>>

map == MapThroughTable \/ MapNewTable \/ MapPage

-----------------------------------------------------------------------------
(* kstage1                                                                 *)

Scan ==
    /\ ScanDescriptor \/ HaltWithoutSegment \/ UseInitialBitmap
    /\ UNCHANGED <<pc, at, mapping, paging>>

\* Mutant: the limit of the built-in bitmap is not looked at.
FramesMapped_All == mem.TotalPages

FramesMapped ==
    IF mem.TotalPages < InitialPageBitmapPageCount
    THEN mem.TotalPages ELSE InitialPageBitmapPageCount

MapLowMemory ==
    /\ phase = "map"
    /\ at < FramesMapped
    /\ At("init_physical")
    /\ MapNext(active, at, at)

\* The final bitmap is put into the largest segment, which may hold tables of
\* the page map that is active: its bytes are entries then, Absent when init()
\* has cleared them and whatever the bits spell (Garbled) from then on.
FinalBuffer == B!init(bitmapSize(mem), largest.base)
EntryBytes == PageSize \div EntriesPerTable

Overwrites(f, i) ==
    /\ f \in BitmapFrames(FinalBuffer)
    /\ (f - B!base(FinalBuffer)) * PageSize + i * EntryBytes < B!length(FinalBuffer)

OverwrittenFrames == {f \in BitmapFrames(FinalBuffer) : Overwrites(f, 0)}

Overwritten(e) ==
    [f \in DOMAIN ram |->
        IF f \in OverwrittenFrames
        THEN [i \in Slots |-> IF Overwrites(f, i) THEN e ELSE ram[f][i]]
        ELSE ram[f]]

\* The kernel with its last page, which it may fill in part only.
LoadedFrames ==
    Frames(KernelPhysical, kernelPageCount + IF KernelBytes % PageSize = 0 THEN 0 ELSE 1)

\* The bitmap is written through the page map it may lie over, and may be longer
\* than the segment it starts in.
BitmapIsWritable ==
    /\ OverwrittenFrames \cap LoadedFrames = {}
    /\ \A f \in OverwrittenFrames : Maps(Overwritten(Absent), active, f, f)

SwitchBitmap ==
    /\ phase = "map"
    /\ At("init_physical")
    /\ at >= FramesMapped
    /\ BitmapIsWritable
    /\ mem' = FinalBitmap(mem)
    /\ phase' = "ready"
    /\ ram' = Overwritten(Garbled)
    /\ Go("init_virtual")
    /\ UNCHANGED <<memMap, entry, largest, tables, devices, held, panicked, mapping,
                   active, pageMap, starved, heapPages, target, cloning, clones>>

\* It faults, or runs on over code that is no more: the model ends here.
LoseMachine ==
    /\ phase = "map"
    /\ At("init_physical")
    /\ at >= FramesMapped
    /\ ~BitmapIsWritable
    /\ Go("lost")
    /\ UNCHANGED <<vars, mapping, paging>>

\* init_virtual(): the new PML4 is used as request_page returns it.
NewPageMap ==
    /\ At("init_virtual")
    /\ LET answer == request_page(mem) IN
       /\ Grant("tables", answer, 1)
       /\ pageMap' = answer.frame
       /\ starved' = (answer.frame = nullptr)
    /\ Go("map_ram")
    /\ UNCHANGED <<ram, active, mapping, heapPages, target, cloning, clones>>

\* Mutant: the last page is left out.
MapRam_Short == Loop("map_ram", mem.TotalPages - 1, pageMap, 0, 0, "map_kernel")

MapRam == Loop("map_ram", mem.TotalPages, pageMap, 0, 0, "map_kernel")

MapKernel ==
    Loop("map_kernel", KernelBytes \div PageSize + 2, pageMap,
         KERNEL_VIRTUAL + KernelPhysical, KernelPhysical, "unmap_null")

\* unmap(nullptr) is given no page map: it works on the active one.
UnmapNull ==
    /\ At("unmap_null")
    /\ ram' = unmap(ram, active, 0)
    /\ Go("flush")
    /\ UNCHANGED <<vars, active, pageMap, starved, mapping, heapPages, target, cloning, clones>>

flush_page_map ==
    /\ At("flush")
    /\ active' = pageMap
    /\ Go("init_heap")
    /\ UNCHANGED <<vars, ram, pageMap, starved, mapping, heapPages, target, cloning, clones>>

\* Mutant: every page is mapped at the start of the heap.
HeapPage_AtBase ==
    /\ LET answer == request_page(mem) IN
       /\ Grant("heap", answer, 1)
       /\ mapping' = Mapping(active, HEAP_VIRTUAL_BASE, answer.frame)
    /\ heapPages' = heapPages + 1
    /\ UNCHANGED <<ram, active, pageMap, starved, target, cloning, clones>>

\* map(HEAP_VIRTUAL_BASE + ..., request_page(), ...)
HeapPage ==
    /\ LET answer == request_page(mem) IN
       /\ Grant("heap", answer, 1)
       /\ mapping' = Mapping(active, HEAP_VIRTUAL_BASE + heapPages, answer.frame)
    /\ heapPages' = heapPages + 1
    /\ UNCHANGED <<ram, active, pageMap, starved, target, cloning, clones>>

init_heap == At("init_heap") /\ HeapPage /\ Go("lock_framebuffer")

LockFramebuffer ==
    /\ At("lock_framebuffer")
    /\ LockDevice(FramebufferFrames)
    /\ Go("map_framebuffer")
    /\ UNCHANGED <<mapping, paging>>

MapFramebuffer ==
    Loop("map_framebuffer", fbSize, active, Framebuffer, Framebuffer, "request_target")

RequestTarget ==
    /\ At("request_target")
    /\ LET answer == request_pages(mem, fbPages) IN
       /\ Grant("renderer", answer, fbPages)
       /\ target' = answer.frame
       /\ Go(IF answer.frame = nullptr THEN "running" ELSE "map_target")
    /\ UNCHANGED <<ram, active, pageMap, starved, mapping, heapPages, cloning, clones>>

MapTarget ==
    Loop("map_target", fbSize, active, virtualTargetBaseAddress, target, "running")

KStage1 ==
    \/ Scan \/ MapLowMemory \/ SwitchBitmap \/ LoseMachine
    \/ NewPageMap \/ MapRam \/ MapKernel \/ UnmapNull \/ flush_page_map
    \/ init_heap
    \/ LockFramebuffer \/ MapFramebuffer \/ RequestTarget \/ MapTarget

-----------------------------------------------------------------------------
(* The running kernel: expand_heap, a page at a time, and                  *)
(* clone_active_page_map, a table at a time.                               *)

Idle == At("running") /\ cloning = NotCloning

expand_heap ==
    /\ Idle
    /\ heapPages < MaxHeapPages
    /\ HeapPage
    /\ UNCHANGED <<pc, at>>

CloneUnchanged == UNCHANGED <<active, pageMap, starved, pc, at, mapping, heapPages, target>>

clone_active_page_map ==
    /\ Idle
    /\ LET answer == request_page(mem) IN
       /\ Grant("tables", answer, 1)
       /\ IF answer.frame = nullptr
          THEN UNCHANGED <<ram, cloning>>
          ELSE /\ ram' = Clear(ram, answer.frame)
               /\ cloning' = [NotCloning EXCEPT !.level = 4, !.old[4] = active,
                                                !.new[4] = answer.frame]
    /\ CloneUnchanged
    /\ UNCHANGED clones

OldTable == Table(ram, cloning.old[cloning.level])
\* Mutant: the loop ends one entry early.
ToCopy_Short ==
    {i \in cloning.slot[cloning.level] .. EntriesPerTable - 2 : OldTable[i].present}

ToCopy == {i \in cloning.slot[cloning.level] .. EntriesPerTable - 1 : OldTable[i].present}

Descended(level, i, old, new) ==
    [level |-> level - 1,
     old   |-> [cloning.old EXCEPT ![level - 1] = old],
     new   |-> [cloning.new EXCEPT ![level - 1] = new],
     slot  |-> [cloning.slot EXCEPT ![level] = i, ![level - 1] = 0]]

\* Mutant: tables of the last level are shared, not copied.
CloneTable_Shared ==
    /\ cloning.level > 1
    /\ ToCopy # {}
    /\ LET i      == Min(ToCopy)
           old    == OldTable[i].frame
           answer == request_page(mem)
       IN /\ Grant("tables", answer, 1)
          /\ IF cloning.level = 2
             THEN /\ ram' = Write(ram, cloning.new[2], i, To(old))
                  /\ cloning' = [cloning EXCEPT !.slot[2] = i + 1]
             ELSE /\ cloning' = Descended(cloning.level, i, old, answer.frame)
                  /\ UNCHANGED ram
    /\ CloneUnchanged
    /\ UNCHANGED clones

\* A present entry gets a table of its own.  The tables of the last level are
\* copied; the others are filled entry by entry and not cleared first.  When
\* there is none to be had, those made so far are forgotten.
CloneTable ==
    /\ cloning.level > 1
    /\ ToCopy # {}
    /\ LET level  == cloning.level
           i      == Min(ToCopy)
           old    == OldTable[i].frame
           answer == request_page(mem)
           new    == answer.frame
       IN /\ Grant("tables", answer, 1)
          /\ CASE new = nullptr -> cloning' = NotCloning /\ UNCHANGED ram
               [] new # nullptr /\ level = 2 ->
                    /\ ram' = Write(Put(ram, new, Table(ram, old)),
                                    cloning.new[2], i, To(new))
                    /\ cloning' = [cloning EXCEPT !.slot[2] = i + 1]
               [] new # nullptr /\ level > 2 ->
                    /\ cloning' = Descended(level, i, old, new)
                    /\ UNCHANGED ram
    /\ CloneUnchanged
    /\ UNCHANGED clones

\* Mutant: the finished table is not entered in its parent.
CloneEntered_Dropped ==
    /\ cloning.level \in {2, 3}
    /\ ToCopy = {}
    /\ LET parent == cloning.level + 1 IN
       cloning' = [cloning EXCEPT !.level = parent, !.slot[parent] = @ + 1]
    /\ CloneUnchanged
    /\ UNCHANGED <<vars, clones, ram>>

\* All entries of a table are copied: enter it in its parent, or return it.
CloneEntered ==
    /\ cloning.level \in {2, 3}
    /\ ToCopy = {}
    /\ LET parent == cloning.level + 1 IN
       /\ ram' = Write(ram, cloning.new[parent], cloning.slot[parent],
                       To(cloning.new[cloning.level]))
       /\ cloning' = [cloning EXCEPT !.level = parent, !.slot[parent] = @ + 1]
    /\ CloneUnchanged
    /\ UNCHANGED <<vars, clones>>

CloneReturns ==
    /\ cloning.level = 4
    /\ ToCopy = {}
    /\ clones' = clones \cup {cloning.new[4]}
    /\ cloning' = NotCloning
    /\ CloneUnchanged
    /\ UNCHANGED <<vars, ram>>

Running == expand_heap \/ clone_active_page_map \/ CloneTable \/ CloneEntered \/ CloneReturns

KNext == KStage1 \/ map \/ Running

KSpec == KInit /\ [][KNext]_kvars

-----------------------------------------------------------------------------
(* Properties.                                                             *)

Switched == pc \notin {"init_physical", "lost", "init_virtual", "map_ram", "map_kernel",
                       "unmap_null", "flush"}

\* map() asks for page tables exactly when PhysicalMemory says it does, and
\* every request of the boot and of the running kernel is one of its steps.
ImplementsPhysicalMemory == Init /\ [][Next]_vars

\* Page tables are read and written at their physical address, through the
\* page map that is active while another one is built: each table in use is
\* mapped there to itself at that moment, or the kernel faults.  (request_page
\* returns null when it has run out of memory, and map() enters that as a table
\* like any other: nothing can be said of such a page map.)
TouchedTablesAreMapped ==
    ~starved =>
    /\ mapping # NoMapping => Maps(ram, active, mapping.table, mapping.table)
    /\ cloning # NotCloning =>
          \A level \in cloning.level .. 4 :
              \A table \in {cloning.old[level], cloning.new[level]} :
                  Maps(ram, active, table, table)

\* "virtual memory addresses will be equal to physical memory addresses within
\* the kernel": from the switch to the new page map on, for all of RAM, however
\* the heap, the framebuffers and the clones are mapped afterwards.
RamIsIdentityMapped ==
    Switched /\ ~starved => \A p \in 0 .. mem.TotalPages - 1 : Maps(ram, active, p, p)

\* While memory lasts, each page of the heap and of the deferred framebuffer
\* leads to a frame of its owner, no two to the same one, and the kernel stays
\* where it runs.
DataIsBacked ==
    Switched /\ mapping = NoMapping /\ ~panicked /\ ~starved =>
        LET HeapFrame(k) == Leaf(ram, active, HEAP_VIRTUAL_BASE + k) IN
        /\ {HeapFrame(k).frame : k \in 0 .. heapPages - 1} = held["heap"]
        /\ \A k \in 0 .. heapPages - 1 : HeapFrame(k).present
        /\ Cardinality(held["heap"]) = heapPages
        /\ pc = "running" /\ target # nullptr =>
              \A k \in 0 .. fbSize - 1 :
                  /\ Maps(ram, active, virtualTargetBaseAddress + k, target + k)
                  /\ target + k \in held["renderer"]
        /\ \A p \in KernelFrames : Maps(ram, active, KERNEL_VIRTUAL + p, p)

\* While memory lasts, the frames requested for page tables are exactly the
\* tables of the active page map and of the clones: none is lost, none shared.
\* (A page map at frame 0, which is as good as none, comes without a panic.)
TablesAccounted ==
    Switched /\ mapping = NoMapping /\ cloning = NotCloning /\ ~panicked /\ ~starved =>
        held["tables"] = UNION {PageTables(ram, r) : r \in clones \cup {active}}

\* A clone has no table in common with the active page map or another clone:
\* mapping a page in one of them never changes the others.
ClonesArePrivate ==
    \A c \in clones : \A d \in (clones \ {c}) \cup {active} :
        PageTables(ram, c) \cap PageTables(ram, d) = {}

\* The pages the kernel maps.
Mapped ==
    (0 .. mem.TotalPages - 1)
      \cup {KERNEL_VIRTUAL + p : p \in KernelFrames}
      \cup (HEAP_VIRTUAL_BASE .. HEAP_VIRTUAL_BASE + MaxHeapPages - 1)
      \cup Frames(Framebuffer, fbSize)
      \cup Frames(virtualTargetBaseAddress, fbSize)

\* "an exact copy of the currently active page map"
CloneIsExact ==
    [][\A c \in clones' \ clones : \A p \in Mapped :
           Leaf(ram, c, p) = Leaf(ram, active, p)]_kvars

\* While memory lasts for tables, the steps of map() change where its page leads
\* and nothing else: a new table never hides what its slot or its frame meant.
MapChangesOnePage ==
    [][mapping # NoMapping /\ mapping.root = pageMap /\ ~starved' =>
           \A p \in Mapped \ {mapping.page} :
               Leaf(ram', pageMap, p) = Leaf(ram, pageMap, p)]_kvars

\* "Make null-dereference generate exception."
NullFaults == Switched => ~Leaf(ram, active, 0).present
=============================================================================
