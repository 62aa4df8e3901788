------------------------------ MODULE BootLoader ------------------------------
(***************************************************************************)
(* efi_main in gnu-efi/bootloader/main.c: it loads the font and the kernel *)
(* from the boot volume, reads the memory map, leaves the boot services    *)
(* and jumps to the kernel.                                                *)
(*                                                                         *)
(* The firmware is external: a memory map with a key that every change     *)
(* moves on, allocation of pages and pool, and activity of its own (timers,*)
(* drivers, its console) for as long as the boot services are there.       *)
(* Memory is counted in pages; files read as they are.  owned and granted  *)
(* are history: what the loader was given.                                 *)
(***************************************************************************)
EXTENDS Integers, Sequences, FiniteSets

CONSTANTS
    PageCount,     \* pages of memory
    PageSize,      \* 0x1000
    Memories,      \* what the pages may be used for at entry
    Volumes,       \* what may be on the boot volume
    ConfigTables,  \* the firmware's configuration tables
    MaxChanges     \* bound: changes the firmware makes to the memory map

Page == 0 .. PageCount - 1
Use == {"conventional", "firmware", "data", "code"}
Segment == [load : BOOLEAN, paddr : Page, memsz : Nat, filesz : Nat, exec : BOOLEAN]
Volume == [directory : BOOLEAN, kernel : {"missing", "invalid", "valid"},
           font : {"missing", "invalid", "valid"}, segments : Seq(Segment)]
ConfigEntry == [acpi2 : BOOLEAN, signature : BOOLEAN, checksum : BOOLEAN]

ASSUME BootLoaderAssumption ==
    /\ PageCount \in Nat \ {0}
    /\ PageSize \in Nat \ {0}
    /\ Memories \subseteq [Page -> Use]
    /\ Volumes \subseteq Volume
    /\ ConfigTables \subseteq Seq(ConfigEntry)
    /\ MaxChanges \in Nat

\* Pages that the bytes of a segment are in.
Written(s) == {p \in Page : s.paddr <= p /\ (p - s.paddr) * PageSize < s.memsz}

\* No two segments share a page: kernel.ld begins each section on a new one.
ASSUME LinkedAssumption ==
    \A v \in Volumes : \A j, k \in DOMAIN v.segments :
        v.segments[j].load /\ v.segments[k].load /\ j # k =>
            Written(v.segments[j]) \cap Written(v.segments[k]) = {}

VARIABLES
    pc, at,          \* the step of efi_main, and the program header it is at
    volume,
    table,           \* gSystemTable->ConfigurationTable
    memory,          \* use of each page
    content,         \* what was last written to it
    key,             \* the firmware's key of the memory map
    changes,
    bootServices,    \* whether they are still there
    mapKey, capacity, map, font, rsdp,   \* efi_main's variables
    owned, granted

vars == <<pc, at, volume, table, memory, content, key, changes, bootServices,
          mapKey, capacity, map, font, rsdp, owned, granted>>

-----------------------------------------------------------------------------
(* The firmware.                                                           *)

Conventional == {p \in Page : memory[p] = "conventional"}
Elsewhere == <<0, 0>>         \* contents that are not the kernel's

\* Descriptors the memory map takes: one for each run of pages of one use.
Descriptors(m) == Cardinality({p \in Page : p = 0 \/ m[p] # m[p - 1]})

\* The pages are put to a use and written to.
Take(P, use, c) ==
    /\ memory' = [p \in Page |-> IF p \in P THEN use ELSE memory[p]]
    /\ content' = [p \in Page |-> IF p \in P THEN c[p] ELSE content[p]]
    /\ key' = key + 1

Garbage == [p \in Page |-> Elsewhere]

\* Pool memory comes from what is left of a page or from a new page.  It is
\* out when no page is left.
AllocatePool(success) ==
    \/ /\ success
       /\ UNCHANGED <<memory, content, key, owned>>
    \/ /\ success
       /\ \E p \in Conventional :
             Take({p}, "data", Garbage) /\ owned' = owned \cup {p}
    \/ /\ ~success
       /\ Conventional = {}
       /\ UNCHANGED <<memory, content, key, owned>>

-----------------------------------------------------------------------------
Unread == [valid |-> FALSE, uses |-> [p \in Page |-> "conventional"]]

Init ==
    /\ pc = "directory"
    /\ at = 1
    /\ volume \in Volumes
    /\ table \in ConfigTables
    /\ memory \in Memories
    /\ content = Garbage
    /\ key = 0
    /\ changes = 0
    /\ bootServices = TRUE
    /\ mapKey = 0
    /\ capacity = 0
    /\ map = Unread
    /\ font = FALSE
    /\ rsdp = 0
    /\ owned = {}
    /\ granted = {}

\* efi_main's variables that few steps change.
Locals == <<mapKey, capacity, map, font, rsdp, granted>>
Machine == <<volume, table, changes, bootServices>>
Memory == <<memory, content, key, owned>>

Goto(label) == pc' = label /\ UNCHANGED at

OpenDirectory ==
    /\ pc = "directory"
    /\ Goto(IF volume.directory THEN "kernel_file" ELSE "returned")
    /\ UNCHANGED <<Machine, Memory, Locals>>

OpenKernel ==
    /\ pc = "kernel_file"
    /\ Goto(IF volume.kernel = "missing" THEN "returned" ELSE "font_header")
    /\ UNCHANGED <<Machine, Memory, Locals>>

\* An allocation fails into a variable that was never set: the test for 0 that
\* follows need not see it, and the file is read to wherever it points.
Unset ==
    /\ Conventional = {}
    /\ Goto("lost")
    /\ UNCHANGED <<Machine, Memory, Locals>>

\* LoadPSF1Font: three allocations; whatever fails, there is no font.
FontStep(label, next, ok) ==
    /\ pc = label
    /\ \E success \in BOOLEAN :
          /\ AllocatePool(success)
          /\ Goto(IF success /\ ok THEN next ELSE "elf_header")
          /\ font' = (success /\ next = "elf_header")
    /\ UNCHANGED <<Machine, mapKey, capacity, map, rsdp, granted>>

NoFont ==
    /\ pc = "font_header"
    /\ volume.font = "missing"
    /\ Goto("elf_header")
    /\ UNCHANGED <<Machine, Memory, Locals>>

LoadPSF1Font ==
    \/ NoFont
    \/ volume.font # "missing"
         /\ FontStep("font_header", "font_glyphs", volume.font = "valid")
    \/ volume.font # "missing" /\ pc = "font_header" /\ Unset
    \/ FontStep("font_glyphs", "font_record", TRUE)
    \/ FontStep("font_record", "elf_header", TRUE)

VerifyKernel ==
    /\ pc = "elf_header"
    /\ Goto(IF volume.kernel = "valid" THEN "program_headers" ELSE "returned")
    /\ UNCHANGED <<Machine, Memory, Locals>>

ReadProgramHeaders(success) ==
    /\ pc = "program_headers"
    /\ AllocatePool(success)
    /\ Goto(IF success THEN "segment" ELSE "returned")
    /\ UNCHANGED <<Machine, Locals>>

ProgramHeaders ==
    \/ ReadProgramHeaders(TRUE)
    \/ ReadProgramHeaders(FALSE)
    \/ pc = "program_headers" /\ Unset

-----------------------------------------------------------------------------
(* The kernel's segments.                                                  *)

phdr == volume.segments[at]

\* Mutant: the last page that is only begun is not counted.
PagesOf_RoundedDown(memsz) == memsz \div PageSize

PagesOf(memsz) == (memsz + PageSize - 1) \div PageSize

PagesFrom(paddr, n) == {p \in Page : paddr <= p /\ p < paddr + n}
SegmentPages(s) == PagesFrom(s.paddr, PagesOf(s.memsz))

\* Page i of segment k, counted from 1, or zeroes past the end of its file.
ImagePage(k, i) ==
    IF i * PageSize < volume.segments[k].filesz THEN <<k, i + 1>> ELSE <<k, 0>>
Image(k) == [p \in Page |-> ImagePage(k, p - volume.segments[k].paddr)]

SegmentsDone ==
    /\ pc = "segment"
    /\ at > Len(volume.segments)
    /\ Goto("map_size")
    /\ UNCHANGED <<Machine, Memory, Locals>>

\* Mutant: the headers that are not loaded are not stepped over.
SkipHeader_Stuck ==
    /\ pc = "segment"
    /\ at <= Len(volume.segments)
    /\ ~phdr.load
    /\ UNCHANGED vars

SkipHeader ==
    /\ pc = "segment"
    /\ at <= Len(volume.segments)
    /\ ~phdr.load
    /\ at' = at + 1
    /\ UNCHANGED <<pc, Machine, Memory, Locals>>

\* AllocatePages at the segment's own address.  The loop asks again while the
\* address is 0, even after it was given page 0.
AllocateSegment ==
    /\ pc = "segment"
    /\ at <= Len(volume.segments)
    /\ phdr.load
    /\ SegmentPages(phdr) \subseteq Conventional
    /\ Take(SegmentPages(phdr), IF phdr.exec THEN "code" ELSE "data", Garbage)
    /\ granted' = granted \cup {at}
    /\ Goto(IF phdr.paddr = 0 THEN "segment" ELSE "load")
    /\ UNCHANGED <<Machine, owned, mapKey, capacity, map, font, rsdp>>

\* The pages are not all free, which efi_main does not look at: the segment is
\* loaded over what is there.
SegmentRefused ==
    /\ pc = "segment"
    /\ at <= Len(volume.segments)
    /\ phdr.load
    /\ ~(SegmentPages(phdr) \subseteq Conventional)
    /\ Goto(IF phdr.paddr = 0 THEN "segment" ELSE "load")
    /\ UNCHANGED <<Machine, Memory, Locals>>

\* SetMem and Read.
LoadSegment ==
    /\ pc = "load"
    /\ content' = [p \in Page |-> IF p \in Written(phdr) THEN Image(at)[p] ELSE content[p]]
    /\ pc' = "segment"
    /\ at' = at + 1
    /\ UNCHANGED <<Machine, memory, key, owned, Locals>>

-----------------------------------------------------------------------------
(* The memory map and the end of the boot services.                        *)

\* The first GetMemoryMap has no buffer: it fails, and tells the size, unless
\* MapSize, which was never set, happened to be large enough.
MapSize ==
    /\ pc = "map_size"
    /\ capacity' \in {Descriptors(memory), PageCount}
    /\ mapKey' = key
    /\ Goto("map_pool")
    /\ UNCHANGED <<Machine, Memory, map, font, rsdp, granted>>

\* Mutant: the map is the one whose size was asked for.
MapPool_ReadFirst ==
    /\ pc = "map_pool"
    /\ AllocatePool(TRUE)
    /\ map' = [valid |-> TRUE, uses |-> memory]
    /\ Goto("acpi")
    /\ UNCHANGED <<Machine, mapKey, capacity, font, rsdp, granted>>

MapPool ==
    /\ pc = "map_pool"
    /\ \/ AllocatePool(TRUE) /\ UNCHANGED capacity
       \/ /\ Conventional = {} \/ capacity > Descriptors(memory)
          /\ capacity' = 0
          /\ UNCHANGED Memory
    /\ Goto("map_read")
    /\ UNCHANGED <<Machine, mapKey, map, font, rsdp, granted>>

\* The second one.  When the buffer, which may itself have cost a descriptor,
\* is too small it only gives the key.
ReadMap ==
    /\ pc = "map_read"
    /\ mapKey' = key
    /\ map' = IF Descriptors(memory) <= capacity
              THEN [valid |-> TRUE, uses |-> memory]
              ELSE Unread
    /\ Goto("acpi")
    /\ UNCHANGED <<Machine, Memory, capacity, font, rsdp, granted>>

\* The table's entries (0 for none) that may end up as the ACPI root.  Index
\* and pointer both advance: turn i looks at the GUID of entry 2 * i, which in
\* the second half is not in the table, and at the table of entry i.  And
\* CompareGuid returns 0 for equal ones: what is taken has another GUID.
Roots ==
    LET n == Len(table)
        Hits(beyond) ==
            {i \in 0 .. n - 1 :
                /\ 2 * i < n => ~table[2 * i + 1].acpi2
                /\ 2 * i >= n => i \in beyond
                /\ table[i + 1].signature
                /\ table[i + 1].checksum}
        Last(S) == CHOOSE i \in S : \A j \in S : j <= i
    IN  {IF Hits(beyond) = {} THEN 0 ELSE Last(Hits(beyond)) + 1 :
            beyond \in SUBSET {i \in 0 .. n - 1 : 2 * i >= n}}

FindRoot ==
    /\ pc = "acpi"
    /\ rsdp' \in Roots
    /\ Goto("exit")
    /\ UNCHANGED <<Machine, Memory, mapKey, capacity, map, font, granted>>

\* Mutant: the key is not the one that was read with the map.
ExitBootServices_FreshKey ==
    /\ pc = "exit"
    /\ bootServices' = FALSE
    /\ Goto("start")
    /\ UNCHANGED <<volume, table, changes, Memory, Locals>>

\* With an old key the boot services stay; efi_main does not look.
ExitBootServices ==
    /\ pc = "exit"
    /\ bootServices' = (mapKey # key)
    /\ Goto("start")
    /\ UNCHANGED <<volume, table, changes, Memory, Locals>>

KernelStart ==
    /\ pc = "start"
    /\ Goto("kernel")
    /\ UNCHANGED <<Machine, Memory, Locals>>

efi_main ==
    \/ OpenDirectory \/ OpenKernel \/ LoadPSF1Font \/ VerifyKernel \/ ProgramHeaders
    \/ SegmentsDone \/ SkipHeader \/ AllocateSegment \/ SegmentRefused \/ LoadSegment
    \/ MapSize \/ MapPool \/ ReadMap \/ FindRoot \/ ExitBootServices \/ KernelStart

-----------------------------------------------------------------------------
(* The firmware's own activity.                                            *)

Firmware(P, use) ==
    /\ bootServices
    /\ pc \notin {"kernel", "returned", "lost"}
    /\ changes < MaxChanges
    /\ changes' = changes + 1
    /\ Take(P, use, Garbage)
    /\ UNCHANGED <<pc, at, volume, table, bootServices, owned, Locals>>

FirmwareAllocates(p) == memory[p] = "conventional" /\ Firmware({p}, "firmware")
FirmwareFrees(p) == memory[p] = "firmware" /\ Firmware({p}, "conventional")

Next ==
    \/ efi_main
    \/ \E p \in Page : FirmwareAllocates(p) \/ FirmwareFrees(p)

\* The loader goes on; the firmware need not do anything.
Spec == Init /\ [][Next]_vars /\ WF_vars(efi_main)

-----------------------------------------------------------------------------
(* Properties.                                                             *)

TypeOK ==
    /\ pc \in {"directory", "kernel_file", "font_header", "font_glyphs", "font_record",
               "elf_header", "program_headers", "segment", "load", "map_size", "map_pool",
               "map_read", "acpi", "exit", "start", "kernel", "returned", "lost"}
    /\ at \in Nat \ {0}
    /\ volume \in Volumes
    /\ memory \in [Page -> Use]
    /\ content \in [Page -> Nat \X Nat]
    /\ key \in Nat /\ mapKey \in Nat /\ capacity \in Nat
    /\ bootServices \in BOOLEAN
    /\ map \in [valid : BOOLEAN, uses : [Page -> Use]]
    /\ owned \subseteq Page
    /\ granted \subseteq 1 .. Len(volume.segments)

\* What ExitBootServices' key is for: the boot services have ended only if no
\* step since the map was read, of the loader or of the firmware, has changed
\* what the map says.
MapIsCurrent == ~bootServices /\ map.valid => map.uses = memory

\* A segment whose pages the loader was granted is in memory as in its file,
\* zeroes behind it, until the kernel starts, whatever the firmware and the
\* loader's other allocations do meanwhile.
SegmentsIntact ==
    \A k \in granted : k < at =>
        \A p \in Written(volume.segments[k]) : content[p] = Image(k)[p]

\* The kernel treats as free what its map calls conventional: that is nothing
\* of the kernel itself, its font, or the map.
Mine == owned \cup UNION {Written(volume.segments[k]) : k \in granted}
MapKeepsLoaderMemory ==
    map.valid => \A p \in Mine : map.uses[p] # "conventional"

\* The loader returns or starts the kernel, whatever is missing or refused (or
\* is lost behind a pointer that was never set).
\* Kernels with a segment at address 0 are left out: for them the loop around
\* AllocatePages need not end.
LoaderEnds ==
    (\A k \in DOMAIN volume.segments : volume.segments[k].load => volume.segments[k].paddr # 0)
        ~> pc \in {"kernel", "returned", "lost"}
=============================================================================
