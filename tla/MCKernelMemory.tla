---------------------------- MODULE MCKernelMemory ----------------------------
(***************************************************************************)
(* Machines of 384 frames and tables of 32 entries: 2^20 pages, of which   *)
(* the low 384 are RAM.  The kernel, the heap and the deferred framebuffer *)
(* are at the top, in the slots of their real addresses: 511/510, 511/511  *)
(* and 511/0 there, 31/30, 31/31 and 31/0 here.  The heap begins two pages *)
(* before the end of a table, so that its third page needs another one.    *)
(* The kernel is in frames 4 to 11, its page tables in 5 to 9.  A search   *)
(* for a run of pages looks at the first 49 frames only, one for each byte *)
(* of the bitmap.                                                          *)
(***************************************************************************)
EXTENDS KernelMemory

Other(a, n) == [Type |-> 2, PhysicalAddress |-> a, NumPages |-> n]
Conv(a, n)  == [Type |-> 7, PhysicalAddress |-> a, NumPages |-> n]

Roomy == <<Other(0, 1), Conv(1, 3), Other(4, 8), Conv(12, 60), Other(72, 312)>>

\* Frame 0 is free: it becomes the first page table.
ZeroFree == <<Conv(0, 4), Other(4, 8), Conv(12, 1), Other(13, 1), Conv(14, 70), Other(84, 300)>>

\* No run is left for a deferred framebuffer, and no memory for a clone.
Tight == <<Other(0, 1), Conv(1, 3), Other(4, 8), Conv(12, 26), Other(38, 346)>>

\* Nothing to put the bitmap in: the kernel halts.
Nothing == <<Other(0, 384)>>

\* Memory ends while init_virtual maps it; with Null, the one free frame that is
\* left becomes a page map that nothing can be mapped in.
Starved == <<Other(0, 1), Conv(1, 3), Other(4, 8), Conv(12, 10), Other(22, 362)>>
Null == <<Other(0, 1), Conv(1, 3), Other(4, 8), Conv(12, 1), Other(13, 371)>>

\* Frame 0 is free, and the first table the boot asks for is the page map.
Small == <<Conv(0, 4), Other(4, 8), Conv(12, 20)>>

\* The largest segment is the lowest: the bitmap is put over the page tables of
\* init_physical (as with Null), here while all others are low enough.
LowLargest == <<Other(0, 12), Conv(12, 60), Other(72, 312)>>

\* The same, but some of the others are where the lost table led to, and
\* TouchedTablesAreMapped fails: not in MCMemoryMaps.
Trampled == <<Other(0, 28), Conv(28, 60), Other(88, 296)>>

\* The bitmap is over the table that it is itself reached through; it is longer
\* than its segment and runs on over the kernel.
OverItsTable == <<Other(0, 31), Conv(31, 60), Other(91, 293)>>
OverKernel == <<Other(0, 3), Conv(3, 1), Other(4, 8), Conv(12, 1), Other(13, 371)>>

MCMemoryMaps ==
    {Roomy, ZeroFree, Tight, Starved, Null, Small, Nothing, LowLargest, OverItsTable, OverKernel}
MCTrampledMaps == {Trampled}
MCRoomy == {Roomy}
MCPrekernelTables == <<5, 6, 7, 8, 9>>

MCOwner == {"tables", "heap", "renderer"}
MCRunSizes == {fbPages}
MCDevices == {FramebufferFrames}

Zeroes == [i \in 0 .. 31 |-> [present |-> FALSE, frame |-> 0]]
MCGarbled == [present |-> TRUE, frame |-> 399]
Dirt == [i \in 0 .. 31 |-> [present |-> i = 0, frame |-> 40]]
=============================================================================
