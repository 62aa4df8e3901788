--------------------------- MODULE MCPhysicalMemory ---------------------------
(***************************************************************************)
(* Machines of at most 120 frames of 8 bytes; page tables of 8 entries and *)
(* a built-in bitmap for 32 frames, so three tables are needed beyond the  *)
(* prekernel's.  The final bitmap takes two or three frames.               *)
(***************************************************************************)
EXTENDS PhysicalMemory

Other(a, n) == [Type |-> 2, PhysicalAddress |-> a, NumPages |-> n]
Conv(a, n)  == [Type |-> Conventional, PhysicalAddress |-> a, NumPages |-> n]

\* The kernel (frames 5 to 7) was allocated by the boot loader.
Plain == <<Other(0, 1), Conv(1, 4), Other(5, 3), Conv(8, 8), Other(16, 104)>>

\* Frame 0 is free, and the map calls the kernel's frames free too.
KernelInFree ==
    <<Conv(0, 3), Other(3, 1), Conv(4, 5), Other(9, 1), Conv(10, 7),
      Other(17, 1), Conv(18, 2), Other(20, 100)>>

\* A hole: memory ends above TotalPages, within and past the last bitmap byte.
Hole == <<Other(0, 1), Conv(1, 4), Other(5, 3), Conv(8, 8), Other(20, 64), Conv(84, 6)>>

\* One frame free in all, and no memory past the built-in bitmap: request_page
\* panics for the second table.
Starved == <<Other(0, 4), Conv(4, 1), Other(5, 27)>>

\* The same, but memory goes on past the built-in bitmap.
StarvedLow == <<Other(0, 4), Conv(4, 1), Other(5, 115)>>

\* The only free segment starts at address 0.
AtZero == <<Conv(0, 4), Other(4, 36)>>

\* The largest segment is also the lowest: the tables are taken from it.
LowLargest == <<Other(0, 1), Conv(1, 4), Other(5, 3), Conv(8, 3), Other(11, 109)>>

MCMemoryMaps == {Plain, KernelInFree, Hole, Starved, AtZero}
MCPlainMap == {Plain}
MCLowLargestMaps == {Plain, LowLargest}
MCStarvedMaps == {Plain, StarvedLow}

\* A framebuffer past the end of memory: frames that are locked already, then
\* the last bits of the bitmap, which TotalPages does not count, then none.
MCDevices == {119 .. 128}
=============================================================================
