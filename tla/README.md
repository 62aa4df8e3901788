# Eterna, specified

TLA+ models of the Eterna kernel, the TLC configurations that check them on
small machines, and proofs that TLAPS checks for machines of any size. A module
is always a translation of the source; every action names, in `PROJECT.json`
under `map`, the lines it stands for.

## 1. The system

Eterna is a small x86-64 kernel: a UEFI boot loader loads it, an assembly
prekernel builds the first page tables and jumps to `kmain`, `kstage1` sets up
interrupts, the serial port, memory and the screen, and `kmain` then draws memory
statistics for ever. There is one processor and no scheduler. Interrupts are off
(`cli`) from the prekernel to the end of `kstage1`, and no interrupt handler
touches memory management. There the interleaving that matters is between calls
over time, and what is hard is the *sequence*: each boot step leaves a state the
next relies on without saying so. True concurrency is between the processor and
the devices: a line of an interrupt controller rises, or a byte arrives, between
any two port writes of the set-up and of the handler; between the boot loader and
the firmware, which uses memory on its own until its services end; between the
kernel and the serial line; and between what the kernel draws and a panic, which
comes as an exception at any instruction.

| Component | State | Operations | Interacts with |
|---|---|---|---|
| Bitmap (`bitmap.cc`) | size in bytes, buffer | `init`, `get`, `set` | owned by the page allocator; the buffer is memory the allocator manages |
| Physical memory manager | `PageMap`, three counters, `MaxFreePagesInARow`, `FirstFreePage` | `init_physical`, `lock_page(s)`, `free_page(s)`, `request_page(s)` | reads the EFI memory map; calls `map()` while initialising; `panic()` when it finds nothing |
| Virtual memory manager | `ActivePageMap`, the tables in memory | `map`, `unmap`, `init_virtual`, `flush_page_map`, `clone_active_page_map` | takes every table from `request_page`; reads and writes tables through the page map that is active |
| Heap | `sHeapStart`, `sHeapEnd`, `sLastHeader`, headers in the heap | `init_heap`, `expand_heap`, `malloc`, `free`, `split`, `combine_*` | `request_page` and `map` for growth; `heap_print_debug` calls back into `malloc` |
| Renderer | two framebuffers, font | constructor, `swap`, `puts`, `putChar`, `drawRect`, `clear` | locks the screen's frames, requests a run, maps both; called by `kmain` and by `panic`, which share its buffers |
| Prekernel | page tables in `.data`, stack | `_start` | hands over `BootInfo` |
| Interrupts, PIC, IDT | masks, IDT | `enable/disable_interrupt`, `remap_pic`, handlers | handlers call `panic`, `UART` |
| Serial port | `Initialized`, chip | `initialize`, `read`, `out` | used by every debug message |
| Panic | `PanicLocation` | `panic` (three forms), returns to its caller | `UART`, `gRend` |
| Boot loader | what it allocates, the memory map and its key | `efi_main`, `LoadPSF1Font`, `InitializeGOP` | EFI services, kernel image; hands the map over to the page allocator |
| Debug output, number formatting | static digit buffers, place in the format | `dbgmsg` and its formats, `to_string` | `UART::out`, byte by byte |
| String, linked list | buffer and length; nodes | constructors, assignments, `operator+`, `chop`; `add`, `remove` | heap, through `new` and `delete` |

What makes each correct:

* **Page allocator**: a frame is given to one owner at a time; what it gives is
  conventional memory and not a page table, the bitmap or the kernel; the bits
  and the counters agree; a run that exists is not refused.
* **Virtual memory**: every table touched is mapped where the code expects it;
  RAM stays mapped one to one; a table belongs to one page map; a clone is equal
  to the original and independent of it; page 0 faults.
* **Heap**: the segments tile the heap, the list is consistent in both
  directions, free neighbours are merged, blocks do not overlap, `malloc` ends.
* **Boot**: nothing is used before it is set up; only the interrupts with a
  handler are enabled; the kernel is in memory as in its file, and the memory map it
  is given is the one in force and calls none of it free.
* **Screen**: nothing is drawn outside the framebuffer; a panic's text, and what
  `kmain` draws, is there to be read afterwards.
* **Debug output**: what arrives is what the format says, in order; a dead line
  does not stop the kernel.
* **String and list**: each object is a value of its own; every buffer is freed once.

The hazards, with their lines and the properties that watch them, are in
`PROJECT.json` under `hazards`.

## 2. Modules

| Module | Models | Kind |
|---|---|---|
| `Bitmap` | `Bitmap` as size, buffer and set of set bits | operators |
| `RunAllocator` | what an allocator of contiguous runs promises | abstract specification |
| `PageFrames` | the page allocator's operations as functions on its globals | operators |
| `PageLoops` | the same operations one loop turn at a time | state machine |
| `PhysicalMemory` | `init_physical` and the calls after it | state machine, implements `RunAllocator` |
| `VirtualMemory` | page tables, the walk of the processor, `unmap` | operators |
| `KernelMemory` | all memory set-up of `kstage1`, heap growth, clones | composition, implements `PhysicalMemory` |
| `Heap` | `heap.cpp` | state machine, implements `RunAllocator` |
| `PIC` | the two 8259A as the kernel programs them; `interrupts.cc`'s functions on them | operators |
| `Interrupts` | `kstage1` from `cli` to `sti`, the receiving half of `uart.cc`, interrupts of the running kernel | state machine, composed with the serial chip and the devices |
| `BootLoader` | `efi_main`, composed with a firmware that uses memory too | state machine |
| `Screen` | what `draw_boot_gfx`, `kmain` and `panic` draw, call by call, with the renderer's buffers | state machine |
| `Console` | `dbgmsg`, `to_string` and `UART::out`, composed with the serial transmitter | state machine |
| `StringValues` | strings and a list as values | abstract specification |
| `StringList` | `String` and `SinglyLinkedList<String>` with their buffers and nodes | state machine, implements `StringValues` |
| `PageLoopsProofs`, `PhysicalMemoryProofs`, `KernelMemoryProofs`, `HeapProofs`, `InterruptsProofs`, `BootLoaderProofs`, `ScreenProofs`, `TextProofs` | | theorems |
| `MC*` | values for TLC | |

The chain is: `PageLoops` shows that the loops of the code compute the one-step
functions of `PageFrames`; `PhysicalMemory` uses those functions and implements
`RunAllocator`; `KernelMemory` extends it, replaces its counting of page tables by
walking and filling them (`KInit`, `KNext`, `KSpec`), and implements it. Each link but
the liveness is proved as well as checked. At its start stands the map that
`BootLoader` hands over: `MapKeepsLoaderMemory` is what `init_physical` relies on where
it locks one page of the kernel too few (line 232).

### Correspondence

*Addresses.* The page allocator divides every address by `PAGE_SIZE`, so a frame
is a page number. `nullptr` is frame 0, because in the code it is the same value.
A virtual address is a virtual page number, cut into four indexes by `Index` as
`PageMapIndexer` does. The heap works in bytes relative to `HEAP_VIRTUAL_BASE`.

*Integers.* `TotalFreePages` and `TotalUsedPages` are arithmetic modulo `Word`
(2^64): `init_physical` really takes the first one below zero. Other counters are
bounded by the number of pages an address can name (`PageLimit`).

*PhysicalMemory.* `phase` follows `init_physical`: `scan` (lines 187-213), `map`
(220-251), `ready`. `tables`, `held`, `devices` and `panicked` are history.
`MapTable` stands for the 512 turns of the mapping loop that share a page table;
`KernelMemory` justifies that. Only owners free, and only what they hold, in
runs; the code has no caller that frees, so this is what its interface offers.
Drivers lock frames that are not conventional memory, as the renderer does.

*KernelMemory.* `pc` is the loop of `kstage1` that is running, `at` its counter,
`mapping` the `map()` in progress: its three table levels and the leaf are a step
each. `cloning` holds the three loop variables of `clone_active_page_map`. Tables
are accessed at their physical address as in the code;
`TouchedTablesAreMapped` says that the processor agrees. A frame that nobody has
cleared holds `Leftover`, all zeroes in the passing run: an assumption the code
makes of its RAM, without which section 4 says what happens. `SwitchBitmap` writes the
final bitmap over whatever page tables lie in the largest segment: their entries read as
`Absent` once `init` has cleared them and as `Garbled` afterwards. `BitmapIsWritable` says
that the bytes of the bitmap are mapped to themselves all the same, and are not the
kernel's, whose page tables are among its data; otherwise `LoseMachine` ends the model. `starved` is history:
`request_page` answered null for the new page map or for a table of it, and `init_virtual`
went on with frame 0.

*Heap.* `malloc` advances by one header per step; `free`, `split`, `combine_*`
and `expand_heap` are functions on the list. `expand_heap`'s page mapping is
`KernelMemory`'s. `debugHeap` says whether `DEBUG_HEAP` is defined; it is, in the
source. `heap_print_debug` is modelled by the one thing it does to the heap, its
allocation.

*Interrupts.* `pc` is the step of `kstage1`, `at` the port write within it: one
step per write the chips could tell from its neighbours. What is outside `src/` is
marked external: the 8259A (initialisation words, edge-triggered requests,
priority, end of interrupt), the 16550 (FIFO, trigger level, character time-out,
loop-back, its line to the controller), and the processor's response to an
interrupt. They are modelled as far as the kernel's use of them. `handler` is the
handler that is running; `uart_com1_handler` reads one byte, waiting with the
bounded counter of `UART::read`, sends the end of interrupt and returns.
A vector without a gate ends in `double_fault_handler`, which halts. `service`,
`arrived` and `taken` are history. Baud rate and line format, output, the
`VIRTUALBOX` build, exceptions that the kernel's own instructions raise and
`disable_interrupt`, which nobody calls, are left out.

*BootLoader.* `pc` is the step of `efi_main` or `LoadPSF1Font`, `at` the program
header. Memory is pages with a use and contents; the firmware is external: the map's
key, `AllocatePool`, which may take a new page and so change the map, and allocations
and frees of its own between any two steps, at most `MaxChanges`, as long as there are
boot services. A segment is `[load, paddr, memsz, filesz, exec]`; `ImagePage` names the
page of its file, or zeroes behind it. An address that no call has set ends in `lost`.
`Roots` is the search for the RSDP with its double increment, and with `CompareGuid`
taken for a predicate that is true of equal GUIDs, where it returns 0 for them. `owned`
and `granted` are history. `LinkedAssumption` is what `kernel.ld` makes of the kernel: segments on pages of
their own.

*Screen.* The program of the kernel is a sequence of renderer calls (`Kernel`), that of a
panic another (`Panic`); a step is one call or one character of `puts`, and a panic
starts between any two steps of the kernel. A pixel holds the character or shape drawn
there. Addresses are pixels from the base, with the pitch of the framebuffer, and the
differences of `drawRect` and `drawBMP` are taken in `Word`. Colours and glyphs are left
out: a character is the same at each of its pixels. `pos["panic"]` is `PanicLocation`.
After `panic(message)` itself and after `stack_segment_fault_handler` the kernel draws on
(`Returning`); every other panic ends in a halt. `LayoutAssumption` is where the code puts
things, with the font and the texts of the repository: the panel ends before the rows that
`print_memory_info`'s caller swaps do, and above `PanicStartY`, even with each of its lines
broken in two; on a screen as wide as the panic's first line, `kmain`'s lines fit; the
faulty address is no longer than a line of the panic before it.

*Console.* `stack` is the activations of `dbgmsg_v` (`%s` calls `dbgmsg` again), `todo` what
`UART::out` has still to send, `holding` and `wire` the transmitter, external. The two
static buffers of `to_string` keep what they held. `Conversion` is the switch with its
look-ahead. Left out, and excluded by preconditions: a text for `%s` with a `%` in it,
two colour codes in a row, a `String` that ends in one, numbers with all the digits of
the widest type (they run over the buffer). `%p` is `%x`, `%d` is `%i`; hexadecimal
digits are one text, and `%f` is not there.

*StringList.* `buffer` and `node` are the heap; the items of the list are `String`s with
buffers of their own. `did` is history: the operation, for the refinement. Preconditions
are guards: `chop` within the string, and to the right only with a terminator, which
`operator+` of a `String` does not write. `add_end` calls a function that does not exist.

## 3. Runs

| Run | Question | Bounds |
|---|---|---|
| `page_loops` | Do the loops compute what `PageFrames` says, and end? | every pattern of the first 8 frames, a bitmap of 7 bytes (56 bits, so byte and page limits differ), counts 0 to 4, ranges at the start and across the end |
| `physical_memory` | Are free list, counters and grants right from boot on? | five memory maps of up to 120 frames: plain, frame 0 free and the kernel in a free segment, a hole at the top, too little memory, nothing usable; two owners; requests of 0, 1, 2, 3, 9 |
| `heap` | Is the list sound, merged, non-overlapping; does `malloc` return? | 4 pages of 128 bytes, sizes that split, fit exactly, and fit without splitting; with and without `DEBUG_HEAP` |
| `kernel_memory` | Do the page tables work out, and is `PhysicalMemory` right about them? | 384 frames, tables of 32 entries, seven memory maps, heap up to 3 pages on both sides of the end of a table, clones until memory is exhausted |
| `interrupts` | Does every line reach its handler, does the handler return, is every byte read? | chips without and with a FIFO (of 4 bytes, trigger level 2, for 16 and 14); 3 waits for 16960; 5 bytes; devices: none, the timer, clock and mouse on the second chip; two pairs of firmware masks |
| `boot_loader` | Does the kernel arrive whole, with a map that is current and spares it? | 6 pages of 2 bytes; six volumes (no directory, no kernel, a broken one, fonts missing, broken and good, a segment at 0), four memories, down to none free; two changes by the firmware; with and without an ACPI table |
| `screen` | Is all drawing in bounds, and does it stay readable? | characters of 2 by 2 pixels; five screens: room for everything (with and without the copy), no room for the message, ending before panel and message, narrower than the panel; two panics of five kinds |
| `console` | Is the output the documented one, in order, and does the kernel go on? | every format of up to five characters of `% s l h u i` and chosen others, pairs of numbers of every width, values at the widths' edges; widths 3, 5, 8, 14 bits for 8, 16, 32, 64; for what a format means the UART is not there (every byte is given up at once), for the line two numbers, a wait of 2 turns, and a transmitter that is ready at any time or never |
| `string_list` | Are strings values, and is every buffer owned once? | one string and up to three items, four buffers of six bytes in all, texts of up to two characters |
| `panic_with_free_frames` | Is the panic message true? | violated |
| `null_mapped` | Does page 0 fault after `init_virtual`? | violated |
| `disable_all` | Does `disable_all_interrupts` disable? | violated |

Why the bounds are enough. In `physical_memory` the counters wrap (`Word` is 256),
three tables are requested beyond the prekernel's, the built-in bitmap is smaller
than memory, requests longer than any run occur, and all frames are handed out in
some behaviours. In `kernel_memory` there are more tables than fit in one table
of the level above at the kernel, heap and framebuffer slots; memory runs out in
the middle of a clone, while `init_virtual` maps (`Starved`), when it has its page map
and no frame for a table of it (`Null`; with `Small` the page map is frame 0, which is free
there), and once there is no run left for the deferred framebuffer (`Tight`). The final
bitmap takes two frames. It is put over page tables of `init_physical` that are not needed
again (`LowLargest`, `Null`), over the table it is itself reached through (`OverItsTable`)
and, longer than its segment, over the kernel (`OverKernel`). The heap starts two pages before the end of what
one table maps, so that its third page needs a new table, before, between or after clones. A
bitmap there has 49 bytes, so the byte limit in `request_pages` decides whether
the framebuffer gets its run (with `Tight` it does not). The heap run reaches two expansions in one call and
merges on both sides.

`Heap` uses a header of 24 bytes in the passing run. The real one is 25 (the
structure is packed); with 24 and pages of 128 bytes, blocks can end exactly where
the heap ends, a case that with 25 needs much larger heaps. No operation depends on
which it is.

In `interrupts` the trigger level and a FIFO that overflows are both within reach of
5 bytes, bytes arrive at every write of the set-up, also while the chip is looped
back, and the devices raise lines on both chips, alone and beside COM1. The number
of waits only has to be more than one: nothing depends on it but that it ends.

In `boot_loader` two changes are enough for the firmware to act before and after any
allocation, and to take a page and give it back. In `screen` the second panic starts
below the first, after a stack fault that returned. In `console` a number follows a
longer or a negative one in the same buffer, and five characters hold the longest
format with one before it or behind. `string_list` merges states by symmetry of the
addresses and by a view without `did`; its properties are an invariant and a step
property, for which both are sound.

`CHECK_DEADLOCK FALSE` stands where the system may really stop: `init_physical`
halts without a segment, the heap model stops at its bound, the boot ends when
every owner has what it wants, the kernel halts in a handler of exceptions, the
loader has returned or started the kernel, a script of debug messages is over.

### Fairness

`PageLoops` and `Heap` assume weak fairness of the steps of the running call, and
of nothing else: no other thread exists and interrupts are off or do not touch this
state, so a call that can take a step takes it. `PhysicalMemory` has weak fairness
of `Boot` for the same reason. `LoopsEnd` and `MallocReturns` are the liveness
properties that use it. Nothing forces an owner to call `malloc` or to free.

`Interrupts` has weak fairness of `kstage1 \/ uart_com1_handler` (the processor goes
on), of `Interrupt` (it takes a pending interrupt when they are enabled) and of
`CharacterTimeout` (the serial chip's clock runs). No byte has to arrive and no
device has to raise its line. `HandlerReturns` and `ReceivedBytesAreRead` use it.

`BootLoader` has weak fairness of `efi_main` and none of the firmware (`LoaderEnds`), and
`Console` of the kernel and none of the line (`CallsReturn`): the processor goes on,
the serial line need not.

## 4. What the checks show

Holding on all behaviours within the bounds:

* the loops agree with their one-step definitions and end (`LoopsAgree`,
  `LoopsEnd`); in particular the jump over short runs loses no run that fits;
* counters and bits agree through wrap-around and the change of bitmaps
  (`CountersMatch`), the free list is exact (`FreeListExact`) unless the machine is so
  small that `map()` needed no table, where a search may still start at frame 0, and a
  longer run than `MaxFreePagesInARow` never exists when free segments neither touch nor
  overlap (`RunLimitHolds`);
* page tables that the final bitmap calls free are never given out
  (`TablesBelowSearch`, `GrantsAreFreeRuns`), and each new one is already mapped
  when it is cleared (`TouchedTablesAreMapped`), also where the final bitmap is put over
  tables of `init_physical`, on the machines of the run: the tables asked for afterwards
  are among the frames that `_start` maps. Where they are not, it fails (see below);
* RAM stays one to one after the switch (`RamIsIdentityMapped`), heap, target
  framebuffer and kernel lead to their frames (`DataIsBacked`), tables are neither
  lost nor shared (`TablesAccounted`, `ClonesArePrivate`), a clone is exact
  (`CloneIsExact`), `map` changes one page (`MapChangesOnePage`);
* the heap's list is sound (`SegmentsTile`), merged (`NoFreeNeighbours`), agrees
  with its callers (`UsedIsHeld`, `BlocksAreFreeRuns`), and `malloc` returns after
  at most two expansions (`AtMostTwoExpansions`, `MallocReturns`). The comment in
  `malloc` speaks of one search more; two happen;
* every line arrives on its vector whatever was raised before or while the
  controllers were initialised (`LinesHaveTheirVectors`), the firmware's masks
  survive `remap_pic` (`MasksSurviveRemap`), no line stays in service
  (`NothingLeftInService`), the COM1 handler returns even when there is nothing to
  read (`HandlerReturns`), and a byte received while interrupts were off is read
  after `sti` (`ReceivedBytesAreRead`), because the serial chip is set up after
  the controllers: in the other order its edge is forgotten. The last property
  excludes a FIFO filled to its trigger level: the handler reads one byte, the line
  stays high, and edge-triggered controllers do not see it again. That is in
  `hazards`, as is a byte that arrives between clearing the FIFO and the loop-back
  test, which then fails and leaves the port unused;
* the boot services end only for a map that is still true (`MapIsCurrent`), the
  kernel's segments are whole when it starts (`SegmentsIntact`), its map calls no page
  of kernel, font or map free (`MapKeepsLoaderMemory`), and the loader ends
  (`LoaderEnds`), unless a segment is at address 0, where it asks for ever;
* every write to either framebuffer is inside it on any screen (`WritesInBounds`); a
  panic's text can be read on the screen wherever it interrupted the kernel, after
  further panics and while the kernel draws on (`PanicReadable`), except for the first
  line, over which `page_fault_handler` draws the address, and except for a panic that
  returns while the boot screen is shown: `draw_boot_gfx` draws the mouth, at row 520,
  over the panic's second line, and `clear` ends that. What `kmain` draws stays
  (`KmainReadable`), if its second line ends where the panel begins;
* `dbgmsg` sends what `debug.hpp` says of its format, whatever the static buffers held
  (`DocumentedOutput`), bytes are given up but never overwritten or reordered
  (`LineInOrder`), and the calls return on a dead line (`CallsReturn`);
* no operation on strings or lists leaks, shares or frees twice a buffer
  (`EveryBufferHasOneOwner`), and each changes only the object it is called on
  (`StringsAreValues`).

Not holding, with a run and a finding in `PROJECT.json`: `panic_with_free_frames`,
`null_mapped` and `disable_all`. That `disable_all_interrupts` unmasks every line
matters after `sti`: a line whose device interrupts and that has no handler halts the
kernel. `OnlyOthersHalt` says that this, and never COM1, is what halts it.

Five more disagreements, with comments or with what the code relies on, are stated in the
modules and not run, to keep the set of runs small. Each is violated within seconds:

| Property | Violated with | Because |
|---|---|---|
| `PhysicalMemory!BitmapNotTrampled` | `PanicWithFreeFrames.cfg` and `MemoryMaps <- MCLowLargestMaps` | the final bitmap is put into the largest segment, from which the page tables were taken if it is also the lowest; the comment at line 269 locks it against being trampled on |
| `KernelMemory!TouchedTablesAreMapped` | `KernelMemory.cfg` and `MemoryMaps <- MCTrampledMaps` | the same at line 255: the bitmap destroys page tables that are in use, and `init_virtual` is then given frames that those led to |
| `PhysicalMemory!TablesAreFreeMemory` | `PanicWithFreeFrames.cfg` and `MemoryMaps <- MCStarvedMaps` | past the end of the built-in bitmap every page reads as free, so `request_page` answers with one that no descriptor calls free |
| `Heap!StackHolds` | `Heap.cfg` | built with `DEBUG_HEAP`, as it is, `malloc` calls itself through `heap_print_debug` without bound |
| `KernelMemory!RamIsIdentityMapped` | `NullMapped.cfg` and `Leftover <- Dirt` | `init_virtual` fills a PML4 that it has not cleared |

`RemoveHead` shows one more that no code in the tree can meet yet: after the last node is
removed `Tail` still points to it, while the comment in `remove` wants it null with
`Head`. It is in `hazards`.

The properties that say "while memory lasts" exclude the time after a panic:
`panic()` returns, `request_page` returns null, and `map` and the heap go on with
frame 0. The model follows them there; the exclusion is in the property. For what only
depends on the page map it is narrower, `~starved`: memory may run out in the heap, the
renderer or a clone, and `RamIsIdentityMapped`, `MapChangesOnePage` and
`TouchedTablesAreMapped` go on holding.

## 5. What is proved

`PhysicalMemoryProofs` proves, for every memory map, kernel position and size, page
size, table size, set of owners, of devices and of request sizes:

| Theorem | States |
|---|---|
| `Invariant` | `Spec => []IInv` |
| `TypeCorrect` | `Spec => []TypeOK` |
| `CountersAlwaysMatch` | `Spec => []CountersMatch` |
| `TablesStayBelowSearch` | `Spec => []TablesBelowSearch` |
| `FreeListStaysExact` | `Spec => []FreeListExact` |
| `RunLimitAlwaysHolds` | `Spec => []RunLimitHolds` |
| `GrantsFollowTheContract` | `Spec => GrantsAreFreeRuns`, that is, `PhysicalMemory` implements `RunAllocator` |

Assumptions: `ConstantsAssumption` and `MemoryMapsAssumption` of `PhysicalMemory`,
which TLC evaluates in every run of that module. The one that is not mere typing is
`PageLimit + 8 < Word`: fewer pages than 64-bit numbers, which holds because an
address has 64 bits and a page 4096 bytes. Nothing is assumed of the memory map:
segments may overlap, lie anywhere and in any order.

`IInv` is needed because none of these is inductive alone. That a grant is free
memory (`GrantsAreFreeRuns`) needs that an unlocked bit means usable memory
(`FreeIsUsable`) and that what is held is locked (`HeldIsLocked`, `HeldOnce`), but
the bitmap calls the first page tables free: only `TablesBelowSearch` keeps a
request from returning one. That the counters match (`CountersMatch`) needs a
bitmap no larger than the counters can count (`Sizes`), which for the final bitmap
rests on `TotalPages`, and that on the scan (`Scanned`); and the counters start
from an empty bitmap (`NothingLockedYet`). The exact free list needs the converse of
`FreeIsUsable` as well (`UsableIsFree`): every step that locks says for whom, and what is
freed was one owner's. The limit on runs is that of the memory map (`LimitIsLongest`):
what is free lies in free segments, a run of frames that are all free lies in one of
them when they are apart, and no segment is longer than the longest.

The module begins with lemmas on the allocator's functions: what locking and
freeing a set of frames does to bits and counters with wrap-around, and what
`request_page` and `request_pages` return. The proof of the invariant then has one
lemma per action.

`PageLoopsProofs` proves that these functions are what the loops compute, for every
bitmap, counter value, search position, first frame and count:

| Theorem | States |
|---|---|
| `LoopInvariant` | `Spec => []IInv` |
| `LoopsAlwaysAgree` | `Spec => []LoopsAgree` |

Assumption: `PageLoopsAssumption`, typing. `IInv` says what each loop has done part-way:
`lock_pages` and `free_pages` have done to the bits and to both wrapping counters what the
one-step function does for the frames visited; `request_page` has passed only locked
frames; and `request_pages` has passed no place where a run that fits begins
(`NoFitBelow`). The last is where the jump matters: after a short run the loop goes on
behind the frame that ended it, which is locked, so no run that begins in between fits.

`KernelMemoryProofs` proves, for every memory map, position and size of the kernel, size
of tables, place of the heap and of the framebuffers:

| Theorem | States |
|---|---|
| `KernelInvariant` | `KSpec => []KInv` |
| `MemorySetUpImplementsAllocator` | `KSpec => ImplementsPhysicalMemory` |
| `AllocatorInvariantsCarryOver` | `KSpec => [](TypeOK /\ CountersMatch /\ TablesBelowSearch)` |
| `PageMapInvariant` | `KSpec => []TreeInv`, if `Leftover = Empty` |
| `RamStaysIdentityMapped` | `KSpec => []RamIsIdentityMapped`, if `Leftover = Empty` |
| `MapOnlyChangesItsPage` | `KSpec => MapChangesOnePage`, if `Leftover = Empty` |
| `DataStaysBacked` | `KSpec => []DataIsBacked`, if `Leftover = Empty` |
| `TablesStayAccounted` | `KSpec => []TablesAccounted`, if `Leftover = Empty` |
| `ClonesStayPrivate` | `KSpec => []ClonesArePrivate`, if `Leftover = Empty` |
| `ClonesAreExact` | `KSpec => CloneIsExact`, if `Leftover = Empty` |
| `TouchedTablesStayMapped` | `KSpec => [](TablesInReach => TouchedTablesAreMapped)`, if `Leftover = Empty` |

Assumptions, besides those of `PhysicalMemory`: `KernelMemoryAssumption`, of which what is
not typing is that the kernel and its prekernel's five page tables lie where
`InitialPageBitmap` reaches and not at 0; and `AddressesAssumption`, that RAM and the
screen's framebuffer end below where the deferred framebuffer (page of
0xffffff8000000000), the kernel (0xffffffff80000000) and the heap (0xffffffffff000000) are
mapped, each of which ends before the next, the heap with the last page. The hypothesis
`Leftover = Empty` is the one the code makes of its RAM; section 4 shows what happens
without it.

The first three rest on `KInv`: while `init_physical` maps, the tables above the last level
are the prekernel's own except that pml2 has exactly its first `entry` entries
(`UpperTables`), and the `map()` that runs is at one of them (`Walking`) and no further
than those entries reach (`Reached`). So the walk finds a table missing exactly when
`PhysicalMemory` counts one, and no table is overwritten by a new one, since new ones are
frames above the kernel's and every write goes to a table that is known.

The next three rest on `TreeInv`. That `map()` changes one page is not inductive: it
needs that no frame is entered twice in the page map (`NoSharing`), is a table of two
levels, or is handed out again while it is a table. So `Tree` says that the page map is a
tree, its tables are held frames, and a running `map()` is at the table that its page is
reached through (`OnTheWay`); a running clone writes to held frames outside of the tree
(`CloneOutside`); and `RamTurns` is how far `init_virtual`'s loop has come. Until then
`OldMap` keeps the prekernel's page map, through which `unmap(nullptr)` writes.

`DataStaysBacked` rests on `TreeInv` and `DataInv`. In one of `kstage1`'s loops, the pages
of the turns so far lead to consecutive frames (`Looping`, `LeadTo`); after it they go on
doing so, because the pages of two loops, or of a loop and the heap, are never the same
(`RangesApart`) and `map()` changes one page, a clone none (`KeepsPageMap`). The heap's
frames are exactly the frames that its pages lead to (`HeapMapped`), counting the page
whose `map()` still runs with the frame it is about to be given (`HeapFrameAt`): after a
request and before its `map()` ends, what `DataIsBacked` says is not true yet. A new frame is
none of the heap's since requests grant free frames only, and it is not null since, once
a page table was granted, `FirstFreePage` is above 0 and searches begin there.

The next three rest on `ForestInv`: all page maps together are a forest. Its parts (`Parts`)
are the active page map, each finished clone, and, of a clone that is being filled, one
table of each level that `clone_active_page_map` is in: a table is entered in its parent only
when all of it is copied, so until then the parts of one clone hang together by the loop
variables alone. No table belongs to two parts, all are held (`Forest`), and before a panic
every held table belongs to one (`Whole`), which is `TablesAccounted` when no clone is under
way. A step of `map()` or of a clone changes one part, or joins several and a new table to
one (`OnePartChanges`, `ForestStep`). `CloneFilled` says what the half-made parts hold: in
each, the entries before the loop's are copies, those after are absent, and the loops are
at entries that lead down to each other (`Filling`). A copy stays one while other tables are
written (`FillingStays`), and when the loop at the top has ended `EntryAlike` of all entries
is that every page leads to the same frame (`AlikeLeads`). The first three levels of a clone
are filled without being cleared, so here `Leftover = Empty` is needed once more.

`ClonesArePrivate` and `CloneIsExact` are promised after memory has run out as well, when
there is no forest any more: frame 0 may be a table at several places, and a frame of the
heap a table too. `StarvedInv` says how that stays away from the clones. Either frame 0 was
given to `init_virtual` for its page map (`NoPageMap`): then `map()` returns at once, the
page map has no entries, and a clone is one table without entries. Or a `map()` was refused a
table (`NoMoreTables`): then `FirstFreePage` has come to the end and never turns back
(`SearchGoesOn`), so no clone is begun any more, nor was one under way; and what `map()`
still writes is in the page map's own tables, in frame 0 or in frames of the heap, and leads
to the latter two (`Stray`, `Closed`, `StrayWrite`), none of which is in a clone. This needs
that the running kernel maps nothing but the heap (`HeapOnly`). Where page tables are
accounted for, a page map at frame 0 had to be excluded by name (`~starved`): it comes
without a panic, on a machine so small that `init_physical` needs no page table, if frame 0
is free.

The last one rests on all of these and on `LowInv`. It needs a hypothesis, since with more
than 64 MiB of tables, or with free memory in the wrong places, the code does write to a
page table that nothing maps yet; and the final bitmap may be put over the tables that
`init_physical` has made. `TablesInReach` says of the present state that neither matters:
until the switch of page maps, each table lies below what the prekernel maps, or below
what `init_physical` has got to if the bitmap is not over any of its tables (`TablesSpared`);
after the switch it says nothing. What the overwritten entries read as (`Garbled`) is
arbitrary. `BitmapIsWritable` keeps the kernel's own page tables out of it (`KernelSpared`),
and where it does not hold the machine is lost, of which nothing is claimed. `LowInv` is that the
machine then finds the table there: every page in reach is mapped to itself (`LowPage`),
through tables that pml2 enters once each and only for that (`LowEntries`), and the `map()`
that runs in `init_physical` is at the table its page will be reached through (`LowWalk`).
`init_virtual` and what it maps leave all of that alone, because `Tree` keeps the new page
map apart from the tables of the old one. After the switch a table is one of RAM's frames,
which `RamStaysIdentityMapped` says are mapped. In the run `TablesInReach` holds in every
state before memory has run out.

`InterruptsProofs` proves, for every pair of firmware masks, every set of devices,
every serial chip, any bound of the wait and any number of bytes:

| Theorem | States |
|---|---|
| `Invariant` | `Spec => []IInv` |
| `LinesAlwaysHaveTheirVectors` | `Spec => []LinesHaveTheirVectors` |
| `MasksAlwaysSurvive` | `Spec => []MasksSurviveRemap` |
| `NothingStaysInService` | `Spec => []NothingLeftInService` |
| `OnlyUnhandledLinesHalt` | `Spec => []OnlyOthersHalt` |

The assumption is `InterruptsAssumption`, all typing. The argument: `Remapping` says
for each of `remap_pic`'s writes what each chip expects next and what it has been
given, so that after the last one `Remapped` holds; a device only adds requests
(`RaiseAddsRequest`), and every request is that of a line that exists (`Requests`),
so the line that is served is a device's or COM1's, on its own vector
(`ChosenLine`); and in a handler exactly COM1's pin is in service (`InService`),
which its end of interrupt removes.

`HeapProofs` proves, for every size of page and of header (two of them and the smallest
split fit in a page), any owners, requests and number of pages, with and without `DEBUG_HEAP`:

| Theorem | States |
|---|---|
| `InductiveInvariant` | `Spec => []IInv` |
| `TypeCorrect` | `Spec => []TypeOK` |
| `HeapTiled` | `Spec => []SegmentsTile` |
| `NothingFragmented` | `Spec => []NoFreeNeighbours` |
| `InUseIsHeld` | `Spec => []UsedIsHeld` |
| `GrowthIsBounded` | `Spec => []AtMostTwoExpansions` |
| `AllocatesFreeRuns` | `Spec => BlocksAreFreeRuns`, that is, `Heap` implements `RunAllocator` |

Assumption: `HeapAssumption`. `SegmentsTile` is not inductive: that a header split off
does not fall on another one needs that segments do not overlap, which the links imply
only by induction along the list. So `Tiled` says it outright, with the links and the
last header; `Clash`, the free segments before a free neighbour, is empty between
operations and has one or two members while `release` or `expand_heap` merges. The
proof first shows, for each function on the list, what it does to `Tiled`, to `Clash` and
to the segments in use (`SameUse`), then `CallOK` (the walk stands on a header) and
`HeldOK` (in use is what callers hold, and each block has one holder) for each action.
`GrowthOK` counts expansions: after the first the last segment is free and has all the
added bytes but a header, after the second twice as many, which is always enough.

`BootLoaderProofs` proves, for every memory, volume, table and number of changes:

| Theorem | States |
|---|---|
| `TypeCorrect` | `Spec => []TypeOK` |
| `MapCurrent` | `Spec => []MapIsCurrent` |
| `KernelIntact` | `Spec => []SegmentsIntact` |
| `MapProtectsLoader` | `Spec => []MapKeepsLoaderMemory` |

Assumptions: `BootLoaderAssumption`, typing, and `LinkedAssumption`. The argument: what
the loader was granted keeps its use (`Held`), since only conventional pages are given
and the firmware frees only its own; rounding up covers the last byte (`RoundingUp`);
and a map with the firmware's present key is memory as it is (`KeyTells`), because every
change of memory moves the key on.

`ScreenProofs` proves, for every framebuffer whose pitch is no less than its width, every
font, text, shape and panic position, any number of panics, with and without a copy in
memory:

| Theorem | States |
|---|---|
| `DrawsInBounds` | `Spec => []WritesInBounds` |
| `KmainStaysReadable` | `Spec => []KmainReadable` |
| `PanicStaysReadable` | `Spec => []PanicReadable` |

Assumptions: `ScreenAssumption`, typing, which is all that the first needs, and
`LayoutAssumption`. The first rests on a clamped position leaving 32-bit differences that
do not wrap (`Clip`), so that an area ends with its row and the last row with the buffer.

The other two see a text as cells, one for each character (`CellArea`). Cells of a text
that fits do not overlap (`CellsApart`), because two visible pixels with one offset are the
same pixel (`OffsetUnique`); so drawing in one cell, or outside of all, keeps what the others
show (`PaintedCell`, `PaintedElsewhere`). `InBlock` is a text half drawn: what is before the
call and the character can be read in `Target`, and the position is that of the next
cell. One lemma, `BlockStep`, is all there is to drawing a text, and serves `kmain`'s
lines, the panel, the panic's lines and the address. A swap shows what is in `Target`
(`Swapped`), and only what both buffers have survives every later swap, so what is
inductive is not that a text is on the screen but that it is in both (`Both`).

`KmainInv` adds where each side draws: the turns of `kmain`'s loop past the second line,
wherever the panel's own lines break (`PastRoll`), panics below `PanicStart` (`Progress`).
`PanicInv` adds the other direction. `PanelAbove`: the panel's rows end above `PanicStart`;
`Idle` and `Resting`: `PanicLocation`, between panics and at each swap of one, is at
`PanicStart` or at least a line below it; `OwnInv`: what the panic that runs has drawn
(`OwnText`), and the address after it (`AddressText`); `Reports`: each report is
in both buffers, but for the line that is lost, and ends above where the next character
of a panic goes (`Over`), which a page fault's return to `PanicStart` breaks only when no
other panic can follow. TLC checked `KmainInv` and `PanicInv` on the run's instance. That
`panic(message)` returns is why the boot screen has to be excepted: it goes on drawing.

Of `StringList`, `TextProofs` proves, for any names, characters and literals, any addresses, and any
limits of lengths, nodes and bytes:

| Theorem | States |
|---|---|
| `Invariant` | `Spec => []IInv` |
| `OneOwner` | `Spec => []EveryBufferHasOneOwner` |
| `Implements` | `Spec => StringsAreValues`, that is, `StringList` implements `StringValues` |

Assumption: `StringListAssumption`, typing, and that no buffer is at `nullptr`. `IInv` has
two halves. The list: the node that `at(i)` walks to is defined by recursion (`NodeAt`), so
the module first proves by induction on the index that the walk is what its equation says
(`WalkIs`), for every head and every contents of the nodes, and `Chain` then says in closed
form what a list is: the walk of its length from `head` meets every node there is, each one
once, and ends in `nullptr`. `add` makes a chain one longer (`ChainAdded`), a removal cuts
one (`ChainCut`), and only the one in the middle has to relink. The buffers: `Owned` says of
any set of Strings and any heap that each buffer is exactly one String's and one longer than
its text. There is one lemma for each thing an operation does to the two (`Replaced`,
`Removed`, `Added`, `Moved`, `Cleared`), each with what it leaves of the other texts
(`SameTextsBut`), which is what the refinement needs. Adding or removing an item
also renames the items behind it (`Renames`), and on texts that is the concatenation or
`RemoveAt` of `StringValues`.

Of `Console`, `TextProofs` proves, for any calls of `dbgmsg`, any widths, sizes of the static
buffers and waits, and a transmitter that takes bytes when it likes:

| Theorem | States |
|---|---|
| `LineStaysInOrder` | `CSpec => ([]TextsArePassed => []LineInOrder)` |

Assumptions: `ConsoleAssumption`, that is, typing and a buffer of at least one character; and
`TextsArePassed`, that what is passed for a `%sl` is a text: where `va_arg` takes a number
for a pointer, the program has no defined behaviour. Other arguments may be anything, and so
may the formats: the line is in order even where a format is given the wrong number. The
inductive invariant `CIInv` states the order of the bytes that `UART::out` has dealt with:
`LineIs` has the place on the line of each one that was not given up, that the rest is still
in `todo` behind them, and that nothing is given up before its turn. `LineInOrder` alone is
not inductive: it does not say which bytes are still to come, nor that `dropped` has none of
them. There is one lemma for each thing that happens to a line: something is said (`Saying`),
a byte is given up (`GivingUp`), a byte is written (`Writing`, which needs the transmitter to
be empty). That what is said is a text at all needs `CString`'s terminator to exist, and
`OutBuffer`, a recursion, to be defined and a text: by induction on what is left of the
buffer (`PiecesAre`, `OutBufferIsText`).

Only model-checked:

* of `TouchedTablesAreMapped`, that a given machine's frames satisfy `TablesInReach`: not
  true of every memory map, and which ones it is true of depends on how many frames each
  stage of the boot requests; it is in `hazards` what it takes to break it;
* of `Console`, `DocumentedOutput`: what a format amounts to is a recursive function of the
  text, and that two such functions agree on every text is an induction over data;
* all liveness (`LoopsEnd`, `MallocReturns`, `HandlerReturns`, `ReceivedBytesAreRead`,
  `LoaderEnds`, `CallsReturn`), out of its reach too.

## 6. Not modelled

Entry flags other than Present: all callers pass Present and ReadWrite, and nothing
reads the rest (line 128 of `map` writes Global once more, where NoExecute is meant).
The TLB: `flush_page_map` reloads CR3, and no mapping that was in use is changed, except
where the final bitmap lies over a page table: the model goes by the tables in memory, and a
translation that the processor still holds may hide what became of them for a while.
What else the final bitmap may lie over: firmware calls only conventional memory free, so
not the memory map that is still read, unless the bitmap is longer than its segment.
Boot loader: `InitializeGOP`, which allocates nothing; without a graphics protocol the
loader reads through its null result (line 286), and without a font the kernel draws
through one. Renderer: colours, glyphs, and the operations nobody calls. `panic` before
`kstage1` has made a renderer, and its text on the serial line. Formats of doubles,
hexadecimal digits. The GDT, PCI header, regions and vector mathematics keep no state;
memory primitives are part of the actions that call them. GNU-EFI and the font library
are vendored, and make up most of the tree's lines: what the map covers is the share of
the kernel and of the loader's one file.

## 7. What is left

1. Proofs: a condition on the memory map alone that implies `TablesInReach`.
2. `panic` without a renderer, joined with `PhysicalMemory`: today the memory models go on
   as if it had returned.
3. `DEBUG_HEAP`'s prints beyond their one allocation, and the serial text of `panic`.
4. The receive interrupt between two bytes of output: `Interrupts` and `Console` share the
   chip, and each models one direction.
