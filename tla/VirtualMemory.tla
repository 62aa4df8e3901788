---------------------------- MODULE VirtualMemory ----------------------------
(***************************************************************************)
(* Four-level page tables: include/memory/paging.hpp and the walks of      *)
(* kernel/memory/virtual_memory_manager.cc and of the processor.           *)
(*                                                                         *)
(* ram holds the tables: frame -> index -> entry.  A frame that nobody has *)
(* cleared or written holds Leftover.  A page is a virtual page number, 0  *)
(* to EntriesPerTable^4 - 1: the bits of an address that PageMapIndexer    *)
(* looks at.  Of an entry's flags only Present is kept: all callers pass   *)
(* Present and ReadWrite, and nothing depends on the others.               *)
(***************************************************************************)
EXTENDS Integers

CONSTANTS
    EntriesPerTable,   \* 512
    Leftover           \* what a frame holds before anybody clears it

Slots == 0 .. EntriesPerTable - 1
Absent == [present |-> FALSE, frame |-> 0]
To(frame) == [present |-> TRUE, frame |-> frame]
Empty == [i \in Slots |-> Absent]

\* Pages that an entry of a table of each level leads to.
Span == LET E == EntriesPerTable IN <<1, E, E * E, E * E * E>>

\* PageMapIndexer: the index into the table of a level, 4 (PML4) down to 1.
Index(page, level) == (page \div Span[level]) % EntriesPerTable

Table(ram, frame) == IF frame \in DOMAIN ram THEN ram[frame] ELSE Leftover
Entry(ram, table, page, level) == Table(ram, table)[Index(page, level)]

Put(ram, frame, table) ==
    [f \in DOMAIN ram \cup {frame} |-> IF f = frame THEN table ELSE ram[f]]
Clear(ram, frame) == Put(ram, frame, Empty)
Write(ram, frame, i, e) == Put(ram, frame, [Table(ram, frame) EXCEPT ![i] = e])

-----------------------------------------------------------------------------
\* What the processor does: every entry on the way must be present.
Follow(ram, e, page, level) ==
    IF e.present THEN Entry(ram, e.frame, page, level) ELSE Absent
Leaf(ram, root, page) ==
    LET PDP == Entry(ram, root, page, 4)
        PD  == Follow(ram, PDP, page, 3)
        PT  == Follow(ram, PD, page, 2)
    IN  Follow(ram, PT, page, 1)

Maps(ram, root, page, frame) == Leaf(ram, root, page) = To(frame)

\* unmap follows the addresses without looking at Present.
unmap(ram, root, page) ==
    LET PDP == Entry(ram, root, page, 4).frame
        PD  == Entry(ram, PDP, page, 3).frame
        PT  == Entry(ram, PD, page, 2).frame
    IN  Write(ram, PT, Index(page, 1),
              [Entry(ram, PT, page, 1) EXCEPT !.present = FALSE])

\* The tables of a page map.
Children(ram, S) ==
    {Table(ram, x[1])[x[2]].frame :
        x \in {y \in S \X Slots : Table(ram, y[1])[y[2]].present}}
PageTables(ram, root) ==
    LET PDPs == Children(ram, {root})
        PDs  == Children(ram, PDPs)
    IN  {root} \cup PDPs \cup PDs \cup Children(ram, PDs)
=============================================================================
