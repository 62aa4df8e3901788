---------------------------- MODULE MCBootLoader ----------------------------
(***************************************************************************)
(* Six pages of two bytes.  A kernel of a code segment, a note and a data  *)
(* segment that begins a page it does not fill; one with a segment at 0.   *)
(***************************************************************************)
EXTENDS BootLoader

Seg(load, paddr, memsz, filesz, exec) ==
    [load |-> load, paddr |-> paddr, memsz |-> memsz, filesz |-> filesz, exec |-> exec]
Kernel == << Seg(TRUE, 1, 2, 2, TRUE), Seg(FALSE, 0, 0, 0, FALSE), Seg(TRUE, 2, 3, 1, FALSE) >>
AtZero == << Seg(TRUE, 0, 2, 2, TRUE) >>
Vol(directory, kernel, f, segments) ==
    [directory |-> directory, kernel |-> kernel, font |-> f, segments |-> segments]

MCVolumes ==
    { Vol(TRUE, "valid", "valid", Kernel), Vol(TRUE, "valid", "missing", Kernel),
      Vol(TRUE, "valid", "invalid", AtZero), Vol(TRUE, "invalid", "valid", <<>>),
      Vol(TRUE, "missing", "valid", <<>>), Vol(FALSE, "missing", "missing", <<>>) }

Free == [p \in Page |-> "conventional"]
MCMemories ==
    { Free, [Free EXCEPT ![0] = "firmware", ![5] = "firmware"],
      [Free EXCEPT ![3] = "firmware"], [p \in Page |-> "firmware"] }

Entry(acpi2, signature, checksum) ==
    [acpi2 |-> acpi2, signature |-> signature, checksum |-> checksum]
MCConfigTables ==
    { <<>>, << Entry(FALSE, TRUE, TRUE), Entry(TRUE, TRUE, TRUE), Entry(TRUE, TRUE, TRUE) >> }
=============================================================================
