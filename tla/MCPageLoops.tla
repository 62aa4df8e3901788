----------------------------- MODULE MCPageLoops -----------------------------
(***************************************************************************)
(* Every pattern of the frames request_pages looks at, for a bitmap of     *)
(* MCBytes bytes, and a few frames at and past the end of the bitmap.      *)
(***************************************************************************)
EXTENDS PageLoops

MCBytes == 7

MCStarts ==
    [PageMap : {[Size |-> MCBytes, Buffer |-> 9, bits |-> b] :
                    b \in SUBSET (0 .. MCBytes)},
     TotalPages : {5, 8},
     TotalFreePages : {2, 15},
     TotalUsedPages : {1},
     MaxFreePagesInARow : {3},
     FirstFreePage : {0, 2}]

MCAddresses == {1, 54}
=============================================================================
