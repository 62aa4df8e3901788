----------------------------- MODULE PageFrames -----------------------------
(***************************************************************************)
(* The page frame allocator's operations, as functions from the globals of *)
(* kernel/memory/physical_memory_manager.cc to their new values.           *)
(*                                                                         *)
(* A frame is a page number: every address the code passes is divided by   *)
(* PAGE_SIZE before it is used.  The globals are one record:               *)
(*    PageMap               the bitmap, a set bit is a locked frame        *)
(*    TotalPages            pages the memory map describes                 *)
(*    TotalFreePages        uint64_t counters that wrap at Word            *)
(*    TotalUsedPages                                                       *)
(*    MaxFreePagesInARow    longest run a request may ask for              *)
(*    FirstFreePage         where every search starts                      *)
(***************************************************************************)
EXTENDS Integers, FiniteSets, FiniteSetsExt

CONSTANT Word      \* 2^64: how many values a uint64_t has

B == INSTANCE Bitmap

\* nullptr and the address of frame 0 are the same value.
nullptr == 0

\* uint64_t arithmetic; neither operand exceeds Word.
Plus(x, k)  == IF x + k < Word THEN x + k ELSE x + k - Word
\* Mutant: signed arithmetic, no wrap below zero.
Minus_NoWrap(x, k) == x - k
Minus(x, k) == IF k <= x THEN x - k ELSE x - k + Word

locked(m, i) == B!get(m.PageMap, i)

Counter == 0 .. Word - 1

PageFramesType(m) ==
    /\ m \in [PageMap : [Size : Nat, Buffer : Nat, bits : SUBSET Nat],
              TotalPages : Nat, TotalFreePages : Counter,
              TotalUsedPages : Counter, MaxFreePagesInARow : Nat,
              FirstFreePage : Nat]
    /\ B!BitmapType(m.PageMap)

PowerOn ==
    [PageMap |-> B!init(0, 0),
     TotalPages |-> 0, TotalFreePages |-> 0, TotalUsedPages |-> 0,
     MaxFreePagesInARow |-> 0, FirstFreePage |-> 0]

-----------------------------------------------------------------------------
(* One frame at a time, as the code does it.                               *)

lock_page(m, i) ==
    IF locked(m, i) \/ ~B!setReturns(m.PageMap, i)
    THEN m
    ELSE [m EXCEPT !.PageMap = B!set(@, i, TRUE),
                   !.TotalFreePages = Minus(@, 1),
                   !.TotalUsedPages = Plus(@, 1)]

free_page(m, i) ==
    IF ~locked(m, i) \/ ~B!setReturns(m.PageMap, i)
    THEN m
    ELSE [m EXCEPT !.PageMap = B!set(@, i, FALSE),
                   !.TotalUsedPages = Minus(@, 1),
                   !.TotalFreePages = Plus(@, 1)]

-----------------------------------------------------------------------------
(* Whole loops in one step: lock_pages and free_pages applied to the set   *)
(* of frames the loop visits.  Frames already in the wanted state, and     *)
(* frames past the end of the bitmap, leave bits and counters alone.       *)
(* PageLoops checks that the loops compute exactly these.                  *)

Frames(first, n) == first .. first + n - 1

\* Mutant: a frame that is locked already is counted again.
lock_pages_Recount(m, S) ==
    LET inside == {i \in S : B!InBounds(m.PageMap, i)} IN
    [m EXCEPT !.PageMap.bits = @ \cup inside,
              !.TotalFreePages = Minus(@, Cardinality(inside)),
              !.TotalUsedPages = Plus(@, Cardinality(inside))]

lock_pages(m, S) ==
    LET fresh == {i \in S : B!InBounds(m.PageMap, i) /\ ~locked(m, i)} IN
    [m EXCEPT !.PageMap.bits = @ \cup fresh,
              !.TotalFreePages = Minus(@, Cardinality(fresh)),
              !.TotalUsedPages = Plus(@, Cardinality(fresh))]

\* Mutant: freeing moves the search back to the lowest frame freed.
free_pages_Rewind(m, S) ==
    LET freed == {i \in S : locked(m, i)} IN
    [m EXCEPT !.PageMap.bits = @ \ freed,
              !.TotalUsedPages = Minus(@, Cardinality(freed)),
              !.TotalFreePages = Plus(@, Cardinality(freed)),
              !.FirstFreePage = Min({@} \cup freed)]

free_pages(m, S) ==
    LET freed == {i \in S : locked(m, i)} IN
    [m EXCEPT !.PageMap.bits = @ \ freed,
              !.TotalUsedPages = Minus(@, Cardinality(freed)),
              !.TotalFreePages = Plus(@, Cardinality(freed))]

-----------------------------------------------------------------------------
(* Requests return the new globals, the first frame granted and whether    *)
(* panic() was called on the way.                                          *)

Answer(m, frame, panics) == [mem |-> m, frame |-> frame, panics |-> panics]

NextFree(m) == {i \in m.FirstFreePage .. m.TotalPages - 1 : ~locked(m, i)}

\* Mutant: the search runs down from the end of memory.
request_page_FromTop(m) ==
    IF NextFree(m) = {}
    THEN Answer(m, nullptr, TRUE)
    ELSE LET i == Max(NextFree(m)) IN Answer(lock_page(m, i), i, FALSE)

request_page(m) ==
    IF NextFree(m) = {}
    THEN Answer([m EXCEPT !.FirstFreePage = Max({@, m.TotalPages})], nullptr, TRUE)
    ELSE LET i == Min(NextFree(m)) IN
         Answer([lock_page(m, i) EXCEPT !.FirstFreePage = i + 1], i, FALSE)

\* The search looks at indexes below length(), which is a number of bytes,
\* and gives up when a run touches the last of them.
Searched(m) == m.FirstFreePage .. B!length(m.PageMap) - 1

\* Mutant: a run may end at the last index.
Fits_ToTheEnd(m, n) ==
    {i \in Searched(m) : /\ i + n <= B!length(m.PageMap)
                         /\ \A j \in Frames(i, n) : ~locked(m, j)}

Fits(m, n) ==
    {i \in Searched(m) : /\ i + n < B!length(m.PageMap)
                         /\ \A j \in Frames(i, n) : ~locked(m, j)}

RunsIntoEnd(m) ==
    LET last == B!length(m.PageMap) - 1 IN
    last \in Searched(m) /\ ~locked(m, last)

\* Mutant: only the first page of the run is locked.
request_pages_LockFirst(m, n) ==
    CASE n = 0 -> Answer(m, nullptr, FALSE)
      [] n = 1 -> request_page(m)
      [] n > 1 /\ (n > m.TotalFreePages \/ n > m.MaxFreePagesInARow \/ Fits(m, n) = {}) ->
            Answer(m, nullptr, FALSE)
      [] OTHER -> LET i == Min(Fits(m, n)) IN Answer(lock_page(m, i), i, FALSE)

request_pages(m, n) ==
    CASE n = 0 -> Answer(m, nullptr, FALSE)
      [] n = 1 -> request_page(m)
      [] n > 1 /\ (n > m.TotalFreePages \/ n > m.MaxFreePagesInARow) ->
            Answer(m, nullptr, FALSE)
      [] OTHER ->
            IF Fits(m, n) = {}
            THEN Answer(m, nullptr, RunsIntoEnd(m))
            ELSE LET i == Min(Fits(m, n)) IN
                 Answer(lock_pages(m, Frames(i, n)), i, FALSE)
=============================================================================
