-------------------------------- MODULE Heap --------------------------------
(***************************************************************************)
(* The kernel heap of kernel/memory/heap.cpp: a doubly linked list of      *)
(* segment headers laid over virtual memory that grows page by page.       *)
(* Addresses are byte offsets from HEAP_VIRTUAL_BASE.                      *)
(*                                                                         *)
(* A call of malloc walks the list one header per step, so that its        *)
(* termination can be stated; free() is one step.  Mapping a page always   *)
(* succeeds here: running out of page frames is the frame allocator's      *)
(* business.  blocks is history: the headers of the segments each owner    *)
(* was given and has not freed.                                            *)
(***************************************************************************)
EXTENDS Integers, FiniteSets, Functions

CONSTANTS
    PageSize,      \* PAGE_SIZE
    HeaderSize,    \* sizeof(HeapSegmentHeader), a packed struct: 25
    Owner,         \* who calls malloc and free
    Printer,       \* the owner of what heap_print_debug allocates
    Sizes,         \* numbers of bytes asked for
    DebugBuilds,   \* values of "DEBUG_HEAP is defined" to consider
    MaxPages,      \* bound: no call starts that might grow the heap past this
    MaxNesting     \* bound: calls of malloc the kernel stack has room for

nullptr == -1

MinSplit == 8                  \* no segment is split off shorter than this
Align8(n) == IF n % 8 > 0 THEN n - (n % 8) + 8 ELSE n

ASSUME HeapAssumption ==
    /\ PageSize \in Nat \ {0}
    /\ HeaderSize \in Nat \ {0}
    /\ 2 * HeaderSize + MinSplit <= PageSize    \* 2 * 25 + 8 and 4096
    /\ Sizes \subseteq Nat \ {0}
    /\ DebugBuilds \subseteq BOOLEAN
    /\ MaxPages \in Nat
    /\ MaxNesting \in Nat \ {0}
    /\ Printer \in Owner

VARIABLES
    seg,           \* the headers: address -> [last, next, length, free]
    sHeapEnd,
    sLastHeader,
    debugHeap,     \* whether the kernel was built with DEBUG_HEAP
    call,          \* the innermost call of malloc
    nesting,       \* calls of malloc that have not returned
    blocks

vars == <<seg, sHeapEnd, sLastHeader, debugHeap, call, nesting, blocks>>

\* The list and the two globals the segment operations update.
Heap == [seg |-> seg, end |-> sHeapEnd, lastHeader |-> sLastHeader]
Becomes(h) == seg' = h.seg /\ sHeapEnd' = h.end /\ sLastHeader' = h.lastHeader

Header(last, next, length, free) ==
    [last |-> last, next |-> next, length |-> length, free |-> free]

-----------------------------------------------------------------------------
(* The operations on segments.                                             *)

\* Mutant: the segment after the swallowed one keeps its back link.
combine_forward_NoBackLink(h, a) ==
    LET n == h.seg[a].next IN
    IF n = nullptr \/ ~h.seg[n].free
    THEN h
    ELSE LET linked == [h.seg EXCEPT ![a].length = @ + h.seg[n].length + HeaderSize,
                                     ![a].next = h.seg[n].next]
         IN  [h EXCEPT !.seg = Restrict(linked, DOMAIN linked \ {n}),
                       !.lastHeader = IF @ = n THEN a ELSE @]

combine_forward(h, a) ==
    LET n == h.seg[a].next IN
    IF n = nullptr \/ ~h.seg[n].free
    THEN h
    ELSE LET nn     == h.seg[n].next
             linked == [h.seg EXCEPT ![a].length = @ + h.seg[n].length + HeaderSize,
                                     ![a].next = nn]
             back   == IF nn = nullptr THEN linked ELSE [linked EXCEPT ![nn].last = a]
         IN  [h EXCEPT !.seg = Restrict(back, DOMAIN back \ {n}),
                       !.lastHeader = IF @ = n THEN a ELSE @]

combine_backward(h, a) ==
    LET l == h.seg[a].last IN
    IF l = nullptr \/ ~h.seg[l].free THEN h ELSE combine_forward(h, l)

CanSplit(s, n) ==
    /\ n + HeaderSize <= s.length
    /\ n >= MinSplit
    /\ s.length - n - HeaderSize >= MinSplit

\* Mutant: the rest is not shortened by its header.
split_LongRest(h, a, n) ==
    LET s    == a + HeaderSize + n
        old  == h.seg[a]
        rest == Header(a, old.next, old.length - n, old.free)
        cut  == [x \in DOMAIN h.seg \cup {s} |->
                    CASE x = s -> rest
                      [] x = a -> [old EXCEPT !.length = n, !.next = s]
                      [] x = old.next -> [h.seg[x] EXCEPT !.last = s]
                      [] OTHER -> h.seg[x]]
    IN  [h EXCEPT !.seg = cut,
                  !.lastHeader = IF old.next = nullptr THEN s ELSE @]

\* The caller has checked CanSplit.
split(h, a, n) ==
    LET s    == a + HeaderSize + n
        old  == h.seg[a]
        rest == Header(a, old.next, old.length - n - HeaderSize, old.free)
        cut  == [x \in DOMAIN h.seg \cup {s} |->
                    CASE x = s -> rest
                      [] x = a -> [old EXCEPT !.length = n, !.next = s]
                      [] x = old.next -> [h.seg[x] EXCEPT !.last = s]
                      [] OTHER -> h.seg[x]]
    IN  [h EXCEPT !.seg = cut,
                  !.lastHeader = IF old.next = nullptr THEN s ELSE @]

\* Mutant: the extension is not combined with a free last segment, and is one
\* page however much is needed.
expand_heap_OnePage(h, n) ==
    LET extension == h.end
        linked    == [h.seg EXCEPT ![h.lastHeader].next = extension]
        added     == [x \in DOMAIN linked \cup {extension} |->
                         IF x = extension
                         THEN Header(h.lastHeader, nullptr, PageSize - HeaderSize, TRUE)
                         ELSE linked[x]]
    IN  [seg |-> added, end |-> h.end + PageSize, lastHeader |-> extension]

expand_heap(h, n) ==
    LET bytes     == (n \div PageSize + 1) * PageSize
        extension == h.end
        linked    == [h.seg EXCEPT ![h.lastHeader].next = extension]
        added     == [x \in DOMAIN linked \cup {extension} |->
                         IF x = extension
                         THEN Header(h.lastHeader, nullptr, bytes - HeaderSize, TRUE)
                         ELSE linked[x]]
    IN  combine_backward([seg |-> added, end |-> h.end + bytes,
                          lastHeader |-> extension], extension)

\* Mutants: free() merges forward only, or merges without marking.
release_ForwardOnly(h, a) == combine_forward([h EXCEPT !.seg[a].free = TRUE], a)
release_StillUsed(h, a) == combine_backward(combine_forward(h, a), a)

\* free(): the segment becomes free and merges with free neighbours.
release(h, a) ==
    LET freed == combine_forward([h EXCEPT !.seg[a].free = TRUE], a)
    IN  combine_backward(freed, a)

-----------------------------------------------------------------------------
Idle == [pc |-> "idle", owner |-> Printer, need |-> 0, current |-> 0, expansions |-> 0]
Search(o, n) ==
    [pc |-> "search", owner |-> o, need |-> Align8(n), current |-> 0, expansions |-> 0]

\* init_heap with HEAP_INITIAL_PAGES = 1.
Init ==
    /\ seg = [x \in {0} |-> Header(nullptr, nullptr, PageSize - HeaderSize, TRUE)]
    /\ sHeapEnd = PageSize
    /\ sLastHeader = 0
    /\ debugHeap \in DebugBuilds
    /\ call = Idle
    /\ nesting = 0
    /\ blocks = [o \in Owner |-> {}]

RoomFor(n) == sHeapEnd + 2 * (n \div PageSize + 1) * PageSize <= MaxPages * PageSize

Malloc(o, n) ==
    /\ call.pc = "idle"
    /\ RoomFor(Align8(n))
    /\ call' = Search(o, n)
    /\ nesting' = 1
    /\ UNCHANGED <<seg, sHeapEnd, sLastHeader, debugHeap, blocks>>

Current == seg[call.current]
Splits == Current.free /\ Current.length > call.need /\ CanSplit(Current, call.need)
Matches == Current.free /\ Current.length = call.need

\* heap_print_debug draws the heap, one character per 64 bytes, into an array
\* that it allocates: with DEBUG_HEAP malloc calls itself before it returns.
PrintChars == sHeapEnd \div 64 + 1
Return ==
    IF debugHeap
    THEN /\ call' = IF nesting < MaxNesting THEN Search(Printer, PrintChars)
                    ELSE [call EXCEPT !.pc = "overrun"]
         /\ nesting' = nesting + 1
    ELSE call' = Idle /\ nesting' = 0

Grant == blocks' = [blocks EXCEPT ![call.owner] = @ \cup {call.current}]

TakeSplit ==
    /\ call.pc = "search"
    /\ Splits
    /\ LET h == split(Heap, call.current, call.need) IN
       Becomes([h EXCEPT !.seg[call.current].free = FALSE])
    /\ Grant
    /\ Return
    /\ UNCHANGED debugHeap

TakeExact ==
    /\ call.pc = "search"
    /\ Matches
    /\ Becomes([Heap EXCEPT !.seg[call.current].free = FALSE])
    /\ Grant
    /\ Return
    /\ UNCHANGED debugHeap

\* Mutant: the walk stays where it is.
Advance_Stuck ==
    /\ call.pc = "search"
    /\ ~Splits /\ ~Matches
    /\ Current.next # nullptr
    /\ UNCHANGED vars

\* A free segment that is long enough, but not by a header and MinSplit bytes,
\* is passed over.
Advance ==
    /\ call.pc = "search"
    /\ ~Splits /\ ~Matches
    /\ Current.next # nullptr
    /\ call' = [call EXCEPT !.current = Current.next]
    /\ UNCHANGED <<seg, sHeapEnd, sLastHeader, debugHeap, nesting, blocks>>

\* The end of the list: grow the heap and search again from its start.
Expand ==
    /\ call.pc = "search"
    /\ ~Splits /\ ~Matches
    /\ Current.next = nullptr
    /\ Becomes(expand_heap(Heap, call.need))
    /\ call' = [call EXCEPT !.current = 0, !.expansions = @ + 1]
    /\ UNCHANGED <<debugHeap, nesting, blocks>>

Free(o, a) ==
    /\ call.pc = "idle"
    /\ a \in blocks[o]
    /\ Becomes(release(Heap, a))
    /\ blocks' = [blocks EXCEPT ![o] = @ \ {a}]
    /\ UNCHANGED <<debugHeap, call, nesting>>

SearchStep == TakeSplit \/ TakeExact \/ Advance \/ Expand

Next ==
    \/ \E o \in Owner \ {Printer}, n \in Sizes : Malloc(o, n)
    \/ SearchStep
    \/ \E o \in Owner : \E a \in blocks[o] : Free(o, a)

\* malloc runs to its end: nothing preempts the kernel.
Spec == Init /\ [][Next]_vars /\ WF_vars(SearchStep)

-----------------------------------------------------------------------------
(* Properties.                                                             *)

Address == 0 .. sHeapEnd - 1

TypeOK ==
    /\ sHeapEnd \in Nat
    /\ DOMAIN seg \subseteq Address
    /\ \A a \in DOMAIN seg :
          seg[a] \in [last : {nullptr} \cup Address, next : {nullptr} \cup Address,
                      length : 1 .. sHeapEnd, free : BOOLEAN]
    /\ sLastHeader \in DOMAIN seg
    /\ debugHeap \in BOOLEAN
    /\ call \in [pc : {"idle", "search", "overrun"}, owner : Owner, need : Nat,
                 current : Address, expansions : Nat]
    /\ nesting \in 0 .. MaxNesting + 1
    /\ blocks \in [Owner -> SUBSET Address]

\* The headers and their payloads tile the heap from its start to its end, the
\* list runs through them in address order in both directions, and sLastHeader
\* is its end: split, both combines and expand_heap keep all four in step.
SegmentsTile ==
    /\ 0 \in DOMAIN seg
    /\ \A a \in DOMAIN seg :
          LET after == a + HeaderSize + seg[a].length IN
          /\ a = 0 <=> seg[a].last = nullptr
          /\ a = sLastHeader <=> seg[a].next = nullptr
          /\ IF seg[a].next = nullptr
             THEN after = sHeapEnd
             ELSE /\ seg[a].next = after
                  /\ after \in DOMAIN seg
                  /\ seg[after].last = a

\* Freed memory never stays fragmented: no two neighbours are both free,
\* whatever the order of frees, splits and expansions.
NoFreeNeighbours ==
    \A a \in DOMAIN seg :
        seg[a].free /\ seg[a].next # nullptr => ~seg[seg[a].next].free

\* A segment is in use exactly while somebody holds it: merging never swallows
\* a block that is held, and no freed block is left marked in use.
UsedIsHeld ==
    {a \in DOMAIN seg : ~seg[a].free} = UNION {blocks[o] : o \in Owner}

\* One call of malloc grows the heap at most twice.  (Twice does happen: the
\* first extension can be long enough for the request but too short to split.)
AtMostTwoExpansions == call.expansions <= 2

Payload(a) == a + HeaderSize .. a + HeaderSize + seg[a].length - 1
held == [o \in Owner |-> UNION {Payload(a) : a \in blocks[o]}]

\* malloc gives out unbroken runs of bytes inside the mapped heap that overlap
\* no block anybody holds; free gives back the caller's own bytes.
RA == INSTANCE RunAllocator WITH arena <- Address
BlocksAreFreeRuns == RA!Spec

\* Without DEBUG_HEAP every call of malloc returns: the search ends, and so
\* does the recursion through expand_heap.
MallocReturns == call.pc = "search" /\ ~debugHeap ~> call.pc = "idle"

\* "Allocate known good stack": the kernel never runs off its stack.  Not so
\* with DEBUG_HEAP (README, section 4).
StackHolds == call.pc # "overrun"
=============================================================================
