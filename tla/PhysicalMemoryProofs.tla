------------------------ MODULE PhysicalMemoryProofs ------------------------
(***************************************************************************)
(* PhysicalMemory, for every memory map, kernel position, page size and    *)
(* sequence of calls: its globals keep their types, the counters agree     *)
(* with the bitmap, no search reaches a page table, and every grant is a   *)
(* run of free frames (the allocator implements RunAllocator).             *)
(***************************************************************************)
EXTENDS PhysicalMemory, FiniteSetTheorems, WellFoundedInduction, TLAPS

(***************************************************************************)
(* What the operations of the page frame allocator do, for every bitmap    *)
(* and every set of frames.                                                *)
(***************************************************************************)

\* Every counter can hold the number of bits of the bitmap.
Capacity(m) == 8 * m.PageMap.Size < Word

\* The bits that locking S sets, and that freeing S clears.
Fresh(m, S) == {i \in S : B!InBounds(m.PageMap, i) /\ ~locked(m, i)}
Freed(m, S) == {i \in S : locked(m, i)}

-----------------------------------------------------------------------------
(* A non-empty set of naturals has a least element, which Min returns: the *)
(* searches of request_page and request_pages end at the lowest match.     *)
LEMMA MinIsLeast ==
  ASSUME NEW S \in SUBSET Nat, S # {}
  PROVE  Min(S) \in S /\ \A j \in S : Min(S) <= j
<1> DEFINE less == {ss \in Nat \X Nat : ss[1] < ss[2]}
<1>1. IsWellFoundedOn(less, Nat)
  BY NatLessThanWellFounded, Zenon DEF OpToRel
<1>2. \E x \in S : \A y \in S : ~ (<<y, x>> \in less)
  <2> HIDE DEF less
  <2> QED BY <1>1, WFMin
<1>3. PICK x \in S : \A y \in S : ~ (<<y, x>> \in less)
  BY <1>2
<1>4. ASSUME NEW y \in S PROVE x <= y
  <2>1. <<y, x>> \in Nat \X Nat
    OBVIOUS
  <2>2. ~(y < x)
    BY <1>3, <2>1
  <2> QED BY <2>2
<1>5. \E z \in S : \A y \in S : z <= y
  BY <1>4
<1> QED BY <1>5 DEF Min

(* Every index a bitmap has a bit for is within its bytes, and the bits of *)
(* a bitmap are finite in number and fit a counter.                        *)
LEMMA BitsFit ==
  ASSUME NEW m, PageFramesType(m), Capacity(m), Word \in Nat,
         NEW S \in SUBSET B!Indexes(m.PageMap.Size)
  PROVE  /\ IsFiniteSet(S)
         /\ Cardinality(S) \in Nat
         /\ Cardinality(S) < Word
<1>1. m.PageMap.Size \in Nat
  BY DEF PageFramesType
<1>2. IsFiniteSet(B!Indexes(m.PageMap.Size))
      /\ Cardinality(B!Indexes(m.PageMap.Size)) <= 8 * m.PageMap.Size
  <2> DEFINE last == 8 * m.PageMap.Size - 1
  <2>1. last \in Int /\ last + 1 >= 0
    BY <1>1
  <2>2. IsFiniteSet(0 .. last)
        /\ Cardinality(0 .. last) = IF 0 > last THEN 0 ELSE last - 0 + 1
    <3> HIDE DEF last
    <3> QED BY <2>1, FS_Interval
  <2> QED BY <2>1, <2>2, <1>1 DEF B!Indexes
<1>3. IsFiniteSet(S) /\ Cardinality(S) <= Cardinality(B!Indexes(m.PageMap.Size))
  BY <1>2, FS_Subset
<1>4. Cardinality(S) \in Nat /\ Cardinality(B!Indexes(m.PageMap.Size)) \in Nat
  BY <1>2, <1>3, FS_CardinalityType
<1> QED BY <1>1, <1>2, <1>3, <1>4 DEF Capacity

LEMMA InBoundsIsIndex ==
  ASSUME NEW m, PageFramesType(m), NEW i \in Nat
  PROVE  B!InBounds(m.PageMap, i) <=> i \in B!Indexes(m.PageMap.Size)
<1>1. m.PageMap.Size \in Nat
  BY DEF PageFramesType
<1> QED BY <1>1 DEF B!InBounds, B!Indexes

LEMMA LockedIsBit ==
  ASSUME NEW m, PageFramesType(m), NEW i \in Nat
  PROVE  locked(m, i) <=> i \in m.PageMap.bits
BY InBoundsIsIndex DEF PageFramesType, B!BitmapType, locked, B!get

LEMMA CounterArithmetic ==
  ASSUME Word \in Nat, NEW x \in Counter, NEW k \in Nat, k < Word
  PROVE  Plus(x, k) \in Counter /\ Minus(x, k) \in Counter
BY DEF Counter, Plus, Minus
-----------------------------------------------------------------------------
(* Two allocator states that differ in their locked frames and counters    *)
(* only.                                                                   *)
SameShape(m, m2) ==
    /\ m2.PageMap.Size = m.PageMap.Size
    /\ m2.PageMap.Buffer = m.PageMap.Buffer
    /\ m2.TotalPages = m.TotalPages
    /\ m2.MaxFreePagesInARow = m.MaxFreePagesInARow
    /\ m2.FirstFreePage = m.FirstFreePage

LEMMA FreshIsIndexes ==
  ASSUME NEW m, PageFramesType(m), NEW S \in SUBSET Nat
  PROVE  /\ Fresh(m, S) \in SUBSET B!Indexes(m.PageMap.Size)
         /\ Fresh(m, S) \cap m.PageMap.bits = {}
         /\ Freed(m, S) = S \cap m.PageMap.bits
         /\ m.PageMap.bits \in SUBSET B!Indexes(m.PageMap.Size)
BY InBoundsIsIndex, LockedIsBit DEF Fresh, Freed, PageFramesType, B!BitmapType

(* Replacing the bits and the two counters keeps everything else.          *)
WithBits(m, b, f, u) ==
    [m EXCEPT !.PageMap.bits = b, !.TotalFreePages = f, !.TotalUsedPages = u]

LEMMA Rebit ==
  ASSUME NEW m, PageFramesType(m),
         NEW b \in SUBSET B!Indexes(m.PageMap.Size),
         NEW f \in Counter, NEW u \in Counter
  PROVE  /\ PageFramesType(WithBits(m, b, f, u))
         /\ SameShape(m, WithBits(m, b, f, u))
         /\ WithBits(m, b, f, u).PageMap.bits = b
         /\ WithBits(m, b, f, u).TotalFreePages = f
         /\ WithBits(m, b, f, u).TotalUsedPages = u
<1> DEFINE m2 == WithBits(m, b, f, u)
<1>1. b \in SUBSET Nat
  BY DEF B!Indexes
<1>2. m2.PageMap = [m.PageMap EXCEPT !.bits = b]
  BY DEF PageFramesType, WithBits
<1>3. /\ m2.TotalFreePages = f
      /\ m2.TotalUsedPages = u
      /\ m2.TotalPages = m.TotalPages
      /\ m2.MaxFreePagesInARow = m.MaxFreePagesInARow
      /\ m2.FirstFreePage = m.FirstFreePage
  BY DEF PageFramesType, WithBits
<1>4. /\ m2.PageMap \in [Size : Nat, Buffer : Nat, bits : SUBSET Nat]
      /\ m2.PageMap.Size = m.PageMap.Size
      /\ m2.PageMap.Buffer = m.PageMap.Buffer
      /\ m2.PageMap.bits = b
  <2> HIDE DEF m2
  <2> QED BY <1>1, <1>2 DEF PageFramesType
<1>5. PageFramesType(m2)
  BY <1>4 DEF PageFramesType, B!BitmapType, WithBits
<1> QED BY <1>3, <1>4, <1>5 DEF SameShape

(* lock_pages locks the frames of S that have a bit, keeps the others, and *)
(* changes the counters by what it locked.                                 *)
LEMMA LockPagesEffect ==
  ASSUME NEW m, PageFramesType(m), Capacity(m), Word \in Nat,
         NEW S \in SUBSET Nat
  PROVE  /\ PageFramesType(lock_pages(m, S))
         /\ SameShape(m, lock_pages(m, S))
         /\ lock_pages(m, S).PageMap.bits = m.PageMap.bits \cup Fresh(m, S)
         /\ lock_pages(m, S).TotalFreePages =
                Minus(m.TotalFreePages, Cardinality(Fresh(m, S)))
         /\ lock_pages(m, S).TotalUsedPages =
                Plus(m.TotalUsedPages, Cardinality(Fresh(m, S)))
<1> DEFINE k == Cardinality(Fresh(m, S))
           m2 == lock_pages(m, S)
<1>1. k \in Nat /\ k < Word
  BY FreshIsIndexes, BitsFit
<1>2. m2 = [m EXCEPT !.PageMap.bits = @ \cup Fresh(m, S),
                     !.TotalFreePages = Minus(@, k),
                     !.TotalUsedPages = Plus(@, k)]
  BY DEF lock_pages, Fresh
<1>3. /\ Minus(m.TotalFreePages, k) \in Counter
      /\ Plus(m.TotalUsedPages, k) \in Counter
  BY <1>1, CounterArithmetic DEF PageFramesType
<1>4. m.PageMap.bits \cup Fresh(m, S) \in SUBSET B!Indexes(m.PageMap.Size)
  BY FreshIsIndexes
<1> DEFINE b == m.PageMap.bits \cup Fresh(m, S)
           f == Minus(m.TotalFreePages, k)
           u == Plus(m.TotalUsedPages, k)
<1>5. m2 = WithBits(m, b, f, u)
  BY <1>2 DEF PageFramesType, WithBits
<1>6. /\ PageFramesType(m2)
      /\ SameShape(m, m2)
      /\ m2.PageMap.bits = b
      /\ m2.TotalFreePages = f
      /\ m2.TotalUsedPages = u
  <2>1. b \in SUBSET B!Indexes(m.PageMap.Size) /\ f \in Counter /\ u \in Counter
    BY <1>4, <1>3
  <2> HIDE DEF m2, b, f, u
  <2> QED BY <1>5, <2>1, Rebit
<1> QED BY <1>6

(* free_pages unlocks the frames of S and changes the counters by what it  *)
(* unlocked.                                                               *)
LEMMA FreePagesEffect ==
  ASSUME NEW m, PageFramesType(m), Capacity(m), Word \in Nat,
         NEW S \in SUBSET Nat
  PROVE  /\ PageFramesType(free_pages(m, S))
         /\ SameShape(m, free_pages(m, S))
         /\ free_pages(m, S).PageMap.bits = m.PageMap.bits \ S
         /\ free_pages(m, S).TotalFreePages =
                Plus(m.TotalFreePages, Cardinality(Freed(m, S)))
         /\ free_pages(m, S).TotalUsedPages =
                Minus(m.TotalUsedPages, Cardinality(Freed(m, S)))
<1> DEFINE k == Cardinality(Freed(m, S))
           m2 == free_pages(m, S)
<1>1. k \in Nat /\ k < Word
  <2>1. Freed(m, S) \in SUBSET B!Indexes(m.PageMap.Size)
    BY FreshIsIndexes
  <2> QED BY <2>1, BitsFit
<1>2. m2 = [m EXCEPT !.PageMap.bits = @ \ Freed(m, S),
                     !.TotalUsedPages = Minus(@, k),
                     !.TotalFreePages = Plus(@, k)]
  BY DEF free_pages, Freed
<1>3. /\ Plus(m.TotalFreePages, k) \in Counter
      /\ Minus(m.TotalUsedPages, k) \in Counter
  BY <1>1, CounterArithmetic DEF PageFramesType
<1>4. m.PageMap.bits \ Freed(m, S) = m.PageMap.bits \ S
  BY FreshIsIndexes
<1>5. m.PageMap.bits \ Freed(m, S) \in SUBSET B!Indexes(m.PageMap.Size)
  BY FreshIsIndexes
<1> DEFINE b == m.PageMap.bits \ Freed(m, S)
           f == Plus(m.TotalFreePages, k)
           u == Minus(m.TotalUsedPages, k)
<1>6. m2 = WithBits(m, b, f, u)
  BY <1>2 DEF PageFramesType, WithBits
<1>7. /\ PageFramesType(m2)
      /\ SameShape(m, m2)
      /\ m2.PageMap.bits = b
      /\ m2.TotalFreePages = f
      /\ m2.TotalUsedPages = u
  <2>1. b \in SUBSET B!Indexes(m.PageMap.Size) /\ f \in Counter /\ u \in Counter
    BY <1>5, <1>3
  <2> HIDE DEF m2, b, f, u
  <2> QED BY <1>6, <2>1, Rebit
<1> QED BY <1>4, <1>7 DEF m2
-----------------------------------------------------------------------------
LEMMA FramesAreNat ==
  ASSUME NEW a \in Nat, NEW n \in Nat
  PROVE  Frames(a, n) \in SUBSET Nat
BY DEF Frames

LEMMA MaxOfTwo ==
  ASSUME NEW a \in Nat, NEW b \in Nat
  PROVE  Max({a, b}) \in Nat /\ Max({a, b}) >= a /\ Max({a, b}) >= b
<1>1. \E x \in {a, b} : \A y \in {a, b} : x >= y
  <2>1. CASE a >= b BY <2>1
  <2>2. CASE b >= a BY <2>2
  <2> QED BY <2>1, <2>2
<1> QED BY <1>1 DEF Max

(* lock_page is lock_pages of one frame.                                   *)
LEMMA LockOnePage ==
  ASSUME NEW m, PageFramesType(m), Capacity(m), Word \in Nat, 1 < Word,
         NEW i \in Nat
  PROVE  /\ PageFramesType(lock_page(m, i))
         /\ SameShape(m, lock_page(m, i))
         /\ lock_page(m, i).PageMap.bits = m.PageMap.bits \cup Fresh(m, {i})
         /\ lock_page(m, i).TotalFreePages =
                Minus(m.TotalFreePages, Cardinality(Fresh(m, {i})))
         /\ lock_page(m, i).TotalUsedPages =
                Plus(m.TotalUsedPages, Cardinality(Fresh(m, {i})))
<1>1. CASE locked(m, i) \/ ~B!InBounds(m.PageMap, i)
  <2>1. Fresh(m, {i}) = {} /\ Cardinality(Fresh(m, {i})) = 0
    BY <1>1, FS_EmptySet DEF Fresh
  <2>2. lock_page(m, i) = m
    BY <1>1 DEF lock_page, B!setReturns
  <2>3. /\ Minus(m.TotalFreePages, 0) = m.TotalFreePages
        /\ Plus(m.TotalUsedPages, 0) = m.TotalUsedPages
    BY DEF PageFramesType, Counter, Plus, Minus
  <2> QED BY <2>1, <2>2, <2>3 DEF SameShape
<1>2. CASE ~locked(m, i) /\ B!InBounds(m.PageMap, i)
  <2> DEFINE b == m.PageMap.bits \cup {i}
             f == Minus(m.TotalFreePages, 1)
             u == Plus(m.TotalUsedPages, 1)
  <2>1. Fresh(m, {i}) = {i} /\ Cardinality(Fresh(m, {i})) = 1
    <3>1. Fresh(m, {i}) = {i}
      BY <1>2 DEF Fresh
    <3>2. Cardinality({i}) = 1
      BY FS_Singleton
    <3> QED BY <3>1, <3>2
  <2>2. lock_page(m, i) = WithBits(m, b, f, u)
    BY <1>2 DEF lock_page, B!setReturns, B!set, WithBits, PageFramesType
  <2>3. b \in SUBSET B!Indexes(m.PageMap.Size) /\ f \in Counter /\ u \in Counter
    <3>1. i \in B!Indexes(m.PageMap.Size)
      BY <1>2, InBoundsIsIndex
    <3>2. m.PageMap.bits \in SUBSET B!Indexes(m.PageMap.Size)
      BY FreshIsIndexes, {i} \in SUBSET Nat
    <3>3. m.TotalFreePages \in Counter /\ m.TotalUsedPages \in Counter
      BY DEF PageFramesType
    <3>4. f \in Counter /\ u \in Counter
      BY <3>3, CounterArithmetic, 1 \in Nat
    <3> QED BY <3>1, <3>2, <3>4
  <2>4. /\ PageFramesType(lock_page(m, i))
        /\ SameShape(m, lock_page(m, i))
        /\ lock_page(m, i).PageMap.bits = b
        /\ lock_page(m, i).TotalFreePages = f
        /\ lock_page(m, i).TotalUsedPages = u
    <3> HIDE DEF b, f, u
    <3> QED BY <2>2, <2>3, Rebit
  <2> QED BY <2>1, <2>4
<1> QED BY <1>1, <1>2
-----------------------------------------------------------------------------
(* The requests.  A refused request leaves the bitmap and the counters     *)
(* alone; a granted one locks exactly the frames it returns, all of which  *)
(* were free and none of which is below the search's start.                *)
Refused(m, a) ==
    /\ a.mem.PageMap = m.PageMap
    /\ a.mem.TotalFreePages = m.TotalFreePages
    /\ a.mem.TotalUsedPages = m.TotalUsedPages

Granted(m, a, n) ==
    LET S == Frames(a.frame, n) IN
    /\ a.frame >= m.FirstFreePage
    /\ \A j \in S : ~locked(m, j)
    /\ a.mem.PageMap.Size = m.PageMap.Size
    /\ a.mem.PageMap.Buffer = m.PageMap.Buffer
    /\ a.mem.PageMap.bits = m.PageMap.bits \cup Fresh(m, S)
    /\ a.mem.TotalFreePages = Minus(m.TotalFreePages, Cardinality(Fresh(m, S)))
    /\ a.mem.TotalUsedPages = Plus(m.TotalUsedPages, Cardinality(Fresh(m, S)))

RequestType(m, a) ==
    /\ PageFramesType(a.mem)
    /\ a.frame \in Nat
    /\ a.panics \in BOOLEAN
    /\ a.mem.TotalPages = m.TotalPages
    /\ a.mem.MaxFreePagesInARow = m.MaxFreePagesInARow
    /\ a.mem.FirstFreePage >= m.FirstFreePage

LEMMA RequestPage1 ==
  ASSUME NEW m, PageFramesType(m), Capacity(m), Word \in Nat, 1 < Word
  PROVE  LET a == request_page(m) IN
         /\ RequestType(m, a)
         /\ \/ /\ Refused(m, a)
               /\ a.panics
               /\ a.frame = nullptr
               /\ a.mem.FirstFreePage >= m.TotalPages
            \/ /\ Granted(m, a, 1)
               /\ ~a.panics
               /\ a.frame < m.TotalPages
               /\ a.mem.FirstFreePage = a.frame + 1
<1> DEFINE a == request_page(m)
<1>0. /\ m.FirstFreePage \in Nat
      /\ m.TotalPages \in Nat
      /\ NextFree(m) \in SUBSET Nat
  BY DEF PageFramesType, NextFree
<1>1. CASE NextFree(m) = {}
  <2> DEFINE f == Max({m.FirstFreePage, m.TotalPages})
  <2>1. f \in Nat /\ f >= m.FirstFreePage /\ f >= m.TotalPages
    BY <1>0, MaxOfTwo
  <2>2. a = Answer([m EXCEPT !.FirstFreePage = f], nullptr, TRUE)
    BY <1>1 DEF request_page
  <2>3. /\ a.mem = [m EXCEPT !.FirstFreePage = f]
        /\ a.frame = 0
        /\ a.panics = TRUE
    BY <2>2 DEF Answer, nullptr
  <2> HIDE DEF a, f
  <2>4. /\ a.mem.PageMap = m.PageMap
        /\ a.mem.TotalPages = m.TotalPages
        /\ a.mem.TotalFreePages = m.TotalFreePages
        /\ a.mem.TotalUsedPages = m.TotalUsedPages
        /\ a.mem.MaxFreePagesInARow = m.MaxFreePagesInARow
        /\ a.mem.FirstFreePage = f
    BY <2>3 DEF PageFramesType
  <2>5. PageFramesType(a.mem)
    BY <2>1, <2>3, <2>4 DEF PageFramesType
  <2>6. RequestType(m, a)
    <3>1. a.panics \in BOOLEAN
      BY <2>3
    <3>2. a.frame \in Nat /\ a.mem.FirstFreePage >= m.FirstFreePage
      BY <2>1, <2>3, <2>4
    <3> QED BY <2>4, <2>5, <3>1, <3>2, Zenon DEF RequestType
  <2>7. Refused(m, a)
    BY <2>4 DEF Refused
  <2> QED BY <2>1, <2>3, <2>4, <2>6, <2>7 DEF a, nullptr
<1>2. CASE NextFree(m) # {}
  <2> DEFINE i == Min(NextFree(m))
             p == lock_page(m, i)
  <2>1. i \in NextFree(m)
    BY <1>0, <1>2, MinIsLeast
  <2>2. i \in Nat /\ i >= m.FirstFreePage /\ i < m.TotalPages /\ ~locked(m, i)
    <3> HIDE DEF i
    <3> QED BY <2>1, <1>0 DEF NextFree
  <2>3. a = Answer([p EXCEPT !.FirstFreePage = i + 1], i, FALSE)
    BY <1>2 DEF request_page
  <2>4. /\ a.mem = [p EXCEPT !.FirstFreePage = i + 1]
        /\ a.frame = i
        /\ a.panics = FALSE
    BY <2>3 DEF Answer
  <2>5. /\ PageFramesType(p)
        /\ SameShape(m, p)
        /\ p.PageMap.bits = m.PageMap.bits \cup Fresh(m, {i})
        /\ p.TotalFreePages = Minus(m.TotalFreePages, Cardinality(Fresh(m, {i})))
        /\ p.TotalUsedPages = Plus(m.TotalUsedPages, Cardinality(Fresh(m, {i})))
    <3> HIDE DEF i
    <3> QED BY <2>2, LockOnePage
  <2>6. Frames(i, 1) = {i}
    <3> HIDE DEF i
    <3> QED BY <2>2 DEF Frames
  <2> HIDE DEF a, p, i
  <2>7. /\ a.mem.PageMap = p.PageMap
        /\ a.mem.TotalPages = m.TotalPages
        /\ a.mem.TotalFreePages = p.TotalFreePages
        /\ a.mem.TotalUsedPages = p.TotalUsedPages
        /\ a.mem.MaxFreePagesInARow = m.MaxFreePagesInARow
        /\ a.mem.FirstFreePage = i + 1
    BY <2>4, <2>5 DEF PageFramesType, SameShape
  <2>8. PageFramesType(a.mem)
    BY <2>2, <2>4, <2>5, <2>7 DEF PageFramesType
  <2>9. RequestType(m, a)
    <3>1. a.panics \in BOOLEAN
      BY <2>4
    <3>2. a.frame \in Nat /\ a.mem.FirstFreePage >= m.FirstFreePage
      BY <1>0, <2>2, <2>4, <2>7
    <3> QED BY <2>7, <2>8, <3>1, <3>2, Zenon DEF RequestType
  <2>10. Granted(m, a, 1)
    <3>1. \A j \in Frames(a.frame, 1) : ~locked(m, j)
      BY <2>2, <2>4, <2>6
    <3> QED BY <2>2, <2>4, <2>5, <2>6, <2>7, <3>1 DEF Granted, SameShape
  <2> QED BY <2>2, <2>4, <2>7, <2>9, <2>10 DEF a
<1> QED BY <1>1, <1>2

(* A search for a run of two or more frames.                               *)
LEMMA RequestRun ==
  ASSUME NEW m, PageFramesType(m), Capacity(m), Word \in Nat, 1 < Word,
         NEW n \in Nat, n > 1
  PROVE  LET a == request_pages(m, n) IN
         /\ RequestType(m, a)
         /\ \/ Refused(m, a) /\ a.frame = nullptr
            \/ Granted(m, a, n) /\ ~a.panics
               /\ \A j \in Frames(a.frame, n) : j < m.PageMap.Size
<1> DEFINE a == request_pages(m, n)
           tooMany == n > m.TotalFreePages \/ n > m.MaxFreePagesInARow
<1>0. /\ m.FirstFreePage \in Nat
      /\ m.PageMap.Size \in Nat
      /\ Fits(m, n) \in SUBSET Nat
  BY DEF PageFramesType, Fits, Searched, B!length
<1>1. n # 0 /\ n # 1
  OBVIOUS
<1>2. ASSUME NEW p \in BOOLEAN, a = Answer(m, nullptr, p)
      PROVE  RequestType(m, a) /\ Refused(m, a) /\ a.frame = nullptr
  <2>1. a.mem = m /\ a.frame = 0 /\ a.panics = p
    BY <1>2 DEF Answer, nullptr
  <2> HIDE DEF a
  <2>2. a.panics \in BOOLEAN
    BY <2>1
  <2>3. a.frame \in Nat /\ a.mem.FirstFreePage >= m.FirstFreePage
    BY <1>0, <2>1
  <2> QED BY <2>1, <2>2, <2>3, Zenon DEF RequestType, Refused, nullptr
<1>3. CASE tooMany
  <2>1. a = Answer(m, nullptr, FALSE)
    BY <1>1, <1>3 DEF request_pages
  <2> QED BY <1>2, <2>1
<1>4. CASE ~tooMany /\ Fits(m, n) = {}
  <2>1. a = Answer(m, nullptr, RunsIntoEnd(m))
    BY <1>1, <1>4 DEF request_pages
  <2>2. RunsIntoEnd(m) \in BOOLEAN
    BY DEF RunsIntoEnd
  <2> QED BY <1>2, <2>1, <2>2
<1>5. CASE ~tooMany /\ Fits(m, n) # {}
  <2> DEFINE i == Min(Fits(m, n))
             S == Frames(i, n)
             p == lock_pages(m, S)
  <2>1. i \in Fits(m, n)
    BY <1>0, <1>5, MinIsLeast
  <2>2. /\ i \in Nat
        /\ i >= m.FirstFreePage
        /\ i + n < m.PageMap.Size
        /\ \A j \in S : ~locked(m, j)
    <3> HIDE DEF i
    <3> QED BY <2>1, <1>0 DEF Fits, Searched, B!length
  <2>3. a = Answer(p, i, FALSE)
    BY <1>1, <1>5 DEF request_pages
  <2>4. /\ a.mem = p
        /\ a.frame = i
        /\ a.panics = FALSE
    BY <2>3 DEF Answer
  <2>5. S \in SUBSET Nat /\ \A j \in S : j < m.PageMap.Size
    <3> HIDE DEF i
    <3> QED BY <1>0, <2>2 DEF Frames
  <2>6. /\ PageFramesType(p)
        /\ SameShape(m, p)
        /\ p.PageMap.bits = m.PageMap.bits \cup Fresh(m, S)
        /\ p.TotalFreePages = Minus(m.TotalFreePages, Cardinality(Fresh(m, S)))
        /\ p.TotalUsedPages = Plus(m.TotalUsedPages, Cardinality(Fresh(m, S)))
    <3> HIDE DEF S
    <3> QED BY <2>5, LockPagesEffect
  <2>7. S = Frames(a.frame, n)
    BY <2>4
  <2> HIDE DEF a, p, S, i
  <2>8. RequestType(m, a)
    <3>1. a.panics \in BOOLEAN
      BY <2>4
    <3>2. a.frame \in Nat /\ a.mem.FirstFreePage >= m.FirstFreePage
      BY <1>0, <2>2, <2>4, <2>6 DEF SameShape
    <3> QED BY <2>4, <2>6, <3>1, <3>2, Zenon DEF RequestType, SameShape
  <2>9. Granted(m, a, n)
    BY <2>2, <2>4, <2>6, <2>7, Zenon DEF Granted, SameShape
  <2>10. ~a.panics
    BY <2>4
  <2> QED BY <2>5, <2>7, <2>8, <2>9, <2>10 DEF a
<1> QED BY <1>3, <1>4, <1>5

(* Any number of pages.                                                    *)
LEMMA RequestPages1 ==
  ASSUME NEW m, PageFramesType(m), Capacity(m), Word \in Nat, 1 < Word,
         NEW n \in Nat
  PROVE  LET a == request_pages(m, n) IN
         /\ RequestType(m, a)
         /\ \/ Refused(m, a) /\ a.frame = nullptr
            \/ Granted(m, a, n) /\ ~a.panics
               /\ \/ \A j \in Frames(a.frame, n) : j < m.PageMap.Size
                  \/ \A j \in Frames(a.frame, n) : j < m.TotalPages
<1>1. CASE n = 0
  <2> DEFINE a == request_pages(m, n)
  <2>1. a.mem = m /\ a.frame = 0 /\ a.panics = FALSE
    BY <1>1 DEF request_pages, Answer, nullptr
  <2> HIDE DEF a
  <2>2. a.panics \in BOOLEAN
    BY <2>1
  <2>3. a.frame \in Nat /\ a.mem.FirstFreePage >= m.FirstFreePage
    BY <2>1 DEF PageFramesType
  <2>4. RequestType(m, a) /\ Refused(m, a) /\ a.frame = nullptr
    BY <2>1, <2>2, <2>3, Zenon DEF RequestType, Refused, nullptr
  <2> QED BY <2>4 DEF a
<1>2. CASE n = 1
  <2> DEFINE a == request_page(m)
  <2>1. request_pages(m, n) = a
    BY <1>2 DEF request_pages
  <2>2. /\ RequestType(m, a)
        /\ \/ Refused(m, a) /\ a.frame = nullptr
           \/ Granted(m, a, 1) /\ ~a.panics /\ a.frame < m.TotalPages
    BY RequestPage1
  <2> HIDE DEF a
  <2>3. a.frame < m.TotalPages => \A j \in Frames(a.frame, 1) : j < m.TotalPages
    BY <2>2 DEF RequestType, Frames, PageFramesType
  <2> QED BY <1>2, <2>1, <2>2, <2>3
<1>3. CASE n > 1
  BY <1>3, RequestRun
<1> QED BY <1>1, <1>2, <1>3
-----------------------------------------------------------------------------
(* The counters.  Counted: the used counter is the number of locked        *)
(* frames.  What a lock or a free takes from one counter it gives to the   *)
(* other, so their sum stays, also when the free counter wraps below zero. *)
Counted(m) == m.TotalUsedPages = Cardinality(m.PageMap.bits)
Sum2(m) == Plus(m.TotalFreePages, m.TotalUsedPages)

\* m2 has more bits set than m: those of the fresh ones.
Locks(m, m2, fresh) ==
    /\ m2.PageMap.Size = m.PageMap.Size
    /\ m2.PageMap.bits = m.PageMap.bits \cup fresh
    /\ m2.TotalFreePages = Minus(m.TotalFreePages, Cardinality(fresh))
    /\ m2.TotalUsedPages = Plus(m.TotalUsedPages, Cardinality(fresh))

LEMMA LockingCounts ==
  ASSUME NEW m, PageFramesType(m), Capacity(m), Word \in Nat, Counted(m),
         NEW S \in SUBSET Nat, NEW m2, Locks(m, m2, Fresh(m, S))
  PROVE  Counted(m2) /\ Sum2(m2) = Sum2(m)
<1> DEFINE fresh == Fresh(m, S)
           bits == m.PageMap.bits
           k == Cardinality(fresh)
           c == Cardinality(bits)
<1>1. /\ fresh \in SUBSET B!Indexes(m.PageMap.Size)
      /\ bits \in SUBSET B!Indexes(m.PageMap.Size)
      /\ bits \cup fresh \in SUBSET B!Indexes(m.PageMap.Size)
      /\ bits \cap fresh = {}
  BY FreshIsIndexes
<1>2. m.TotalFreePages \in Counter /\ m.TotalUsedPages = c
  BY DEF PageFramesType, Counted
<1>3. /\ m2.PageMap.bits = bits \cup fresh
      /\ m2.TotalFreePages = Minus(m.TotalFreePages, k)
      /\ m2.TotalUsedPages = Plus(c, k)
  BY <1>2 DEF Locks
<1> HIDE DEF fresh, bits
<1>4. /\ IsFiniteSet(fresh) /\ IsFiniteSet(bits)
      /\ k \in Nat /\ c \in Nat
      /\ k < Word
      /\ Cardinality(bits \cup fresh) < Word
  BY <1>1, BitsFit
<1>5. Cardinality(bits \cup fresh) = c + k
  <2>1. Cardinality(bits \cup fresh) = c + k - Cardinality(bits \cap fresh)
    BY <1>4, FS_Union
  <2>2. Cardinality(bits \cap fresh) = 0
    BY <1>1, FS_EmptySet
  <2> QED BY <1>4, <2>1, <2>2
<1> HIDE DEF k, c
<1>6. c + k < Word
  BY <1>4, <1>5
<1>7. Plus(c, k) = c + k
  BY <1>4, <1>6 DEF Plus
<1>8. Plus(Minus(m.TotalFreePages, k), c + k) = Plus(m.TotalFreePages, c)
  BY <1>2, <1>4, <1>6 DEF Plus, Minus, Counter
<1> QED BY <1>2, <1>3, <1>5, <1>7, <1>8 DEF Counted, Sum2

LEMMA LockPagesCounts ==
  ASSUME NEW m, PageFramesType(m), Capacity(m), Word \in Nat, Counted(m),
         NEW S \in SUBSET Nat
  PROVE  Counted(lock_pages(m, S)) /\ Sum2(lock_pages(m, S)) = Sum2(m)
<1>1. Locks(m, lock_pages(m, S), Fresh(m, S))
  BY LockPagesEffect, Zenon DEF Locks, SameShape
<1> QED BY <1>1, LockingCounts

LEMMA GrantCounts ==
  ASSUME NEW m, PageFramesType(m), Capacity(m), Word \in Nat, Counted(m),
         NEW a, NEW n \in Nat, RequestType(m, a),
         Refused(m, a) \/ Granted(m, a, n)
  PROVE  Counted(a.mem) /\ Sum2(a.mem) = Sum2(m)
<1>1. CASE Refused(m, a)
  BY <1>1, Zenon DEF Refused, Counted, Sum2
<1>2. CASE Granted(m, a, n)
  <2> DEFINE S == Frames(a.frame, n)
  <2>1. S \in SUBSET Nat
    BY FramesAreNat DEF RequestType
  <2>2. Locks(m, a.mem, Fresh(m, S))
    BY <1>2, Zenon DEF Granted, Locks
  <2> HIDE DEF S
  <2> QED BY <2>1, <2>2, LockingCounts
<1> QED BY <1>1, <1>2

LEMMA FreePagesCounts ==
  ASSUME NEW m, PageFramesType(m), Capacity(m), Word \in Nat, Counted(m),
         NEW S \in SUBSET Nat
  PROVE  Counted(free_pages(m, S)) /\ Sum2(free_pages(m, S)) = Sum2(m)
<1> DEFINE freed == Freed(m, S)
           bits == m.PageMap.bits
           k == Cardinality(freed)
           c == Cardinality(bits)
           m2 == free_pages(m, S)
<1>1. /\ freed = S \cap bits
      /\ bits \in SUBSET B!Indexes(m.PageMap.Size)
      /\ bits \ S \in SUBSET B!Indexes(m.PageMap.Size)
      /\ freed \in SUBSET B!Indexes(m.PageMap.Size)
  BY FreshIsIndexes
<1>2. m.TotalFreePages \in Counter /\ m.TotalUsedPages = c
  BY DEF PageFramesType, Counted
<1>3. /\ m2.PageMap.bits = bits \ S
      /\ m2.TotalFreePages = Plus(m.TotalFreePages, k)
      /\ m2.TotalUsedPages = Minus(c, k)
  BY <1>2, FreePagesEffect
<1> HIDE DEF freed, bits, m2
<1>4. /\ IsFiniteSet(bits) /\ IsFiniteSet(bits \ S)
      /\ k \in Nat /\ c \in Nat /\ c < Word
      /\ Cardinality(bits \ S) \in Nat
  BY <1>1, BitsFit
<1>5. Cardinality(bits \ S) = c - k
  <2>1. Cardinality(bits \ S) = c - Cardinality(bits \cap S)
    BY <1>4, FS_Difference
  <2>2. bits \cap S = freed
    BY <1>1
  <2> QED BY <2>1, <2>2
<1> HIDE DEF k, c
<1>6. k <= c
  BY <1>4, <1>5
<1>7. Minus(c, k) = c - k
  BY <1>4, <1>6 DEF Minus
<1>8. Plus(Plus(m.TotalFreePages, k), c - k) = Plus(m.TotalFreePages, c)
  BY <1>2, <1>4, <1>6 DEF Plus, Counter
<1> QED BY <1>2, <1>3, <1>5, <1>7, <1>8 DEF Counted, Sum2, m2
-----------------------------------------------------------------------------
(* What both loops keep.                                                   *)
Sound(m) == PageFramesType(m) /\ Capacity(m) /\ Counted(m)

LEMMA LockPagesSound ==
  ASSUME NEW m, Sound(m), Word \in Nat, NEW S \in SUBSET Nat
  PROVE  /\ Sound(lock_pages(m, S))
         /\ SameShape(m, lock_pages(m, S))
         /\ Sum2(lock_pages(m, S)) = Sum2(m)
         /\ lock_pages(m, S).PageMap.bits = m.PageMap.bits \cup Fresh(m, S)
BY LockPagesEffect, LockPagesCounts, Zenon DEF Sound, Capacity, SameShape

LEMMA FreePagesSound ==
  ASSUME NEW m, Sound(m), Word \in Nat, NEW S \in SUBSET Nat
  PROVE  /\ Sound(free_pages(m, S))
         /\ SameShape(m, free_pages(m, S))
         /\ Sum2(free_pages(m, S)) = Sum2(m)
         /\ free_pages(m, S).PageMap.bits = m.PageMap.bits \ S
BY FreePagesEffect, FreePagesCounts, Zenon DEF Sound, Capacity, SameShape

LEMMA SameShapeTransitive ==
  ASSUME NEW x, NEW y, NEW z, SameShape(x, y), SameShape(y, z)
  PROVE  SameShape(x, z)
BY DEF SameShape
-----------------------------------------------------------------------------

(***************************************************************************)
(* The inductive invariant.  Besides the typing: the bitmap is small       *)
(* enough for the counters to count its bits; while the memory map is      *)
(* scanned TotalPages bounds the segments seen, so that the longest one    *)
(* exists; a frame the bitmap calls free may be given away; and what is    *)
(* held was given away once.                                               *)
(***************************************************************************)
Sizes ==
    /\ Capacity(mem)
    /\ mem.TotalPages <= PageLimit
    /\ phase = "ready" => mem.PageMap.Size = bitmapSize(mem)

Scanned ==
    IF phase = "scan"
    THEN \A k \in DOMAIN memMap : k < entry => memMap[k].NumPages <= mem.TotalPages
    ELSE phase # "halted" =>
           \A k \in DOMAIN memMap : memMap[k].NumPages <= mem.TotalPages

NothingLockedYet == phase = "scan" => mem.PageMap.bits = {}

FreeIsUsable ==
    phase = "ready" =>
        \A p \in 1 .. mem.TotalPages :
            ~locked(mem, p) =>
                /\ p \in ConventionalFrames(memMap)
                /\ p \notin BitmapFrames(mem.PageMap) \cup KernelFrames

\* Nothing is lost: what is not kept by init_physical and not held is free.
UsableIsFree ==
    phase = "ready" /\ tables # {} =>
        \A p \in 1 .. mem.TotalPages :
            /\ p \in ConventionalFrames(memMap)
            /\ p \notin BitmapFrames(mem.PageMap) \cup KernelFrames \cup Held
            => ~locked(mem, p)

LimitIsLongest == phase = "ready" => mem.MaxFreePagesInARow = LongestSegment(memMap)

HeldIsLocked ==
    \A o \in Owner :
        /\ held[o] \subseteq Arena
        /\ held[o] \subseteq mem.PageMap.bits

HeldOnce == \A o, q \in Owner : o # q => held[o] \cap held[q] = {}

IInv ==
    /\ TypeOK
    /\ Sizes
    /\ Scanned
    /\ NothingLockedYet
    /\ CountersMatch
    /\ TablesBelowSearch
    /\ FreeIsUsable
    /\ UsableIsFree
    /\ LimitIsLongest
    /\ HeldIsLocked
    /\ HeldOnce

-----------------------------------------------------------------------------
(* The memory map.                                                         *)

LEMMA DescriptorsTyped ==
  ASSUME memMap \in MemoryMaps
  PROVE  /\ Len(memMap) \in Nat
         /\ DOMAIN memMap = 1 .. Len(memMap)
         /\ \A k \in DOMAIN memMap : memMap[k] \in Descriptors
         /\ FreeSegments(memMap) \subseteq Descriptors
         /\ ConventionalFrames(memMap) \subseteq Nat
<1>1. memMap \in Seq(Descriptors)
  BY MemoryMapsAssumption
<1>2. /\ Len(memMap) \in Nat
      /\ DOMAIN memMap = 1 .. Len(memMap)
      /\ \A k \in DOMAIN memMap : memMap[k] \in Descriptors
  BY <1>1
<1>3. FreeSegments(memMap) \subseteq Descriptors
  BY <1>2 DEF FreeSegments, Segments
<1>4. \A d \in Descriptors : FramesOf(d) \subseteq Nat
  BY DEF Descriptors, FramesOf, Frames
<1> QED BY <1>2, <1>3, <1>4 DEF ConventionalFrames

(* A non-empty set of naturals below a bound has a greatest element.       *)
LEMMA MaxIsGreatest ==
  ASSUME NEW b \in Nat, NEW S \in SUBSET (0 .. b), S # {}
  PROVE  Max(S) \in S /\ \A y \in S : Max(S) >= y
<1> DEFINE T == {b - x : x \in S}
<1>1. T \in SUBSET Nat /\ T # {}
  <2>1. \A x \in S : b - x \in Nat
    OBVIOUS
  <2>2. \A t \in T : t \in Nat
    BY <2>1
  <2>3. PICK x \in S : TRUE
    OBVIOUS
  <2>4. b - x \in T
    OBVIOUS
  <2> HIDE DEF T
  <2> QED BY <2>2, <2>4
<1>2. Min(T) \in T /\ \A y \in T : Min(T) <= y
  <2> HIDE DEF T
  <2> QED BY <1>1, MinIsLeast
<1>3. PICK x \in S : Min(T) = b - x
  BY <1>2
<1>4. \A y \in S : x >= y
  <2> SUFFICES ASSUME NEW y \in S PROVE x >= y
    OBVIOUS
  <2>1. b - y \in T
    OBVIOUS
  <2>2. b - x <= b - y
    BY <1>2, <1>3, <2>1
  <2>3. x \in Nat /\ y \in Nat
    OBVIOUS
  <2> HIDE DEF T
  <2> QED BY <2>2, <2>3
<1>5. \E z \in S : \A y \in S : z >= y
  BY <1>4
<1> QED BY <1>5 DEF Max

LEMMA LongestSegmentTyped ==
  ASSUME memMap \in MemoryMaps, NEW n \in Nat,
         \A k \in DOMAIN memMap : memMap[k].NumPages <= n
  PROVE  /\ LongestSegment(memMap) \in Nat
         /\ \A d \in FreeSegments(memMap) : d.NumPages <= LongestSegment(memMap)
<1> DEFINE S == {0} \cup {d.NumPages : d \in FreeSegments(memMap)}
<1>1. S \in SUBSET (0 .. n)
  BY DescriptorsTyped DEF FreeSegments, Segments, Descriptors
<1>2. S # {}
  OBVIOUS
<1>3. Max(S) \in S /\ \A y \in S : Max(S) >= y
  <2> HIDE DEF S
  <2> QED BY <1>1, <1>2, MaxIsGreatest
<1>4. Max(S) \in Nat
  <2>1. Max(S) \in 0 .. n
    BY <1>1, <1>3, Zenon
  <2> HIDE DEF S
  <2> QED BY <2>1
<1>5. ASSUME NEW d \in FreeSegments(memMap) PROVE d.NumPages <= Max(S)
  <2>1. d.NumPages \in S
    OBVIOUS
  <2>2. d.NumPages \in Nat
    BY DescriptorsTyped DEF Descriptors
  <2> HIDE DEF S
  <2> QED BY <1>3, <1>4, <2>1, <2>2
<1> QED BY <1>4, <1>5 DEF LongestSegment

LEMMA KeptFramesTyped ==
  ASSUME NEW b \in [Size : Nat, Buffer : Nat, bits : SUBSET Nat]
  PROVE  BitmapFrames(b) \in SUBSET Nat /\ KernelFrames \in SUBSET Nat
BY ConstantsAssumption DEF BitmapFrames, KernelFrames, Frames, B!base, B!length
-----------------------------------------------------------------------------
(* The built-in bitmap.                                                    *)
LEMMA InitialBitmapSound ==
  ASSUME IInv, phase = "scan"
  PROVE  /\ Sound(InitialBitmap(mem))
         /\ InitialBitmap(mem).TotalPages = mem.TotalPages
         /\ InitialBitmap(mem).FirstFreePage = mem.FirstFreePage
         /\ \A p \in KernelFrames :
                p < 8 * (InitialPageBitmapPageCount \div 8) =>
                    p \in InitialBitmap(mem).PageMap.bits
<1> DEFINE size == InitialPageBitmapPageCount \div 8
           zeroed == [mem EXCEPT !.PageMap = B!init(size, nullptr)]
           all == lock_pages(zeroed, Frames(0, InitialPageBitmapPageCount))
           freed == free_pages(all, ConventionalFrames(memMap))
           m2 == lock_pages(freed, KernelFrames)
<1>1. size \in Nat /\ 8 * size < Word
  BY ConstantsAssumption
<1>2. /\ PageFramesType(mem)
      /\ mem.PageMap.bits = {}
      /\ mem.TotalUsedPages = Cardinality(mem.PageMap.bits)
  BY DEF IInv, TypeOK, NothingLockedYet, CountersMatch
<1>3. /\ zeroed.PageMap = [Size |-> size, Buffer |-> 0, bits |-> {}]
      /\ zeroed.PageMap.bits = {}
      /\ zeroed.TotalPages = mem.TotalPages
      /\ zeroed.TotalFreePages = mem.TotalFreePages
      /\ zeroed.TotalUsedPages = mem.TotalUsedPages
      /\ zeroed.MaxFreePagesInARow = mem.MaxFreePagesInARow
      /\ zeroed.FirstFreePage = mem.FirstFreePage
  BY <1>2 DEF PageFramesType, B!init, nullptr
<1>4. Sound(zeroed)
  <2>1. PageFramesType(zeroed)
    <3>1. zeroed.PageMap \in [Size : Nat, Buffer : Nat, bits : SUBSET Nat]
      BY <1>1, <1>3
    <3>2. B!BitmapType(zeroed.PageMap)
      BY <1>1, <1>3 DEF B!BitmapType
    <3> QED BY <1>2, <3>1, <3>2 DEF PageFramesType
  <2>2. Capacity(zeroed)
    BY <1>1, <1>3 DEF Capacity
  <2>3. Counted(zeroed)
    <3>1. zeroed.PageMap.bits = mem.PageMap.bits
      BY <1>2, <1>3
    <3> HIDE DEF zeroed
    <3> QED BY <1>2, <1>3, <3>1, Zenon DEF Counted
  <2> QED BY <2>1, <2>2, <2>3 DEF Sound
<1>5. /\ Word \in Nat
      /\ Frames(0, InitialPageBitmapPageCount) \in SUBSET Nat
      /\ ConventionalFrames(memMap) \in SUBSET Nat
      /\ KernelFrames \in SUBSET Nat
  <2>1. InitialPageBitmapPageCount \in Nat /\ 0 \in Nat
    BY ConstantsAssumption
  <2>2. memMap \in MemoryMaps /\ mem.PageMap \in [Size : Nat, Buffer : Nat, bits : SUBSET Nat]
    BY <1>2 DEF IInv, TypeOK, PageFramesType
  <2> QED BY <2>1, <2>2, FramesAreNat, DescriptorsTyped, KeptFramesTyped,
             ConstantsAssumption
<1> HIDE DEF zeroed
<1>6. Sound(all) /\ SameShape(zeroed, all)
  BY <1>4, <1>5, LockPagesSound
<1> HIDE DEF all
<1>7. Sound(freed) /\ SameShape(all, freed)
  BY <1>5, <1>6, FreePagesSound
<1> HIDE DEF freed
<1>8. /\ Sound(m2)
      /\ SameShape(freed, m2)
      /\ m2.PageMap.bits = freed.PageMap.bits \cup Fresh(freed, KernelFrames)
  BY <1>5, <1>7, LockPagesSound
<1> HIDE DEF m2
<1>9. m2.TotalPages = mem.TotalPages /\ m2.FirstFreePage = mem.FirstFreePage
  BY <1>3, <1>6, <1>7, <1>8 DEF SameShape
<1>10. ASSUME NEW p \in KernelFrames, p < 8 * size
       PROVE  p \in m2.PageMap.bits
  <2>1. freed.PageMap.Size = size
    BY <1>3, <1>6, <1>7 DEF SameShape
  <2>2. PageFramesType(freed) /\ p \in Nat
    BY <1>5, <1>7 DEF Sound
  <2>3. p \in B!Indexes(freed.PageMap.Size)
    BY <1>1, <1>10, <2>1, <2>2 DEF B!Indexes
  <2>4. B!InBounds(freed.PageMap, p)
    BY <2>2, <2>3, InBoundsIsIndex
  <2>5. locked(freed, p) <=> p \in freed.PageMap.bits
    BY <2>2, LockedIsBit
  <2> QED BY <1>8, <1>10, <2>4, <2>5 DEF Fresh
<1>11. InitialBitmap(mem) = m2
  BY DEF InitialBitmap, m2, freed, all, zeroed
<1> HIDE DEF size
<1> QED BY <1>8, <1>9, <1>10, <1>11 DEF size

(* The final bitmap: it covers every frame up to TotalPages, what it calls *)
(* free is conventional memory that init_physical does not keep, and both  *)
(* counters together account for the frames it locked to begin with.       *)
LEMMA FinalBitmapSound ==
  ASSUME IInv, phase = "map"
  PROVE  LET m2 == FinalBitmap(mem) IN
         /\ Sound(m2)
         /\ m2.TotalPages = mem.TotalPages
         /\ m2.FirstFreePage = mem.FirstFreePage
         /\ m2.PageMap.Size = bitmapSize(mem)
         /\ Sum2(m2) = mem.TotalPages + 1
         /\ m2.MaxFreePagesInARow = LongestSegment(memMap)
         /\ \A p \in 1 .. mem.TotalPages :
                p \notin m2.PageMap.bits <=>
                    /\ p \in ConventionalFrames(memMap)
                    /\ p \notin BitmapFrames(m2.PageMap) \cup KernelFrames
<1> DEFINE size == bitmapSize(mem)
           tp == mem.TotalPages
           zeroed == [mem EXCEPT !.PageMap = B!init(size, largest.base),
                                 !.TotalUsedPages = 0]
           locked0 == lock_pages(zeroed, Frames(0, tp + 1))
           all == [locked0 EXCEPT !.TotalFreePages = 0]
           freed0 == free_pages(all, ConventionalFrames(memMap))
           freed == [freed0 EXCEPT !.MaxFreePagesInARow = LongestSegment(memMap)]
           bitmap == lock_pages(freed, BitmapFrames(freed.PageMap))
           m2 == lock_pages(bitmap, KernelFrames)
<1>1. /\ tp \in Nat
      /\ size \in Nat
      /\ 8 * size < Word
      /\ tp < 8 * size
      /\ tp + 1 < Word
  BY ConstantsAssumption DEF IInv, TypeOK, PageFramesType, Sizes, bitmapSize
<1>2. /\ PageFramesType(mem)
      /\ memMap \in MemoryMaps
      /\ largest.base \in Nat
      /\ \A k \in DOMAIN memMap : memMap[k].NumPages <= tp
  BY DEF IInv, TypeOK, Scanned
<1>3. /\ zeroed.PageMap = [Size |-> size, Buffer |-> largest.base, bits |-> {}]
      /\ zeroed.PageMap.bits = {}
      /\ zeroed.TotalPages = tp
      /\ zeroed.TotalFreePages = mem.TotalFreePages
      /\ zeroed.TotalUsedPages = 0
      /\ zeroed.MaxFreePagesInARow = mem.MaxFreePagesInARow
      /\ zeroed.FirstFreePage = mem.FirstFreePage
  BY <1>2 DEF PageFramesType, B!init
<1>4. Sound(zeroed)
  <2>1. PageFramesType(zeroed)
    <3>1. zeroed.PageMap \in [Size : Nat, Buffer : Nat, bits : SUBSET Nat]
      BY <1>1, <1>2, <1>3
    <3>2. B!BitmapType(zeroed.PageMap)
      BY <1>1, <1>3, <3>1 DEF B!BitmapType
    <3>3. 0 \in Counter
      BY <1>1, ConstantsAssumption DEF Counter
    <3> QED BY <1>2, <3>1, <3>2, <3>3 DEF PageFramesType
  <2>2. Capacity(zeroed)
    BY <1>1, <1>3 DEF Capacity
  <2>3. Counted(zeroed)
    BY <1>3, FS_EmptySet DEF Counted
  <2> QED BY <2>1, <2>2, <2>3 DEF Sound
<1>5. /\ Word \in Nat
      /\ Frames(0, tp + 1) \in SUBSET Nat
      /\ ConventionalFrames(memMap) \in SUBSET Nat
      /\ KernelFrames \in SUBSET Nat
      /\ LongestSegment(memMap) \in Nat
  <2>1. tp + 1 \in Nat /\ 0 \in Nat
    BY <1>1
  <2>2. mem.PageMap \in [Size : Nat, Buffer : Nat, bits : SUBSET Nat]
    BY <1>2 DEF PageFramesType
  <2> HIDE DEF tp
  <2> QED BY <1>1, <1>2, <2>1, <2>2, FramesAreNat, DescriptorsTyped, KeptFramesTyped,
             LongestSegmentTyped, ConstantsAssumption
<1> HIDE DEF zeroed, tp, size
<1>6. /\ Sound(locked0)
      /\ SameShape(zeroed, locked0)
      /\ locked0.PageMap.bits = zeroed.PageMap.bits \cup Fresh(zeroed, Frames(0, tp + 1))
  BY <1>4, <1>5, LockPagesSound
<1>7. locked0.PageMap.bits = 0 .. tp /\ locked0.TotalUsedPages = tp + 1
  <2>1. \A p \in Frames(0, tp + 1) : B!InBounds(zeroed.PageMap, p)
    <3>1. PageFramesType(zeroed)
      BY <1>4 DEF Sound
    <3>2. \A p \in Frames(0, tp + 1) : p \in B!Indexes(zeroed.PageMap.Size)
      BY <1>1, <1>3 DEF Frames, B!Indexes
    <3> QED BY <1>5, <3>1, <3>2, InBoundsIsIndex
  <2>2. Fresh(zeroed, Frames(0, tp + 1)) = Frames(0, tp + 1)
    BY <1>3, <2>1 DEF Fresh, locked, B!get
  <2>3. Frames(0, tp + 1) = 0 .. tp
    BY <1>1 DEF Frames
  <2>4. Cardinality(0 .. tp) = tp + 1
    BY <1>1, FS_Interval
  <2> HIDE DEF locked0
  <2>5. locked0.PageMap.bits = 0 .. tp
    <3>1. locked0.PageMap.bits = {} \cup (0 .. tp)
      BY <1>3, <1>6, <2>2, <2>3, Zenon
    <3> QED BY <3>1
  <2> QED BY <1>6, <2>4, <2>5 DEF Sound, Counted
<1> HIDE DEF locked0
<1>8. /\ all.PageMap = locked0.PageMap
      /\ all.TotalPages = locked0.TotalPages
      /\ all.TotalFreePages = 0
      /\ all.TotalUsedPages = tp + 1
      /\ all.MaxFreePagesInARow = locked0.MaxFreePagesInARow
      /\ all.FirstFreePage = locked0.FirstFreePage
  BY <1>6, <1>7 DEF Sound, PageFramesType
<1>9. Sound(all) /\ Sum2(all) = tp + 1
  <2>1. PageFramesType(all)
    <3>1. 0 \in Counter
      BY <1>1, ConstantsAssumption DEF Counter
    <3> QED BY <1>6, <3>1 DEF Sound, PageFramesType
  <2>2. Capacity(all) /\ Counted(all)
    <3> HIDE DEF all
    <3> QED BY <1>6, <1>7, <1>8 DEF Sound, Capacity, Counted
  <2>3. Plus(0, tp + 1) = tp + 1
    BY <1>1 DEF Plus
  <2> HIDE DEF all
  <2> QED BY <1>8, <2>1, <2>2, <2>3 DEF Sound, Sum2
<1> HIDE DEF all
<1>10. /\ Sound(freed0)
       /\ SameShape(all, freed0)
       /\ Sum2(freed0) = Sum2(all)
       /\ freed0.PageMap.bits = all.PageMap.bits \ ConventionalFrames(memMap)
  BY <1>5, <1>9, FreePagesSound
<1> HIDE DEF freed0
<1>11. /\ freed.PageMap = freed0.PageMap
       /\ freed.TotalPages = freed0.TotalPages
       /\ freed.TotalFreePages = freed0.TotalFreePages
       /\ freed.TotalUsedPages = freed0.TotalUsedPages
       /\ freed.FirstFreePage = freed0.FirstFreePage
       /\ freed.MaxFreePagesInARow = LongestSegment(memMap)
  BY <1>10 DEF Sound, PageFramesType
<1>12. Sound(freed) /\ Sum2(freed) = tp + 1
  <2>1. PageFramesType(freed)
    BY <1>5, <1>10 DEF Sound, PageFramesType
  <2> HIDE DEF freed
  <2> QED BY <1>9, <1>10, <1>11, <2>1, Zenon DEF Sound, Capacity, Counted, Sum2
<1>13. BitmapFrames(freed.PageMap) \in SUBSET Nat
  BY <1>12, KeptFramesTyped DEF Sound, PageFramesType
<1> HIDE DEF freed
<1>14. /\ Sound(bitmap)
       /\ SameShape(freed, bitmap)
       /\ Sum2(bitmap) = Sum2(freed)
       /\ bitmap.PageMap.bits =
             freed.PageMap.bits \cup Fresh(freed, BitmapFrames(freed.PageMap))
  BY <1>5, <1>12, <1>13, LockPagesSound
<1> HIDE DEF bitmap
<1>15. /\ Sound(m2)
       /\ SameShape(bitmap, m2)
       /\ Sum2(m2) = Sum2(bitmap)
       /\ m2.PageMap.bits = bitmap.PageMap.bits \cup Fresh(bitmap, KernelFrames)
  BY <1>5, <1>14, LockPagesSound
<1> HIDE DEF m2
<1>16. FinalBitmap(mem) = m2
  BY DEF FinalBitmap, m2, bitmap, freed, freed0, all, locked0, zeroed, tp, size
<1>17. /\ m2.TotalPages = tp
       /\ m2.FirstFreePage = mem.FirstFreePage
       /\ m2.PageMap.Size = size
       /\ Sum2(m2) = tp + 1
       /\ m2.MaxFreePagesInARow = LongestSegment(memMap)
  BY <1>3, <1>6, <1>8, <1>10, <1>11, <1>12, <1>14, <1>15 DEF SameShape
<1>18. BitmapFrames(m2.PageMap) = BitmapFrames(freed.PageMap)
  <2>1. /\ m2.PageMap.Size = freed.PageMap.Size
        /\ m2.PageMap.Buffer = freed.PageMap.Buffer
    BY <1>14, <1>15 DEF SameShape
  <2> QED BY <2>1, Zenon DEF BitmapFrames, B!base, B!length
<1>19. ASSUME NEW p \in 1 .. tp, p \notin m2.PageMap.bits
       PROVE  /\ p \in ConventionalFrames(memMap)
              /\ p \notin BitmapFrames(m2.PageMap) \cup KernelFrames
  <2>1. /\ p \notin freed.PageMap.bits
        /\ p \notin Fresh(freed, BitmapFrames(freed.PageMap))
        /\ p \notin bitmap.PageMap.bits
        /\ p \notin Fresh(bitmap, KernelFrames)
    BY <1>14, <1>15, <1>19
  <2>2. p \in Nat /\ p \in B!Indexes(size)
    BY <1>1 DEF B!Indexes
  <2>3. freed.PageMap.Size = size /\ bitmap.PageMap.Size = size
    BY <1>3, <1>6, <1>8, <1>10, <1>11, <1>14 DEF SameShape
  <2>4. PageFramesType(freed) /\ PageFramesType(bitmap)
    BY <1>12, <1>14 DEF Sound
  <2>5. B!InBounds(freed.PageMap, p) /\ B!InBounds(bitmap.PageMap, p)
    BY <2>2, <2>3, <2>4, InBoundsIsIndex
  <2>6. ~locked(freed, p) /\ ~locked(bitmap, p)
    BY <2>1, <2>2, <2>4, LockedIsBit
  <2>7. p \notin BitmapFrames(freed.PageMap) /\ p \notin KernelFrames
    BY <2>1, <2>5, <2>6 DEF Fresh
  <2>8. p \in 0 .. tp
    BY <1>1
  <2>9. p \in ConventionalFrames(memMap)
    BY <1>7, <1>8, <1>10, <1>11, <2>1, <2>8
  <2> QED BY <1>18, <2>7, <2>9
<1>20. ASSUME NEW p \in 1 .. tp,
              p \in ConventionalFrames(memMap),
              p \notin BitmapFrames(m2.PageMap) \cup KernelFrames
       PROVE  p \notin m2.PageMap.bits
  <2>1. p \notin freed.PageMap.bits
    BY <1>10, <1>11, <1>20
  <2>2. p \notin Fresh(freed, BitmapFrames(freed.PageMap)) /\ p \notin Fresh(bitmap, KernelFrames)
    BY <1>18, <1>20 DEF Fresh
  <2> QED BY <1>14, <1>15, <2>1, <2>2
<1>21. /\ tp = mem.TotalPages
       /\ size = bitmapSize(mem)
  BY DEF tp, size
<1> QED BY <1>15, <1>16, <1>17, <1>19, <1>20, <1>21
-----------------------------------------------------------------------------
(* The steps of the boot.                                                  *)

LEMMA InvariantInit ==
  ASSUME Init PROVE IInv
<1>1. /\ Word \in Nat /\ 0 < Word /\ 0 \in Counter
      /\ PageLimit \in Nat
  BY ConstantsAssumption DEF Counter
<1>2. /\ mem.PageMap = [Size |-> 0, Buffer |-> 0, bits |-> {}]
      /\ mem.PageMap.bits = {}
      /\ mem.TotalPages = 0 /\ mem.TotalUsedPages = 0 /\ mem.TotalFreePages = 0
  BY DEF Init, PowerOn, B!init
<1>3. PageFramesType(mem)
  <2>1. B!BitmapType(mem.PageMap)
    BY <1>2 DEF B!BitmapType
  <2> QED BY <1>1, <1>2, <2>1 DEF Init, PowerOn, PageFramesType, B!init
<1>4. TypeOK
  <2>1. /\ phase \in {"scan", "map", "ready", "halted"}
        /\ memMap \in MemoryMaps
        /\ entry \in Nat \ {0}
        /\ largest \in [base : Nat, count : Nat]
        /\ tables \subseteq Nat
        /\ devices \subseteq Nat
        /\ held \in [Owner -> SUBSET Nat]
    BY DEF Init, nullptr
  <2>2. panicked \in BOOLEAN
    BY DEF Init
  <2> QED BY <1>3, <2>1, <2>2, Zenon DEF TypeOK
<1>5. Sizes
  BY <1>1, <1>2 DEF Init, Sizes, Capacity
<1>6. CountersMatch
  BY <1>2, FS_EmptySet DEF Init, CountersMatch
<1>7. Scanned
  <2>1. Len(memMap) \in Nat /\ DOMAIN memMap = 1 .. Len(memMap)
    BY <1>4, DescriptorsTyped DEF TypeOK
  <2> QED BY <2>1 DEF Init, Scanned
<1>8. /\ HeldIsLocked /\ HeldOnce /\ TablesBelowSearch /\ FreeIsUsable
      /\ UsableIsFree /\ LimitIsLongest /\ NothingLockedYet
  BY <1>2 DEF Init, HeldIsLocked, HeldOnce, TablesBelowSearch, FreeIsUsable,
              UsableIsFree, LimitIsLongest, NothingLockedYet
<1> QED BY <1>4, <1>5, <1>6, <1>7, <1>8 DEF IInv

(* Before init_physical is done nobody holds a frame.                      *)
LEMMA NothingHeldBefore ==
  ASSUME IInv, phase # "ready"
  PROVE  \A o \in Owner : held[o] = {}
BY DEF IInv, HeldIsLocked, Arena

LEMMA ScanDescriptorInv ==
  ASSUME IInv, ScanDescriptor
  PROVE  IInv'
<1> DEFINE desc == memMap[entry]
<1>1. /\ phase = "scan" /\ phase' = "scan"
      /\ entry \in Nat \ {0} /\ entry' = entry + 1
      /\ entry \in DOMAIN memMap
      /\ desc \in Descriptors
      /\ memMap' = memMap
      /\ PageFramesType(mem)
      /\ mem.TotalPages + desc.NumPages <= PageLimit
  <2>1. memMap \in MemoryMaps
    BY DEF IInv, TypeOK
  <2> QED BY <2>1, DescriptorsTyped DEF IInv, TypeOK, ScanDescriptor
<1>2. desc.NumPages \in Nat /\ desc.PhysicalAddress \in Nat
  BY <1>1 DEF Descriptors
<1>3. /\ mem'.PageMap = mem.PageMap
      /\ mem'.TotalPages = mem.TotalPages + desc.NumPages
      /\ mem'.TotalUsedPages = mem.TotalUsedPages
      /\ mem'.TotalFreePages = mem.TotalFreePages
      /\ mem'.FirstFreePage = mem.FirstFreePage
  BY <1>1 DEF ScanDescriptor, PageFramesType
<1>4. PageFramesType(mem')
  BY <1>1, <1>2 DEF ScanDescriptor, PageFramesType
<1>5. TypeOK'
  <2>1. largest' \in [base : Nat, count : Nat]
    BY <1>2 DEF ScanDescriptor, IInv, TypeOK
  <2> QED BY <1>1, <1>4, <2>1 DEF ScanDescriptor, IInv, TypeOK
<1>6. Sizes'
  BY <1>1, <1>3 DEF IInv, Sizes, Capacity
<1>7. Scanned'
  <2>1. \A k \in DOMAIN memMap : memMap[k].NumPages \in Nat
    BY DescriptorsTyped DEF IInv, TypeOK, Descriptors
  <2>2. \A k \in DOMAIN memMap : k \in Nat
    BY DescriptorsTyped DEF IInv, TypeOK
  <2>3. mem.TotalPages \in Nat
    BY <1>1 DEF PageFramesType
  <2>4. \A k \in DOMAIN memMap : k < entry => memMap[k].NumPages <= mem.TotalPages
    BY <1>1 DEF IInv, Scanned
  <2>5. \A k \in DOMAIN memMap : k < entry + 1 => k < entry \/ k = entry
    BY <1>1, <2>2
  <2>6. \A k \in DOMAIN memMap :
           k < entry + 1 => memMap[k].NumPages <= mem.TotalPages + desc.NumPages
    BY <1>2, <2>1, <2>3, <2>4, <2>5
  <2> QED BY <1>1, <1>3, <2>6 DEF Scanned
<1>8. CountersMatch'
  BY <1>1, <1>3 DEF IInv, CountersMatch
<1>9. /\ TablesBelowSearch' /\ FreeIsUsable' /\ UsableIsFree' /\ LimitIsLongest'
      /\ NothingLockedYet'
  BY <1>1, <1>3 DEF ScanDescriptor, IInv, TablesBelowSearch, FreeIsUsable,
                    UsableIsFree, LimitIsLongest, NothingLockedYet
<1>10. HeldIsLocked' /\ HeldOnce'
  BY <1>1, NothingHeldBefore DEF ScanDescriptor, HeldIsLocked, HeldOnce
<1> QED BY <1>5, <1>6, <1>7, <1>8, <1>9, <1>10 DEF IInv

LEMMA HaltWithoutSegmentInv ==
  ASSUME IInv, HaltWithoutSegment
  PROVE  IInv'
<1>1. /\ phase = "scan" /\ phase' = "halted"
      /\ UNCHANGED <<memMap, entry, largest, mem, tables, devices, held, panicked>>
  BY DEF HaltWithoutSegment
<1>2. TypeOK' /\ Sizes' /\ Scanned'
  BY <1>1 DEF IInv, TypeOK, Sizes, Scanned
<1>3. /\ CountersMatch' /\ TablesBelowSearch' /\ FreeIsUsable' /\ UsableIsFree'
      /\ LimitIsLongest' /\ NothingLockedYet'
  BY <1>1 DEF IInv, CountersMatch, TablesBelowSearch, FreeIsUsable, UsableIsFree,
              LimitIsLongest, NothingLockedYet
<1>4. HeldIsLocked' /\ HeldOnce'
  BY <1>1, NothingHeldBefore DEF HeldIsLocked, HeldOnce
<1> QED BY <1>2, <1>3, <1>4 DEF IInv

LEMMA UseInitialBitmapInv ==
  ASSUME IInv, UseInitialBitmap
  PROVE  IInv'
<1>1. /\ phase = "scan" /\ phase' = "map" /\ entry' = 1
      /\ entry > Len(memMap)
      /\ mem' = InitialBitmap(mem)
      /\ UNCHANGED <<memMap, largest, tables, devices, held, panicked>>
  BY DEF UseInitialBitmap
<1>2. /\ Sound(mem')
      /\ mem'.TotalPages = mem.TotalPages
      /\ mem'.FirstFreePage = mem.FirstFreePage
  BY <1>1, InitialBitmapSound
<1>3. TypeOK'
  BY <1>1, <1>2 DEF IInv, TypeOK, Sound
<1>4. Sizes'
  BY <1>1, <1>2 DEF IInv, Sizes, Sound
<1>5. Scanned'
  <2>1. /\ Len(memMap) \in Nat /\ entry \in Nat
        /\ DOMAIN memMap = 1 .. Len(memMap)
    BY DescriptorsTyped DEF IInv, TypeOK
  <2>2. \A k \in DOMAIN memMap : k < entry
    BY <1>1, <2>1
  <2> QED BY <1>1, <1>2, <2>2 DEF IInv, Scanned
<1>6. /\ CountersMatch' /\ TablesBelowSearch' /\ FreeIsUsable' /\ UsableIsFree'
      /\ LimitIsLongest' /\ NothingLockedYet'
  BY <1>1, <1>2 DEF IInv, Sound, Counted, CountersMatch, TablesBelowSearch,
                    FreeIsUsable, UsableIsFree, LimitIsLongest, NothingLockedYet
<1>7. HeldIsLocked' /\ HeldOnce'
  BY <1>1, NothingHeldBefore DEF HeldIsLocked, HeldOnce
<1> QED BY <1>3, <1>4, <1>5, <1>6, <1>7 DEF IInv

LEMMA MapTableInv ==
  ASSUME IInv, MapTable
  PROVE  IInv'
<1> DEFINE table == request_page(mem)
<1>1. /\ phase = "map" /\ phase' = "map" /\ entry' = entry + 1
      /\ mem' = table.mem
      /\ tables' = tables \cup {table.frame}
      /\ panicked' = (panicked \/ table.panics)
      /\ UNCHANGED <<memMap, largest, devices, held>>
  BY DEF MapTable
<1>2. /\ PageFramesType(mem) /\ Capacity(mem) /\ Counted(mem)
      /\ Word \in Nat /\ 1 < Word
  BY ConstantsAssumption DEF IInv, TypeOK, Sizes, CountersMatch, Counted
<1>3. mem.TotalPages \in Nat /\ mem.TotalPages > 0
  <2>1. entry * EntriesPerTable \in Nat
    BY ConstantsAssumption DEF IInv, TypeOK
  <2>2. mem.TotalPages \in Nat
    BY <1>2 DEF PageFramesType
  <2> QED BY <2>1, <2>2 DEF MapTable, MappingTable
<1>4. /\ RequestType(mem, table)
      /\ \/ /\ Refused(mem, table)
            /\ table.frame = nullptr
            /\ table.mem.FirstFreePage >= mem.TotalPages
         \/ /\ Granted(mem, table, 1)
            /\ table.mem.FirstFreePage = table.frame + 1
  BY <1>2, RequestPage1
<1>5. Counted(table.mem)
  <2> HIDE DEF table
  <2> QED BY <1>2, <1>4, GrantCounts, 1 \in Nat
<1> HIDE DEF table
<1>6. /\ PageFramesType(mem')
      /\ mem'.TotalPages = mem.TotalPages
      /\ mem'.PageMap.Size = mem.PageMap.Size
      /\ mem'.FirstFreePage \in Nat
      /\ mem.FirstFreePage \in Nat
      /\ mem'.FirstFreePage >= mem.FirstFreePage
      /\ table.frame \in Nat
  BY <1>1, <1>2, <1>4 DEF RequestType, Refused, Granted, PageFramesType
<1>7. table.frame < mem'.FirstFreePage
  BY <1>1, <1>3, <1>4, <1>6 DEF nullptr
<1>8. TypeOK'
  <2>1. panicked' \in BOOLEAN
    BY <1>1, <1>4, Zenon DEF IInv, TypeOK, RequestType
  <2>2. /\ phase' \in {"scan", "map", "ready", "halted"}
        /\ memMap' \in MemoryMaps
        /\ entry' \in Nat \ {0}
        /\ largest' \in [base : Nat, count : Nat]
        /\ tables' \subseteq Nat
        /\ devices' \subseteq Nat
        /\ held' \in [Owner -> SUBSET Nat]
    <3>1. entry \in Nat /\ tables \subseteq Nat
      BY DEF IInv, TypeOK
    <3>2. entry' \in Nat \ {0} /\ tables' \subseteq Nat
      <4>1. entry' = entry + 1 /\ tables' = tables \cup {table.frame}
        BY <1>1, Zenon
      <4>2. table.frame \in Nat
        BY <1>6
      <4>3. entry' \in Nat \ {0}
        BY <3>1, <4>1
      <4>4. tables' \subseteq Nat
        BY <3>1, <4>1, <4>2, Zenon
      <4> QED BY <4>3, <4>4
    <3>3. phase' \in {"scan", "map", "ready", "halted"}
      BY <1>1
    <3> QED BY <1>1, <3>2, <3>3, Zenon DEF IInv, TypeOK
  <2> QED BY <1>6, <2>1, <2>2, Zenon DEF TypeOK
<1>9. Sizes' /\ Scanned'
  BY <1>1, <1>6 DEF IInv, Sizes, Scanned, Capacity
<1>10. CountersMatch'
  BY <1>1, <1>5 DEF CountersMatch, Counted
<1>11. TablesBelowSearch'
  <2>1. \A p \in tables : p \in Nat /\ p < mem.FirstFreePage
    BY DEF IInv, TypeOK, TablesBelowSearch
  <2> QED BY <1>1, <1>6, <1>7, <2>1 DEF TablesBelowSearch
<1>12. FreeIsUsable' /\ UsableIsFree' /\ LimitIsLongest' /\ NothingLockedYet'
  BY <1>1 DEF FreeIsUsable, UsableIsFree, LimitIsLongest, NothingLockedYet
<1>13. HeldIsLocked' /\ HeldOnce'
  BY <1>1, NothingHeldBefore DEF HeldIsLocked, HeldOnce
<1> QED BY <1>8, <1>9, <1>10, <1>11, <1>12, <1>13 DEF IInv

LEMMA UseFinalBitmapInv ==
  ASSUME IInv, UseFinalBitmap
  PROVE  IInv'
<1>1. /\ phase = "map" /\ phase' = "ready"
      /\ mem' = FinalBitmap(mem)
      /\ UNCHANGED <<memMap, entry, largest, tables, devices, held, panicked>>
  BY DEF UseFinalBitmap
<1>2. /\ Sound(mem')
      /\ mem'.TotalPages = mem.TotalPages
      /\ mem'.FirstFreePage = mem.FirstFreePage
      /\ mem'.PageMap.Size = bitmapSize(mem)
      /\ Sum2(mem') = mem.TotalPages + 1
      /\ mem'.MaxFreePagesInARow = LongestSegment(memMap)
      /\ \A p \in 1 .. mem.TotalPages :
             p \notin mem'.PageMap.bits <=>
                 /\ p \in ConventionalFrames(memMap)
                 /\ p \notin BitmapFrames(mem'.PageMap) \cup KernelFrames
  BY <1>1, FinalBitmapSound
<1>3. TypeOK'
  BY <1>1, <1>2 DEF IInv, TypeOK, Sound
<1>4. Sizes' /\ Scanned'
  BY <1>1, <1>2 DEF IInv, Sizes, Scanned, Sound, bitmapSize
<1>5. CountersMatch'
  BY <1>1, <1>2 DEF Sound, Counted, Sum2, CountersMatch
<1>6. TablesBelowSearch' /\ NothingLockedYet'
  BY <1>1, <1>2 DEF IInv, TablesBelowSearch, NothingLockedYet
<1>7. FreeIsUsable' /\ UsableIsFree'
  <2>1. \A p \in 1 .. mem.TotalPages : ~locked(mem', p) <=> p \notin mem'.PageMap.bits
    <3>1. PageFramesType(mem')
      BY <1>2 DEF Sound
    <3>2. mem.TotalPages \in Nat
      BY DEF IInv, TypeOK, PageFramesType
    <3> QED BY <3>1, <3>2, LockedIsBit
  <2>2. ConventionalFrames(memMap)' = ConventionalFrames(memMap)
    BY <1>1 DEF ConventionalFrames, FreeSegments, Segments
  <2> QED BY <1>1, <1>2, <2>1, <2>2 DEF FreeIsUsable, UsableIsFree
<1>8. HeldIsLocked' /\ HeldOnce'
  BY <1>1, NothingHeldBefore DEF HeldIsLocked, HeldOnce
<1>9. LimitIsLongest'
  BY <1>1, <1>2 DEF LimitIsLongest, LongestSegment, FreeSegments, Segments
<1> QED BY <1>3, <1>4, <1>5, <1>6, <1>7, <1>8, <1>9 DEF IInv
-----------------------------------------------------------------------------
(* The calls of the rest of the kernel: what they have in common.          *)

RunKeeps ==
    /\ phase' = "ready"
    /\ UNCHANGED <<memMap, entry, largest, tables>>
    /\ mem'.PageMap.Size = mem.PageMap.Size
    /\ mem'.PageMap.Buffer = mem.PageMap.Buffer
    /\ mem'.TotalPages = mem.TotalPages
    /\ mem'.MaxFreePagesInARow = mem.MaxFreePagesInARow
    /\ mem'.FirstFreePage >= mem.FirstFreePage

LEMMA ArenaStays ==
  ASSUME IInv, phase = "ready", RunKeeps
  PROVE  /\ Arena' = Arena
         /\ BitmapFrames(mem'.PageMap) = BitmapFrames(mem.PageMap)
<1>1. BitmapFrames(mem'.PageMap) = BitmapFrames(mem.PageMap)
  BY DEF RunKeeps, BitmapFrames, B!base, B!length
<1>2. ConventionalFrames(memMap)' = ConventionalFrames(memMap)
  BY DEF RunKeeps, ConventionalFrames, FreeSegments, Segments
<1> QED BY <1>1, <1>2 DEF RunKeeps, Arena

LEMMA RunStep ==
  ASSUME IInv, phase = "ready", RunKeeps,
         PageFramesType(mem'), Counted(mem'), Sum2(mem') = Sum2(mem),
         devices' \subseteq Nat, panicked' \in BOOLEAN,
         held' \in [Owner -> SUBSET Nat],
         FreeIsUsable', UsableIsFree', HeldIsLocked', HeldOnce'
  PROVE  IInv'
<1>1. phase' = "ready" /\ UNCHANGED <<memMap, entry, largest, tables>>
  BY DEF RunKeeps
<1>2. TypeOK'
  BY <1>1, Zenon DEF IInv, TypeOK
<1>3. Sizes' /\ Scanned'
  BY <1>1 DEF RunKeeps, IInv, Sizes, Scanned, Capacity, bitmapSize
<1>4. CountersMatch'
  BY <1>1 DEF RunKeeps, IInv, CountersMatch, Counted, Sum2
<1>5. TablesBelowSearch'
  <2>1. \A p \in tables : p \in Nat /\ p < mem.FirstFreePage
    BY DEF IInv, TypeOK, TablesBelowSearch
  <2>2. mem.FirstFreePage \in Nat /\ mem'.FirstFreePage \in Nat
    BY DEF IInv, TypeOK, PageFramesType
  <2> QED BY <1>1, <2>1, <2>2 DEF RunKeeps, TablesBelowSearch
<1>6. NothingLockedYet' /\ LimitIsLongest'
  BY <1>1 DEF IInv, RunKeeps, NothingLockedYet, LimitIsLongest, LongestSegment,
              FreeSegments, Segments
<1> QED BY <1>2, <1>3, <1>4, <1>5, <1>6 DEF IInv

(* A call that changes the bits loses no frame, if each usable frame it    *)
(* locks is held afterwards and each one it takes from a holder is free.   *)
LEMMA NothingLost ==
  ASSUME IInv, phase = "ready", RunKeeps, PageFramesType(mem'),
         \A p \in 1 .. mem.TotalPages :
             /\ tables # {}
             /\ p \in ConventionalFrames(memMap)
             /\ p \in mem'.PageMap.bits
             => p \in mem.PageMap.bits \/ p \in Held',
         Held \cap mem'.PageMap.bits \subseteq Held'
  PROVE  UsableIsFree'
<1>1. /\ PageFramesType(mem)
      /\ mem.TotalPages \in Nat
      /\ mem'.TotalPages = mem.TotalPages
      /\ memMap' = memMap /\ tables' = tables
  BY DEF IInv, TypeOK, PageFramesType, RunKeeps
<1>2. ConventionalFrames(memMap)' = ConventionalFrames(memMap) /\ KernelFrames' = KernelFrames
  BY <1>1 DEF ConventionalFrames, FreeSegments, Segments
<1>3. ASSUME NEW p \in 1 .. mem.TotalPages,
             tables # {},
             p \in ConventionalFrames(memMap),
             p \notin BitmapFrames(mem.PageMap) \cup KernelFrames \cup Held'
      PROVE  ~locked(mem', p)
  <2>1. p \in Nat
    BY <1>1
  <2>2. p \notin Held => p \notin mem.PageMap.bits
    BY <1>1, <1>3, <2>1, LockedIsBit DEF IInv, UsableIsFree
  <2>3. p \notin mem'.PageMap.bits
    BY <1>3, <2>2
  <2> QED BY <2>1, <2>3, LockedIsBit
<1> QED BY <1>1, <1>2, <1>3, ArenaStays DEF UsableIsFree

(* Locking more frames calls none of them free.                            *)
LEMMA LockingKeepsUsable ==
  ASSUME IInv, phase = "ready", RunKeeps, PageFramesType(mem'),
         mem.PageMap.bits \subseteq mem'.PageMap.bits
  PROVE  FreeIsUsable'
<1>1. /\ PageFramesType(mem)
      /\ mem.TotalPages \in Nat
      /\ mem'.TotalPages = mem.TotalPages
      /\ memMap' = memMap
  BY DEF IInv, TypeOK, PageFramesType, RunKeeps
<1>2. \A p \in 1 .. mem.TotalPages : ~locked(mem', p) => ~locked(mem, p)
  BY <1>1, LockedIsBit
<1>3. ConventionalFrames(memMap)' = ConventionalFrames(memMap)
  BY <1>1 DEF ConventionalFrames, FreeSegments, Segments
<1> QED BY <1>1, <1>2, <1>3, ArenaStays DEF IInv, FreeIsUsable

LEMMA SoundNow ==
  ASSUME IInv
  PROVE  /\ Sound(mem)
         /\ Word \in Nat /\ 1 < Word
BY ConstantsAssumption DEF IInv, TypeOK, Sizes, CountersMatch, Sound, Counted

LEMMA LockDeviceInv ==
  ASSUME IInv, NEW S \in Devices, LockDevice(S)
  PROVE  IInv' /\ Arena' = Arena /\ held' = held
<1>1. /\ phase = "ready"
      /\ mem' = lock_pages(mem, S)
      /\ devices' = devices \cup S
      /\ UNCHANGED <<phase, memMap, entry, largest, tables, held, panicked>>
  BY DEF LockDevice
<1>2. S \in SUBSET Nat
  BY MemoryMapsAssumption
<1>3. /\ Sound(mem')
      /\ SameShape(mem, mem')
      /\ Sum2(mem') = Sum2(mem)
      /\ mem.PageMap.bits \subseteq mem'.PageMap.bits
  BY <1>1, <1>2, SoundNow, LockPagesSound
<1>4. mem.FirstFreePage \in Nat
  BY DEF IInv, TypeOK, PageFramesType
<1>5. RunKeeps
  BY <1>1, <1>3, <1>4 DEF RunKeeps, SameShape
<1>6. PageFramesType(mem') /\ Counted(mem')
  BY <1>3 DEF Sound
<1>7. FreeIsUsable'
  BY <1>1, <1>3, <1>5, <1>6, LockingKeepsUsable
<1>8. HeldIsLocked' /\ HeldOnce'
  BY <1>1, <1>3, <1>5, ArenaStays DEF IInv, HeldIsLocked, HeldOnce
<1>9. /\ devices' \subseteq Nat
      /\ panicked' \in BOOLEAN
      /\ held' \in [Owner -> SUBSET Nat]
  BY <1>1, <1>2, Zenon DEF IInv, TypeOK
<1>10. UsableIsFree'
  <2>1. Held' = Held
    BY <1>1 DEF Held
  <2>2. S \cap ConventionalFrames(memMap) = {}
    BY DEF LockDevice
  <2>3. mem'.PageMap.bits \subseteq mem.PageMap.bits \cup S
    BY <1>1, <1>2, SoundNow, LockPagesSound DEF Fresh
  <2> QED BY <1>1, <1>5, <1>6, <2>1, <2>2, <2>3, NothingLost
<1> QED BY <1>1, <1>3, <1>5, <1>6, <1>7, <1>8, <1>9, <1>10, RunStep, ArenaStays

LEMMA FreePagesInv ==
  ASSUME IInv, NEW o \in Owner, NEW S \in SUBSET held[o], FreePages(o, S)
  PROVE  IInv' /\ Arena' = Arena
<1>1. /\ phase = "ready"
      /\ mem' = free_pages(mem, S)
      /\ held' = [held EXCEPT ![o] = @ \ S]
      /\ UNCHANGED <<phase, memMap, entry, largest, tables, devices, panicked>>
  BY DEF FreePages
<1>2. /\ held \in [Owner -> SUBSET Nat]
      /\ held[o] \subseteq Nat
      /\ S \in SUBSET Nat
      /\ mem.FirstFreePage \in Nat
      /\ mem.TotalPages \in Nat
      /\ PageFramesType(mem)
  BY DEF IInv, TypeOK, PageFramesType
<1>3. /\ Sound(mem')
      /\ SameShape(mem, mem')
      /\ Sum2(mem') = Sum2(mem)
      /\ mem'.PageMap.bits = mem.PageMap.bits \ S
  BY <1>1, <1>2, SoundNow, FreePagesSound
<1>4. RunKeeps
  BY <1>1, <1>2, <1>3 DEF RunKeeps, SameShape
<1>5. PageFramesType(mem') /\ Counted(mem')
  BY <1>3 DEF Sound
<1>6. \A q \in Owner : held'[q] = IF q = o THEN held[o] \ S ELSE held[q]
  BY <1>1, <1>2
<1>7. FreeIsUsable'
  <2>1. S \subseteq Arena
    BY DEF IInv, HeldIsLocked
  <2>2. ConventionalFrames(memMap)' = ConventionalFrames(memMap)
    BY <1>1 DEF ConventionalFrames, FreeSegments, Segments
  <2>3. mem'.TotalPages = mem.TotalPages
    BY <1>3 DEF SameShape
  <2>4. ASSUME NEW p \in 1 .. mem.TotalPages, ~locked(mem', p)
        PROVE  /\ p \in ConventionalFrames(memMap)
               /\ p \notin BitmapFrames(mem.PageMap) \cup KernelFrames
    <3>1. CASE p \in S
      BY <1>1, <2>1, <3>1 DEF Arena
    <3>2. CASE p \notin S
      <4>1. p \in Nat
        BY <1>2
      <4>2. ~locked(mem, p)
        BY <1>2, <1>3, <1>5, <2>4, <3>2, <4>1, LockedIsBit
      <4> QED BY <1>1, <4>2 DEF IInv, FreeIsUsable
    <3> QED BY <3>1, <3>2
  <2> QED BY <1>1, <1>4, <2>2, <2>3, <2>4, ArenaStays DEF FreeIsUsable
<1>8. HeldIsLocked'
  <2>1. \A q \in Owner : held[q] \subseteq Arena /\ held[q] \subseteq mem.PageMap.bits
    BY DEF IInv, HeldIsLocked
  <2>2. \A q \in Owner : q # o => held[q] \cap S = {}
    BY DEF IInv, HeldOnce
  <2>3. \A q \in Owner : held'[q] \subseteq held[q] /\ held'[q] \cap S = {}
    BY <1>6, <2>2
  <2>4. \A q \in Owner : held'[q] \subseteq mem'.PageMap.bits
    BY <1>3, <2>1, <2>3
  <2> QED BY <1>1, <1>4, <2>1, <2>3, <2>4, ArenaStays DEF HeldIsLocked
<1>9. HeldOnce'
  BY <1>6 DEF IInv, HeldOnce
<1>10. /\ devices' \subseteq Nat
       /\ panicked' \in BOOLEAN
       /\ held' \in [Owner -> SUBSET Nat]
  <2>1. held' \in [Owner -> SUBSET Nat]
    BY <1>1, <1>2
  <2> QED BY <1>1, <2>1, Zenon DEF IInv, TypeOK
<1>11. UsableIsFree'
  <2>1. Held \ S \subseteq Held'
    BY <1>6 DEF Held
  <2> QED BY <1>1, <1>3, <1>4, <1>5, <2>1, NothingLost
<1> QED BY <1>1, <1>3, <1>4, <1>5, <1>7, <1>8, <1>9, <1>10, <1>11, RunStep, ArenaStays
-----------------------------------------------------------------------------
(* A grant: the frames handed out were free, so they lie in the arena and  *)
(* in nobody's hands; afterwards they are locked and in the hands of o.    *)
Served(a, n) ==
    /\ RequestType(mem, a)
    /\ \/ Refused(mem, a) /\ a.frame = nullptr
       \/ /\ Granted(mem, a, n)
          /\ ~a.panics
          /\ \/ \A j \in Frames(a.frame, n) : j < mem.PageMap.Size
             \/ \A j \in Frames(a.frame, n) : j < mem.TotalPages

LEMMA GrantedRun ==
  ASSUME IInv, phase = "ready", NEW a, NEW n \in Nat, RequestType(mem, a),
         Granted(mem, a, n), a.frame # nullptr,
         \/ \A j \in Frames(a.frame, n) : j < mem.PageMap.Size
         \/ \A j \in Frames(a.frame, n) : j < mem.TotalPages
  PROVE  /\ Frames(a.frame, n) \subseteq Arena
         /\ Frames(a.frame, n) \subseteq a.mem.PageMap.bits
         /\ \A q \in Owner : Frames(a.frame, n) \cap held[q] = {}
<1> DEFINE S == Frames(a.frame, n)
<1>1. /\ a.frame \in Nat
      /\ a.frame >= mem.FirstFreePage
      /\ \A j \in S : ~locked(mem, j)
      /\ a.mem.PageMap.bits = mem.PageMap.bits \cup Fresh(mem, S)
  BY DEF RequestType, Granted
<1>2. /\ mem.TotalPages \in Nat
      /\ mem.FirstFreePage \in Nat
      /\ mem.PageMap.Size = mem.TotalPages \div 8 + 1
      /\ PageFramesType(mem)
      /\ tables \subseteq Nat
      /\ \A p \in tables : p < mem.FirstFreePage
  BY DEF IInv, TypeOK, PageFramesType, Sizes, bitmapSize, TablesBelowSearch
<1>3. ASSUME NEW j \in S
      PROVE  /\ j \in 1 .. mem.TotalPages
             /\ j \in B!Indexes(mem.PageMap.Size)
             /\ j \notin tables
  <2>1. j \in Nat /\ j >= a.frame /\ j > 0
    BY <1>1, <1>3 DEF Frames, nullptr
  <2>2. j < mem.PageMap.Size \/ j < mem.TotalPages
    BY <1>3
  <2>3. j \in 1 .. mem.TotalPages /\ j < 8 * mem.PageMap.Size
    BY <1>2, <2>1, <2>2
  <2>4. j >= mem.FirstFreePage
    BY <1>1, <1>2, <2>1
  <2> QED BY <1>2, <2>1, <2>3, <2>4 DEF B!Indexes
<1>4. ASSUME NEW j \in S PROVE j \in Arena
  <2>1. /\ j \in ConventionalFrames(memMap)
        /\ j \notin BitmapFrames(mem.PageMap) \cup KernelFrames
    BY <1>1, <1>3 DEF IInv, FreeIsUsable
  <2> QED BY <1>3, <2>1 DEF Arena
<1>5. S \subseteq Fresh(mem, S)
  <2> SUFFICES ASSUME NEW j \in S PROVE B!InBounds(mem.PageMap, j) /\ ~locked(mem, j)
    BY DEF Fresh
  <2>1. j \in Nat /\ j \in B!Indexes(mem.PageMap.Size)
    BY <1>2, <1>3
  <2> QED BY <1>1, <1>2, <2>1, InBoundsIsIndex
<1>6. ASSUME NEW q \in Owner, NEW j \in S PROVE j \notin held[q]
  <2>1. j \in Nat
    BY <1>2, <1>3
  <2>2. j \notin mem.PageMap.bits
    BY <1>1, <1>2, <2>1, LockedIsBit
  <2> QED BY <2>2 DEF IInv, HeldIsLocked
<1> QED BY <1>1, <1>4, <1>5, <1>6

(* What a grant means for who holds what: nothing, or one run more.        *)
OneRun(o) ==
    \/ held' = held
    \/ \E f, n \in Nat :
          /\ n > 0
          /\ held' = [held EXCEPT ![o] = @ \cup Frames(f, n)]
          /\ Frames(f, n) \subseteq Arena
          /\ \A q \in Owner : Frames(f, n) \cap held[q] = {}

(* What a request locks, it also gives to the owner: a grant of frame 0,   *)
(* which the owner takes for a failure, cannot happen once a table exists. *)
LEMMA GrantLosesNothing ==
  ASSUME IInv, phase = "ready", NEW o \in Owner, NEW a, NEW n \in Nat,
         Served(a, n), Grant(o, a, n), RunKeeps, PageFramesType(mem')
  PROVE  UsableIsFree'
<1> DEFINE S == Frames(a.frame, n)
<1>1. /\ mem' = a.mem
      /\ held \in [Owner -> SUBSET Nat]
      /\ held' = IF a.panics \/ a.frame = nullptr
                 THEN held
                 ELSE [held EXCEPT ![o] = @ \cup S]
  BY DEF Grant, IInv, TypeOK
<1>2. Held \subseteq Held'
  <2>1. \A q \in Owner : held[q] \subseteq held'[q]
    BY <1>1
  <2> HIDE DEF S
  <2> QED BY <2>1 DEF Held
<1>3. CASE Refused(mem, a)
  <2>1. mem'.PageMap.bits = mem.PageMap.bits
    BY <1>1, <1>3 DEF Refused
  <2> QED BY <1>2, <2>1, NothingLost
<1>4. CASE Granted(mem, a, n) /\ a.frame = nullptr
  <2>1. tables = {}
    <3>1. /\ mem.FirstFreePage \in Nat /\ a.frame >= mem.FirstFreePage
          /\ \A p \in tables : p \in Nat /\ p < mem.FirstFreePage
      BY <1>4 DEF Granted, IInv, TypeOK, PageFramesType, TablesBelowSearch
    <3> QED BY <1>4, <3>1 DEF nullptr
  <2> QED BY <1>2, <2>1, NothingLost
<1>5. CASE Granted(mem, a, n) /\ a.frame # nullptr /\ ~a.panics
  <2>1. mem'.PageMap.bits \subseteq mem.PageMap.bits \cup S
    BY <1>1, <1>5 DEF Granted, Fresh
  <2>2. S \subseteq Held'
    <3>1. held'[o] = held[o] \cup S
      BY <1>1, <1>5
    <3> HIDE DEF S
    <3> QED BY <3>1 DEF Held
  <2> HIDE DEF S
  <2> QED BY <1>2, <2>1, <2>2, NothingLost
<1> QED BY <1>3, <1>4, <1>5 DEF Served

LEMMA GrantInv ==
  ASSUME IInv, phase = "ready", NEW o \in Owner, NEW a, NEW n \in Nat,
         Served(a, n), Grant(o, a, n)
  PROVE  IInv' /\ Arena' = Arena /\ OneRun(o)
<1> DEFINE S == Frames(a.frame, n)
<1>1. /\ mem' = a.mem
      /\ UNCHANGED <<phase, memMap, entry, largest, tables, devices>>
      /\ RequestType(mem, a)
      /\ Refused(mem, a) \/ Granted(mem, a, n)
  BY DEF Grant, Served
<1>2. /\ held \in [Owner -> SUBSET Nat]
      /\ devices' \subseteq Nat
      /\ panicked' \in BOOLEAN
  <2>1. a.panics \in BOOLEAN /\ panicked \in BOOLEAN
    BY <1>1, Zenon DEF RequestType, IInv, TypeOK
  <2>2. panicked' = (panicked \/ a.panics)
    BY DEF Grant
  <2>3. panicked' \in BOOLEAN
    BY <2>1, <2>2, Zenon
  <2> QED BY <1>1, <2>3, Zenon DEF IInv, TypeOK
<1>3. /\ PageFramesType(mem')
      /\ mem'.PageMap.Size = mem.PageMap.Size
      /\ mem'.PageMap.Buffer = mem.PageMap.Buffer
      /\ mem'.TotalPages = mem.TotalPages
      /\ mem'.MaxFreePagesInARow = mem.MaxFreePagesInARow
      /\ mem'.FirstFreePage >= mem.FirstFreePage
      /\ mem.PageMap.bits \subseteq mem'.PageMap.bits
  <2>1. CASE Refused(mem, a)
    BY <1>1, <2>1 DEF RequestType, Refused
  <2>2. CASE Granted(mem, a, n)
    BY <1>1, <2>2 DEF RequestType, Granted
  <2> QED BY <1>1, <2>1, <2>2
<1>4. RunKeeps
  BY <1>1, <1>3 DEF RunKeeps
<1>5. Counted(mem') /\ Sum2(mem') = Sum2(mem)
  BY <1>1, SoundNow, GrantCounts DEF Sound
<1>6. FreeIsUsable' /\ UsableIsFree'
  BY <1>3, <1>4, LockingKeepsUsable, GrantLosesNothing
<1>7. /\ \A q \in Owner : held[q] \subseteq Arena
      /\ \A q \in Owner : held[q] \subseteq mem'.PageMap.bits
      /\ HeldOnce
  BY <1>3 DEF IInv, HeldIsLocked
<1>8. CASE held' = held
  <2>1. HeldIsLocked' /\ HeldOnce'
    BY <1>4, <1>7, <1>8, ArenaStays DEF HeldIsLocked, HeldOnce
  <2> QED BY <1>2, <1>3, <1>4, <1>5, <1>6, <1>8, <2>1, RunStep, ArenaStays DEF OneRun
<1>9. CASE held' # held
  <2>1. /\ ~a.panics
        /\ a.frame # nullptr
        /\ held' = [held EXCEPT ![o] = @ \cup S]
    BY <1>9 DEF Grant
  <2>2. Granted(mem, a, n)
        /\ \/ \A j \in S : j < mem.PageMap.Size
           \/ \A j \in S : j < mem.TotalPages
    BY <2>1 DEF Served
  <2>3. /\ S \subseteq Arena
        /\ S \subseteq mem'.PageMap.bits
        /\ \A q \in Owner : S \cap held[q] = {}
    BY <1>1, <2>1, <2>2, GrantedRun
  <2>4. a.frame \in Nat /\ S \subseteq Nat
    BY <1>1, FramesAreNat DEF RequestType
  <2>5. n > 0
    <3>1. CASE n = 0
      <4>1. S = {}
        BY <2>4, <3>1 DEF Frames
      <4>2. held' = held
        BY <1>2, <2>1, <4>1
      <4> QED BY <1>9, <4>2
    <3> QED BY <3>1
  <2>6. OneRun(o)
    BY <2>1, <2>3, <2>4, <2>5 DEF OneRun
  <2> HIDE DEF S
  <2>7. \A q \in Owner : held'[q] = IF q = o THEN held[o] \cup S ELSE held[q]
    BY <1>2, <2>1
  <2>8. held' \in [Owner -> SUBSET Nat]
    BY <1>2, <2>1, <2>4
  <2>9. HeldIsLocked'
    <3>1. \A q \in Owner : held'[q] \subseteq Arena /\ held'[q] \subseteq mem'.PageMap.bits
      BY <1>7, <2>3, <2>7
    <3> QED BY <1>4, <3>1, ArenaStays DEF HeldIsLocked
  <2>10. HeldOnce'
    BY <1>7, <2>3, <2>7 DEF HeldOnce
  <2> QED BY <1>2, <1>3, <1>4, <1>5, <1>6, <2>6, <2>8, <2>9, <2>10, RunStep, ArenaStays
<1> QED BY <1>8, <1>9

LEMMA RequestPageInv ==
  ASSUME IInv, NEW o \in Owner, RequestPage(o)
  PROVE  IInv' /\ Arena' = Arena /\ OneRun(o)
<1> DEFINE a == request_page(mem)
<1>1. phase = "ready" /\ Grant(o, a, 1)
  BY DEF RequestPage
<1>2. /\ RequestType(mem, a)
      /\ \/ Refused(mem, a) /\ a.frame = nullptr
         \/ Granted(mem, a, 1) /\ ~a.panics /\ a.frame < mem.TotalPages
  BY SoundNow, RequestPage1 DEF Sound
<1> HIDE DEF a
<1>3. a.frame < mem.TotalPages => \A j \in Frames(a.frame, 1) : j < mem.TotalPages
  <2>1. a.frame \in Nat /\ mem.TotalPages \in Nat
    BY <1>2 DEF RequestType, IInv, TypeOK, PageFramesType
  <2> QED BY <2>1 DEF Frames
<1>4. Served(a, 1)
  BY <1>2, <1>3 DEF Served
<1> QED BY <1>1, <1>4, GrantInv, 1 \in Nat

LEMMA RequestPagesInv ==
  ASSUME IInv, NEW o \in Owner, NEW n \in RunSizes, RequestPages(o, n)
  PROVE  IInv' /\ Arena' = Arena /\ OneRun(o)
<1> DEFINE a == request_pages(mem, n)
<1>1. phase = "ready" /\ Grant(o, a, n)
  BY DEF RequestPages
<1>2. n \in Nat
  BY ConstantsAssumption
<1>3. Served(a, n)
  BY <1>2, SoundNow, RequestPages1 DEF Sound, Served
<1> HIDE DEF a
<1> QED BY <1>1, <1>2, <1>3, GrantInv
-----------------------------------------------------------------------------
(* Every step of the specification keeps the invariant.                    *)
LEMMA InvariantStep ==
  ASSUME IInv, [Next]_vars
  PROVE  IInv'
<1>1. CASE UNCHANGED vars
  <2>1. TypeOK' /\ Sizes' /\ Scanned' /\ NothingLockedYet' /\ CountersMatch'
    BY <1>1 DEF vars, IInv, TypeOK, Sizes, Scanned, NothingLockedYet, CountersMatch
  <2>2. TablesBelowSearch' /\ FreeIsUsable'
    BY <1>1 DEF vars, IInv, TablesBelowSearch, FreeIsUsable
  <2>3. HeldIsLocked' /\ HeldOnce'
    <3>1. Arena' = Arena
      BY <1>1 DEF vars, Arena
    <3> QED BY <1>1, <3>1 DEF vars, IInv, HeldIsLocked, HeldOnce
  <2>4. UsableIsFree' /\ LimitIsLongest'
    <3>1. /\ ConventionalFrames(memMap)' = ConventionalFrames(memMap)
          /\ LongestSegment(memMap)' = LongestSegment(memMap)
          /\ Held' = Held
      BY <1>1 DEF vars, ConventionalFrames, LongestSegment, FreeSegments, Segments, Held
    <3> QED BY <1>1, <3>1 DEF vars, IInv, UsableIsFree, LimitIsLongest
  <2> QED BY <2>1, <2>2, <2>3, <2>4 DEF IInv
<1>2. CASE Boot
  BY <1>2, ScanDescriptorInv, HaltWithoutSegmentInv, UseInitialBitmapInv,
     MapTableInv, UseFinalBitmapInv DEF Boot
<1>3. CASE Run
  <2>1. ASSUME NEW o \in Owner, RequestPage(o) PROVE IInv'
    BY <2>1, RequestPageInv
  <2>2. ASSUME NEW o \in Owner, NEW n \in RunSizes, RequestPages(o, n) PROVE IInv'
    BY <2>2, RequestPagesInv
  <2>3. ASSUME NEW o \in Owner, NEW a \in held[o], NEW b \in held[o],
               a .. b \subseteq held[o], FreePages(o, a .. b)
        PROVE  IInv'
    BY <2>3, FreePagesInv
  <2>4. ASSUME NEW S \in Devices, LockDevice(S) PROVE IInv'
    BY <2>4, LockDeviceInv
  <2> QED BY <1>3, <2>1, <2>2, <2>3, <2>4 DEF Run
<1> QED BY <1>1, <1>2, <1>3 DEF Next

\* The inductive invariant holds from the memory map through init_physical to any
\* sequence of requests, frees and locks (physical_memory_manager.cc).
THEOREM Invariant == Spec => []IInv
<1>1. Init => IInv
  BY InvariantInit
<1>2. IInv /\ [Next]_vars => IInv'
  BY InvariantStep
<1> QED BY <1>1, <1>2, PTL DEF Spec

(* init_physical and every lock, free and request keep the globals within  *)
(* their types: the counters never leave uint64_t, no bit is set past the  *)
(* bitmap, and every search starts at a page number.                       *)
THEOREM TypeCorrect == Spec => []TypeOK
<1>1. IInv => TypeOK
  BY DEF IInv
<1> QED BY <1>1, Invariant, PTL

(* TotalUsedPages is the number of set bits of the bitmap in every state,  *)
(* and after init_physical the two counters account for TotalPages + 1     *)
(* frames, whatever lock_pages and free_pages are called with.             *)
THEOREM CountersAlwaysMatch == Spec => []CountersMatch
<1>1. IInv => CountersMatch
  BY DEF IInv
<1> QED BY <1>1, Invariant, PTL

(* No search of request_page or request_pages ever starts at or below a    *)
(* frame that map() uses as a page table, although the final bitmap calls  *)
(* these frames free.                                                      *)
THEOREM TablesStayBelowSearch == Spec => []TablesBelowSearch
<1>1. IInv => TablesBelowSearch
  BY DEF IInv
<1> QED BY <1>1, Invariant, PTL

(* After init_physical the bitmap says exactly which frames can be given   *)
(* away: a frame's bit is clear if and only if the frame is conventional   *)
(* memory that is not the kernel's, the bitmap's or an owner's.  So every  *)
(* request locks all that it hands out and nothing else, free_pages        *)
(* unlocks only what its caller held, and no frame is ever lost.           *)
THEOREM FreeListStaysExact == Spec => []FreeListExact
<1>1. ASSUME IInv PROVE FreeListExact
  <2>1. PageFramesType(mem) /\ mem.TotalPages \in Nat
    BY <1>1 DEF IInv, TypeOK, PageFramesType
  <2>2. ASSUME NEW p \in 1 .. mem.TotalPages, p \in Held
        PROVE  locked(mem, p)
    <3>1. p \in mem.PageMap.bits
      BY <1>1, <2>2 DEF IInv, HeldIsLocked, Held
    <3>2. p \in Nat
      BY <2>1
    <3> QED BY <2>1, <3>1, <3>2, LockedIsBit
  <2> QED BY <1>1, <2>2 DEF IInv, FreeIsUsable, UsableIsFree, FreeListExact
<1> QED BY <1>1, Invariant, PTL

(* Where the free segments neither touch nor overlap, a run of free frames *)
(* lies within one of them: its first frame belongs to a segment, and a    *)
(* longer run would hold the frame after that segment's last, which is     *)
(* nobody's.                                                               *)
LEMMA RunsStayInSegment ==
  ASSUME memMap \in MemoryMaps, SegmentsApart, NEW limit \in Nat,
         \A d \in FreeSegments(memMap) : d.NumPages <= limit,
         NEW p \in Nat
  PROVE  \E q \in Frames(p, limit + 1) : q \notin ConventionalFrames(memMap)
<1> SUFFICES ASSUME \A q \in Frames(p, limit + 1) : q \in ConventionalFrames(memMap)
             PROVE  FALSE
  OBVIOUS
<1>1. \A d \in FreeSegments(memMap) : d.PhysicalAddress \in Nat /\ d.NumPages \in Nat
  BY DescriptorsTyped DEF Descriptors
<1>2. \A q \in ConventionalFrames(memMap) : \E d \in FreeSegments(memMap) : q \in FramesOf(d)
  BY DEF ConventionalFrames
<1>3. p \in Frames(p, limit + 1)
  BY DEF Frames
<1>4. PICK d \in FreeSegments(memMap) : p \in FramesOf(d)
  BY <1>2, <1>3
<1> DEFINE q == d.PhysicalAddress + d.NumPages
<1>5. q \in Nat /\ d.PhysicalAddress <= p /\ p < q /\ q \in Frames(p, limit + 1)
  BY <1>1, <1>4 DEF FramesOf, Frames
<1>6. PICK e \in FreeSegments(memMap) : q \in FramesOf(e)
  BY <1>2, <1>5
<1>7. e.PhysicalAddress <= q /\ q < e.PhysicalAddress + e.NumPages
  BY <1>1, <1>6 DEF FramesOf, Frames
<1>8. d # e
  BY <1>1, <1>7
<1>9. q < e.PhysicalAddress \/ e.PhysicalAddress + e.NumPages < d.PhysicalAddress
  BY <1>8 DEF SegmentsApart
<1> QED BY <1>1, <1>5, <1>7, <1>9

(* MaxFreePagesInARow, which request_pages refuses longer requests by, is  *)
(* set once to the longest free segment and never adjusted; still no run   *)
(* of free frames is longer at any time, as long as the memory map keeps   *)
(* its free segments apart.                                                *)
THEOREM RunLimitAlwaysHolds == Spec => []RunLimitHolds
<1>1. ASSUME IInv PROVE RunLimitHolds
  <2> SUFFICES ASSUME phase = "ready", SegmentsApart,
                      NEW p \in 1 .. mem.TotalPages - mem.MaxFreePagesInARow
               PROVE  \E q \in Frames(p, mem.MaxFreePagesInARow + 1) : locked(mem, q)
    BY DEF RunLimitHolds
  <2>1. /\ memMap \in MemoryMaps
        /\ mem.TotalPages \in Nat
        /\ \A k \in DOMAIN memMap : memMap[k].NumPages <= mem.TotalPages
        /\ mem.MaxFreePagesInARow = LongestSegment(memMap)
    BY <1>1 DEF IInv, TypeOK, PageFramesType, Scanned, LimitIsLongest
  <2> DEFINE limit == mem.MaxFreePagesInARow
  <2>2. /\ limit \in Nat
        /\ \A d \in FreeSegments(memMap) : d.NumPages <= limit
    BY <2>1, LongestSegmentTyped
  <2>3. p \in Nat
    BY <2>1, <2>2
  <2>4. PICK q \in Frames(p, limit + 1) : q \notin ConventionalFrames(memMap)
    <3> HIDE DEF limit
    <3> QED BY <2>1, <2>2, <2>3, RunsStayInSegment
  <2>5. q \in 1 .. mem.TotalPages
    BY <2>1, <2>2, <2>3 DEF Frames
  <2> QED BY <1>1, <2>4, <2>5 DEF IInv, FreeIsUsable
<1> QED BY <1>1, Invariant, PTL

-----------------------------------------------------------------------------
(* The allocator implements RunAllocator.                                  *)

LEMMA BootGrows ==
  ASSUME IInv, Boot
  PROVE  RA!Grow
<1>1. phase # "ready" /\ held' = held
  BY DEF Boot, ScanDescriptor, HaltWithoutSegment, UseInitialBitmap, MapTable,
         UseFinalBitmap
<1>2. Arena = {}
  BY <1>1 DEF Arena
<1> QED BY <1>1, <1>2 DEF RA!Grow

LEMMA OneRunIsAlloc ==
  ASSUME IInv, NEW o \in Owner, OneRun(o), Arena' = Arena
  PROVE  RA!Alloc(o) \/ UNCHANGED RA!vars
<1>1. CASE held' = held
  BY <1>1 DEF RA!vars
<1>2. ASSUME NEW f \in Nat, NEW n \in Nat, n > 0,
             held' = [held EXCEPT ![o] = @ \cup Frames(f, n)],
             Frames(f, n) \subseteq Arena,
             \A q \in Owner : Frames(f, n) \cap held[q] = {}
      PROVE  RA!Alloc(o)
  <2> DEFINE S == Frames(f, n)
  <2>1. held \in [Owner -> SUBSET Nat]
    BY DEF IInv, TypeOK
  <2>2. RA!Contiguous(S)
    <3>1. S = f .. f + n - 1
      BY DEF Frames
    <3>2. f \in S /\ f + n - 1 \in S
      BY <1>2, <3>1
    <3> HIDE DEF S
    <3> QED BY <3>1, <3>2 DEF RA!Contiguous
  <2>3. S \subseteq Arena /\ \A q \in Owner : S \cap held[q] = {}
    BY <1>2
  <2>4. held' = [held EXCEPT ![o] = @ \cup S]
    BY <1>2
  <2> HIDE DEF S
  <2>5. held'[o] \ held[o] = S
    BY <2>1, <2>3, <2>4
  <2>6. S \cap RA!Held = {}
    BY <2>3 DEF RA!Held
  <2> QED BY <2>2, <2>3, <2>4, <2>5, <2>6 DEF RA!Alloc
<1> QED BY <1>1, <1>2 DEF OneRun

LEMMA RunImplements ==
  ASSUME IInv, Run
  PROVE  [RA!Next]_(RA!vars)
<1>1. ASSUME NEW o \in Owner, OneRun(o), Arena' = Arena
      PROVE  [RA!Next]_(RA!vars)
  BY <1>1, OneRunIsAlloc DEF RA!Next
<1>2. ASSUME NEW o \in Owner, RequestPage(o) PROVE [RA!Next]_(RA!vars)
  BY <1>1, <1>2, RequestPageInv
<1>3. ASSUME NEW o \in Owner, NEW n \in RunSizes, RequestPages(o, n)
      PROVE  [RA!Next]_(RA!vars)
  BY <1>1, <1>3, RequestPagesInv
<1>4. ASSUME NEW o \in Owner, NEW a \in held[o], NEW b \in held[o],
             a .. b \subseteq held[o], FreePages(o, a .. b)
      PROVE  [RA!Next]_(RA!vars)
  <2>1. Arena' = Arena
    BY <1>4, FreePagesInv
  <2>2. held \in [Owner -> SUBSET Nat] /\ held' = [held EXCEPT ![o] = @ \ (a .. b)]
    BY <1>4 DEF FreePages, IInv, TypeOK
  <2>3. held'[o] = held[o] \ (a .. b)
    BY <2>2
  <2>4. RA!Release(o)
    BY <2>1, <2>2, <2>3 DEF RA!Release
  <2> QED BY <2>4 DEF RA!Next
<1>5. ASSUME NEW S \in Devices, LockDevice(S) PROVE [RA!Next]_(RA!vars)
  BY <1>5, LockDeviceInv DEF RA!vars
<1> QED BY <1>2, <1>3, <1>4, <1>5 DEF Run

(* Every grant of request_page and request_pages is one unbroken run of    *)
(* frames that nobody holds, and that the memory map calls conventional    *)
(* memory outside the kernel, the bitmap and the page tables; it stays the *)
(* owner's until the owner frees it.                                       *)
THEOREM GrantsFollowTheContract == Spec => GrantsAreFreeRuns
<1>1. Init => RA!Init
  BY DEF Init, RA!Init, Arena
<1>2. IInv /\ [Next]_vars => [RA!Next]_(RA!vars)
  <2> SUFFICES ASSUME IInv, [Next]_vars PROVE [RA!Next]_(RA!vars)
    OBVIOUS
  <2>1. CASE UNCHANGED vars
    BY <2>1 DEF vars, RA!vars, Arena
  <2>2. CASE Boot
    BY <2>2, BootGrows DEF RA!Next
  <2>3. CASE Run
    BY <2>3, RunImplements
  <2> QED BY <2>1, <2>2, <2>3 DEF Next
<1> QED BY <1>1, <1>2, Invariant, PTL DEF Spec, GrantsAreFreeRuns, RA!Spec
=============================================================================
