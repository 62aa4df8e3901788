--------------------------- MODULE PageLoopsProofs ---------------------------
(***************************************************************************)
(* The loops of the page frame allocator compute the functions of          *)
(* PageFrames, for every bitmap, every counter value and every range: the  *)
(* one-step operations that PhysicalMemory and KernelMemory are built from *)
(* are what the code does.  The invariant gives, for each loop, what it    *)
(* has done so far.                                                        *)
(***************************************************************************)
EXTENDS PageLoops, FiniteSetTheorems, WellFoundedInduction, TLAPS

-----------------------------------------------------------------------------
(* Bitmaps, as in PhysicalMemoryProofs.                                    *)

\* The bits that locking S sets, and that freeing S clears.
Fresh(g, S) == {p \in S : B!InBounds(g.PageMap, p) /\ ~locked(g, p)}
Freed(g, S) == {p \in S : locked(g, p)}

(* A non-empty set of naturals has a least element, which Min returns: the *)
(* searches of request_page and request_pages end at the lowest match.     *)
LEMMA MinIsLeast ==
  ASSUME NEW S \in SUBSET Nat, S # {}
  PROVE  Min(S) \in S /\ \A j \in S : Min(S) <= j
<1> DEFINE less == {ss \in Nat \X Nat : ss[1] < ss[2]}
<1>1. IsWellFoundedOn(less, Nat)
  BY NatLessThanWellFounded, Zenon DEF OpToRel
<1>2. \E x \in S : \A y \in S : ~ (<<y, x>> \in less)
  <2> HIDE DEF less
  <2> QED BY <1>1, WFMin
<1>3. PICK x \in S : \A y \in S : ~ (<<y, x>> \in less)
  BY <1>2
<1>4. ASSUME NEW y \in S PROVE x <= y
  <2>1. <<y, x>> \in Nat \X Nat
    OBVIOUS
  <2>2. ~(y < x)
    BY <1>3, <2>1
  <2> QED BY <2>2
<1>5. \E z \in S : \A y \in S : z <= y
  BY <1>4
<1> QED BY <1>5 DEF Min

LEMMA InBoundsIsIndex ==
  ASSUME NEW g, PageFramesType(g), NEW p \in Nat
  PROVE  B!InBounds(g.PageMap, p) <=> p \in B!Indexes(g.PageMap.Size)
<1>1. g.PageMap.Size \in Nat
  BY DEF PageFramesType
<1> QED BY <1>1 DEF B!InBounds, B!Indexes

LEMMA LockedIsBit ==
  ASSUME NEW g, PageFramesType(g), NEW p \in Nat
  PROVE  locked(g, p) <=> p \in g.PageMap.bits
BY InBoundsIsIndex DEF PageFramesType, B!BitmapType, locked, B!get

(* Two allocator states that differ in their locked frames and counters    *)
(* only.                                                                   *)
SameShape(g, g2) ==
    /\ g2.PageMap.Size = g.PageMap.Size
    /\ g2.PageMap.Buffer = g.PageMap.Buffer
    /\ g2.TotalPages = g.TotalPages
    /\ g2.MaxFreePagesInARow = g.MaxFreePagesInARow
    /\ g2.FirstFreePage = g.FirstFreePage

LEMMA FreshIsIndexes ==
  ASSUME NEW g, PageFramesType(g), NEW S \in SUBSET Nat
  PROVE  /\ Fresh(g, S) \in SUBSET B!Indexes(g.PageMap.Size)
         /\ Fresh(g, S) \cap g.PageMap.bits = {}
         /\ Freed(g, S) = S \cap g.PageMap.bits
         /\ g.PageMap.bits \in SUBSET B!Indexes(g.PageMap.Size)
BY InBoundsIsIndex, LockedIsBit DEF Fresh, Freed, PageFramesType, B!BitmapType

(* Replacing the bits and the two counters keeps everything else.          *)
WithBits(g, b, f, u) ==
    [g EXCEPT !.PageMap.bits = b, !.TotalFreePages = f, !.TotalUsedPages = u]

LEMMA Rebit ==
  ASSUME NEW g, PageFramesType(g),
         NEW b \in SUBSET B!Indexes(g.PageMap.Size),
         NEW f \in Counter, NEW u \in Counter
  PROVE  /\ PageFramesType(WithBits(g, b, f, u))
         /\ SameShape(g, WithBits(g, b, f, u))
         /\ WithBits(g, b, f, u).PageMap.bits = b
         /\ WithBits(g, b, f, u).TotalFreePages = f
         /\ WithBits(g, b, f, u).TotalUsedPages = u
<1> DEFINE g2 == WithBits(g, b, f, u)
<1>1. b \in SUBSET Nat
  BY DEF B!Indexes
<1>2. g2.PageMap = [g.PageMap EXCEPT !.bits = b]
  BY DEF PageFramesType, WithBits
<1>3. /\ g2.TotalFreePages = f
      /\ g2.TotalUsedPages = u
      /\ g2.TotalPages = g.TotalPages
      /\ g2.MaxFreePagesInARow = g.MaxFreePagesInARow
      /\ g2.FirstFreePage = g.FirstFreePage
  BY DEF PageFramesType, WithBits
<1>4. /\ g2.PageMap \in [Size : Nat, Buffer : Nat, bits : SUBSET Nat]
      /\ g2.PageMap.Size = g.PageMap.Size
      /\ g2.PageMap.Buffer = g.PageMap.Buffer
      /\ g2.PageMap.bits = b
  <2> HIDE DEF g2
  <2> QED BY <1>1, <1>2 DEF PageFramesType
<1>5. PageFramesType(g2)
  BY <1>4 DEF PageFramesType, B!BitmapType, WithBits
<1> QED BY <1>3, <1>4, <1>5 DEF SameShape

LEMMA MaxOfTwo ==
  ASSUME NEW a \in Nat, NEW b \in Nat
  PROVE  Max({a, b}) \in Nat /\ Max({a, b}) >= a /\ Max({a, b}) >= b
<1>1. \E x \in {a, b} : \A y \in {a, b} : x >= y
  <2>1. CASE a >= b BY <2>1
  <2>2. CASE b >= a BY <2>2
  <2> QED BY <2>1, <2>2
<1> QED BY <1>1 DEF Max

-----------------------------------------------------------------------------
(* One frame more.  A loop over one frame more locks that frame too: its   *)
(* fresh frames are those before, and the last one if that was unlocked.   *)

LEMMA FramesGrow ==
  ASSUME NEW a \in Nat, NEW k \in Nat
  PROVE  /\ Frames(a, 0) = {}
         /\ Frames(a, k + 1) = Frames(a, k) \cup {a + k}
         /\ a + k \notin Frames(a, k)
         /\ Frames(a, k) \in SUBSET Nat
         /\ IsFiniteSet(Frames(a, k)) /\ Cardinality(Frames(a, k)) = k
<1>1. IsFiniteSet(a .. a + k - 1) /\ Cardinality(a .. a + k - 1) = k
  <2>1. CASE k = 0
    <3>1. a .. a + k - 1 = {}
      BY <2>1
    <3> QED BY <2>1, <3>1, FS_EmptySet
  <2>2. CASE k > 0
    BY <2>2, FS_Interval, a + k - 1 \in Int
  <2> QED BY <2>1, <2>2
<1> QED BY <1>1 DEF Frames

LEMMA PartOfFrames ==
  ASSUME NEW a \in Nat, NEW k \in Nat, NEW S \in SUBSET Frames(a, k)
  PROVE  IsFiniteSet(S) /\ Cardinality(S) \in Nat /\ Cardinality(S) <= k
<1>1. IsFiniteSet(S) /\ Cardinality(S) <= Cardinality(Frames(a, k))
  BY FramesGrow, FS_Subset
<1> QED BY <1>1, FramesGrow, FS_CardinalityType

(* Counters that wrap add up.                                              *)
LEMMA CountOneMore ==
  ASSUME Word \in Nat, NEW x \in Counter, NEW k \in Nat, k + 1 < Word
  PROVE  /\ Plus(Plus(x, k), 1) = Plus(x, k + 1)
         /\ Minus(Minus(x, k), 1) = Minus(x, k + 1)
         /\ Plus(x, k) \in Counter /\ Minus(x, k) \in Counter
         /\ Plus(x, k + 1) \in Counter /\ Minus(x, k + 1) \in Counter
         /\ Plus(x, 0) = x /\ Minus(x, 0) = x
BY DEF Counter, Plus, Minus

(* The bits and the counters of an allocator state, replaced.              *)
LEMMA RebitTwice ==
  ASSUME NEW s, PageFramesType(s), NEW b, NEW f, NEW u, NEW b2, NEW f2, NEW u2
  PROVE  /\ WithBits(WithBits(s, b, f, u), b2, f2, u2) = WithBits(s, b2, f2, u2)
         /\ WithBits(s, s.PageMap.bits, s.TotalFreePages, s.TotalUsedPages) = s
         /\ WithBits(s, b, f, u).PageMap.Size = s.PageMap.Size
         /\ WithBits(s, b, f, u).PageMap.Buffer = s.PageMap.Buffer
         /\ WithBits(s, b, f, u).PageMap.bits = b
         /\ WithBits(s, b, f, u).TotalFreePages = f
         /\ WithBits(s, b, f, u).TotalUsedPages = u
BY DEF PageFramesType, WithBits

LEMMA LockPagesIsRebit ==
  ASSUME NEW s, PageFramesType(s), NEW S
  PROVE  lock_pages(s, S) =
           WithBits(s, s.PageMap.bits \cup Fresh(s, S),
                    Minus(s.TotalFreePages, Cardinality(Fresh(s, S))),
                    Plus(s.TotalUsedPages, Cardinality(Fresh(s, S))))
BY DEF PageFramesType, lock_pages, WithBits, Fresh

LEMMA FreePagesIsRebit ==
  ASSUME NEW s, PageFramesType(s), NEW S
  PROVE  free_pages(s, S) =
           WithBits(s, s.PageMap.bits \ Freed(s, S),
                    Plus(s.TotalFreePages, Cardinality(Freed(s, S))),
                    Minus(s.TotalUsedPages, Cardinality(Freed(s, S))))
BY DEF PageFramesType, free_pages, WithBits, Freed

(* lock_page and free_page, by what the frame's bit says.                  *)
LEMMA LockPageIsRebit ==
  ASSUME NEW s, PageFramesType(s), NEW j \in Nat
  PROVE  lock_page(s, j) =
           IF locked(s, j) \/ ~B!InBounds(s.PageMap, j) THEN s
           ELSE WithBits(s, s.PageMap.bits \cup {j},
                         Minus(s.TotalFreePages, 1), Plus(s.TotalUsedPages, 1))
BY DEF PageFramesType, lock_page, WithBits, B!setReturns, B!set

LEMMA FreePageIsRebit ==
  ASSUME NEW s, PageFramesType(s), NEW j \in Nat
  PROVE  free_page(s, j) =
           IF ~locked(s, j) THEN s
           ELSE WithBits(s, s.PageMap.bits \ {j},
                         Plus(s.TotalFreePages, 1), Minus(s.TotalUsedPages, 1))
BY DEF PageFramesType, free_page, WithBits, B!setReturns, B!set, locked, B!get
LEMMA LockOneMore ==
  ASSUME Word \in Nat, NEW s, PageFramesType(s), NEW a \in Nat, NEW k \in Nat, k + 1 < Word
  PROVE  lock_page(lock_pages(s, Frames(a, k)), a + k) = lock_pages(s, Frames(a, k + 1))
<1> DEFINE S == Frames(a, k)
           T == Frames(a, k + 1)
           c == Cardinality(Fresh(s, S))
           j == a + k
           bits == s.PageMap.bits
           b == bits \cup Fresh(s, S)
           f == Minus(s.TotalFreePages, c)
           u == Plus(s.TotalUsedPages, c)
           x == lock_pages(s, S)
<1>1. j \in Nat /\ T = S \cup {j} /\ j \notin S /\ S \in SUBSET Nat
  <2>1. T = S \cup {j} /\ j \notin S /\ S \in SUBSET Nat
    BY FramesGrow, Zenon
  <2> QED BY <2>1
<1>2. /\ Fresh(s, S) \in SUBSET Frames(a, k)
      /\ IsFiniteSet(Fresh(s, S)) /\ c \in Nat /\ c <= k
  <2>1. Fresh(s, S) \in SUBSET Frames(a, k)
    BY DEF Fresh
  <2> QED BY <2>1, PartOfFrames
<1>3. s.TotalFreePages \in Counter /\ s.TotalUsedPages \in Counter
  BY DEF PageFramesType
<1>4. x = WithBits(s, b, f, u)
  BY LockPagesIsRebit
<1> HIDE DEF S, T, j, x, c
<1>5. c + 1 < Word
  BY <1>2
<1>6. b \in SUBSET B!Indexes(s.PageMap.Size) /\ f \in Counter /\ u \in Counter
  BY <1>1, <1>2, <1>3, <1>5, FreshIsIndexes, CountOneMore
<1> HIDE DEF b, f, u
<1>7. /\ PageFramesType(x)
      /\ x.PageMap.Size = s.PageMap.Size
      /\ x.PageMap.bits = b /\ x.TotalFreePages = f /\ x.TotalUsedPages = u
  BY <1>4, <1>6, Rebit DEF SameShape
<1>8. /\ locked(x, j) <=> locked(s, j)
      /\ B!InBounds(x.PageMap, j) <=> B!InBounds(s.PageMap, j)
  <2>1. j \in b <=> j \in bits
    BY <1>1, <1>2 DEF b, S
  <2>2. B!InBounds(x.PageMap, j) <=> B!InBounds(s.PageMap, j)
    BY <1>7 DEF B!InBounds
  <2> QED BY <1>1, <1>7, <2>1, <2>2, LockedIsBit
<1>9. CASE locked(s, j) \/ ~B!InBounds(s.PageMap, j)
  <2>1. Fresh(s, T) = Fresh(s, S)
    BY <1>1, <1>9 DEF Fresh
  <2>2. lock_page(x, j) = x
    BY <1>1, <1>7, <1>8, <1>9, LockPageIsRebit
  <2>3. lock_pages(s, T) = x
    BY <1>4, <2>1, LockPagesIsRebit DEF b, f, u, c
  <2> QED BY <2>2, <2>3 DEF x, S, T, j
<1>10. CASE ~locked(s, j) /\ B!InBounds(s.PageMap, j)
  <2>1. Fresh(s, T) = Fresh(s, S) \cup {j} /\ j \notin Fresh(s, S)
    BY <1>1, <1>10 DEF Fresh
  <2>2. Cardinality(Fresh(s, T)) = c + 1
    BY <1>2, <2>1, FS_AddElement DEF c
  <2>3. lock_page(x, j) = WithBits(x, b \cup {j}, Minus(f, 1), Plus(u, 1))
    BY <1>1, <1>7, <1>8, <1>10, LockPageIsRebit
  <2>4. WithBits(x, b \cup {j}, Minus(f, 1), Plus(u, 1))
          = WithBits(s, b \cup {j}, Minus(f, 1), Plus(u, 1))
    BY <1>4, RebitTwice
  <2>5. Minus(f, 1) = Minus(s.TotalFreePages, c + 1) /\ Plus(u, 1) = Plus(s.TotalUsedPages, c + 1)
    BY <1>2, <1>3, <1>5, CountOneMore DEF f, u
  <2>6. b \cup {j} = bits \cup Fresh(s, T)
    BY <2>1 DEF b
  <2>7. lock_pages(s, T) = WithBits(s, b \cup {j}, Minus(f, 1), Plus(u, 1))
    BY <2>2, <2>5, <2>6, LockPagesIsRebit
  <2> QED BY <2>3, <2>4, <2>7 DEF x, S, T, j
<1> QED BY <1>9, <1>10

LEMMA FreeOneMore ==
  ASSUME Word \in Nat, NEW s, PageFramesType(s), NEW a \in Nat, NEW k \in Nat, k + 1 < Word
  PROVE  free_page(free_pages(s, Frames(a, k)), a + k) = free_pages(s, Frames(a, k + 1))
<1> DEFINE S == Frames(a, k)
           T == Frames(a, k + 1)
           c == Cardinality(Freed(s, S))
           j == a + k
           bits == s.PageMap.bits
           b == bits \ Freed(s, S)
           f == Plus(s.TotalFreePages, c)
           u == Minus(s.TotalUsedPages, c)
           x == free_pages(s, S)
<1>1. j \in Nat /\ T = S \cup {j} /\ j \notin S /\ S \in SUBSET Nat
  <2>1. T = S \cup {j} /\ j \notin S /\ S \in SUBSET Nat
    BY FramesGrow, Zenon
  <2> QED BY <2>1
<1>2. /\ Freed(s, S) \in SUBSET Frames(a, k)
      /\ IsFiniteSet(Freed(s, S)) /\ c \in Nat /\ c <= k
  <2>1. Freed(s, S) \in SUBSET Frames(a, k)
    BY DEF Freed
  <2> QED BY <2>1, PartOfFrames
<1>3. s.TotalFreePages \in Counter /\ s.TotalUsedPages \in Counter
  BY DEF PageFramesType
<1>4. x = WithBits(s, b, f, u)
  BY FreePagesIsRebit
<1> HIDE DEF S, T, j, x, c
<1>5. c + 1 < Word
  BY <1>2
<1>6. b \in SUBSET B!Indexes(s.PageMap.Size) /\ f \in Counter /\ u \in Counter
  BY <1>1, <1>2, <1>3, <1>5, FreshIsIndexes, CountOneMore
<1> HIDE DEF b, f, u
<1>7. /\ PageFramesType(x)
      /\ x.PageMap.Size = s.PageMap.Size
      /\ x.PageMap.bits = b /\ x.TotalFreePages = f /\ x.TotalUsedPages = u
  BY <1>4, <1>6, Rebit DEF SameShape
<1>8. locked(x, j) <=> locked(s, j)
  <2>1. j \in b <=> j \in bits
    BY <1>1, <1>2 DEF b, S
  <2> QED BY <1>1, <1>7, <2>1, LockedIsBit
<1>9. CASE ~locked(s, j)
  <2>1. Freed(s, T) = Freed(s, S)
    BY <1>1, <1>9 DEF Freed
  <2>2. free_page(x, j) = x
    BY <1>1, <1>7, <1>8, <1>9, FreePageIsRebit
  <2>3. free_pages(s, T) = x
    BY <1>4, <2>1, FreePagesIsRebit DEF b, f, u, c
  <2> QED BY <2>2, <2>3 DEF x, S, T, j
<1>10. CASE locked(s, j)
  <2>1. Freed(s, T) = Freed(s, S) \cup {j} /\ j \notin Freed(s, S)
    BY <1>1, <1>10 DEF Freed
  <2>2. Cardinality(Freed(s, T)) = c + 1
    BY <1>2, <2>1, FS_AddElement DEF c
  <2>3. free_page(x, j) = WithBits(x, b \ {j}, Plus(f, 1), Minus(u, 1))
    BY <1>1, <1>7, <1>8, <1>10, FreePageIsRebit
  <2>4. WithBits(x, b \ {j}, Plus(f, 1), Minus(u, 1))
          = WithBits(s, b \ {j}, Plus(f, 1), Minus(u, 1))
    BY <1>4, RebitTwice
  <2>5. Plus(f, 1) = Plus(s.TotalFreePages, c + 1) /\ Minus(u, 1) = Minus(s.TotalUsedPages, c + 1)
    BY <1>2, <1>3, <1>5, CountOneMore DEF f, u
  <2>6. b \ {j} = bits \ Freed(s, T)
    BY <2>1 DEF b
  <2>7. free_pages(s, T) = WithBits(s, b \ {j}, Plus(f, 1), Minus(u, 1))
    BY <2>2, <2>5, <2>6, FreePagesIsRebit
  <2> QED BY <2>3, <2>4, <2>7 DEF x, S, T, j
<1> QED BY <1>9, <1>10

(* A loop that has not begun has done nothing.                             *)
LEMMA NoFramesNoChange ==
  ASSUME Word \in Nat, 1 < Word, NEW s, PageFramesType(s), NEW a \in Nat
  PROVE  lock_pages(s, Frames(a, 0)) = s /\ free_pages(s, Frames(a, 0)) = s
<1>1. Frames(a, 0) = {}
  BY DEF Frames
<1>2. Fresh(s, {}) = {} /\ Freed(s, {}) = {} /\ Cardinality({}) = 0
  BY FS_EmptySet DEF Fresh, Freed
<1>3. /\ Minus(s.TotalFreePages, 0) = s.TotalFreePages
      /\ Plus(s.TotalFreePages, 0) = s.TotalFreePages
      /\ Minus(s.TotalUsedPages, 0) = s.TotalUsedPages
      /\ Plus(s.TotalUsedPages, 0) = s.TotalUsedPages
  BY CountOneMore, 0 \in Nat DEF PageFramesType
<1>4. s.PageMap.bits \cup {} = s.PageMap.bits /\ s.PageMap.bits \ {} = s.PageMap.bits
  OBVIOUS
<1>5. lock_pages(s, {}) = WithBits(s, s.PageMap.bits, s.TotalFreePages, s.TotalUsedPages)
  BY <1>2, <1>3, <1>4, LockPagesIsRebit
<1>6. free_pages(s, {}) = WithBits(s, s.PageMap.bits, s.TotalFreePages, s.TotalUsedPages)
  BY <1>2, <1>3, <1>4, FreePagesIsRebit
<1> QED BY <1>1, <1>5, <1>6, RebitTwice-----------------------------------------------------------------------------
(* request_page: the loop variable is the global FirstFreePage, so that    *)
(* part-way the state is the first one with the cursor moved.              *)

Moved(s, f) == [s EXCEPT !.FirstFreePage = f]

LEMMA MovedState ==
  ASSUME NEW s, PageFramesType(s), NEW f \in Nat
  PROVE  /\ Moved(s, s.FirstFreePage) = s
         /\ PageFramesType(Moved(s, f))
         /\ Moved(s, f).PageMap = s.PageMap
         /\ Moved(s, f).TotalPages = s.TotalPages
         /\ Moved(s, f).FirstFreePage = f
         /\ \A g : [Moved(s, f) EXCEPT !.FirstFreePage = g] = Moved(s, g)
         /\ \A j : locked(Moved(s, f), j) <=> locked(s, j)
BY DEF PageFramesType, Moved, locked

LEMMA MovedLock ==
  ASSUME NEW s, PageFramesType(s), NEW f \in Nat, NEW g \in Nat
  PROVE  /\ [lock_page(Moved(s, f), g) EXCEPT !.FirstFreePage = @ + 1]
               = [lock_page(s, g) EXCEPT !.FirstFreePage = f + 1]
<1> DEFINE x == Moved(s, f)
<1>1. /\ x.PageMap = s.PageMap /\ x.FirstFreePage = f
      /\ x.TotalFreePages = s.TotalFreePages /\ x.TotalUsedPages = s.TotalUsedPages
      /\ PageFramesType(x)
      /\ locked(x, g) <=> locked(s, g)
  BY MovedState DEF Moved, PageFramesType
<1>2. CASE locked(s, g) \/ ~B!InBounds(s.PageMap, g)
  <2>1. lock_page(x, g) = x /\ lock_page(s, g) = s
    BY <1>1, <1>2, LockPageIsRebit
  <2>2. [x EXCEPT !.FirstFreePage = @ + 1] = [s EXCEPT !.FirstFreePage = f + 1]
    BY DEF Moved, PageFramesType
  <2> QED BY <2>1, <2>2
<1>3. CASE ~locked(s, g) /\ B!InBounds(s.PageMap, g)
  <2> DEFINE b == s.PageMap.bits \cup {g}
             t == Minus(s.TotalFreePages, 1)
             u == Plus(s.TotalUsedPages, 1)
  <2>1. lock_page(x, g) = WithBits(x, b, t, u) /\ lock_page(s, g) = WithBits(s, b, t, u)
    BY <1>1, <1>3, LockPageIsRebit
  <2> HIDE DEF b, t, u
  <2>2. [WithBits(x, b, t, u) EXCEPT !.FirstFreePage = @ + 1]
          = [WithBits(s, b, t, u) EXCEPT !.FirstFreePage = f + 1]
    BY DEF Moved, WithBits, PageFramesType
  <2> QED BY <2>1, <2>2
<1> QED BY <1>2, <1>3

LEMMA MaxIs ==
  ASSUME NEW a \in Nat, NEW b \in Nat, NEW f \in Nat, f >= a, f >= b, f = a \/ f = b
  PROVE  Max({a, b}) = f
<1>1. Max({a, b}) \in {a, b}
  <2>1. \E x \in {a, b} : \A y \in {a, b} : x >= y
    OBVIOUS
  <2> QED BY <2>1 DEF Max
<1> QED BY <1>1, MaxOfTwo

(* The least element of a set of naturals is the one below which there is  *)
(* none.                                                                   *)
LEMMA MinIs ==
  ASSUME NEW S \in SUBSET Nat, NEW x \in S, \A y \in S : y < x => FALSE
  PROVE  Min(S) = x
<1>1. Min(S) \in S /\ Min(S) <= x
  BY MinIsLeast
<1>2. Min(S) \in Nat /\ x \in Nat
  BY <1>1
<1> QED BY <1>1, <1>2

\* The search has passed the frames below f, and all of them are locked.
Passed(s, f) ==
    /\ f \in Nat
    /\ f >= s.FirstFreePage
    /\ f = s.FirstFreePage \/ f <= s.TotalPages
    /\ \A j \in s.FirstFreePage .. f - 1 : locked(s, j)

LEMMA SearchFinds ==
  ASSUME NEW s, PageFramesType(s), NEW f, Passed(s, f), f < s.TotalPages, ~locked(s, f)
  PROVE  request_page(s) = Answer([lock_page(s, f) EXCEPT !.FirstFreePage = f + 1], f, FALSE)
<1>1. s.FirstFreePage \in Nat /\ s.TotalPages \in Nat /\ f \in Nat
  BY DEF PageFramesType, Passed
<1>2. f \in NextFree(s) /\ NextFree(s) \in SUBSET Nat
  BY <1>1 DEF NextFree, Passed
<1>3. ASSUME NEW y \in NextFree(s), y < f PROVE FALSE
  BY <1>1, <1>3 DEF NextFree, Passed
<1>4. Min(NextFree(s)) = f
  BY <1>2, <1>3, MinIs
<1> QED BY <1>2, <1>4 DEF request_page

LEMMA SearchFails ==
  ASSUME NEW s, PageFramesType(s), NEW f, Passed(s, f), f >= s.TotalPages
  PROVE  request_page(s) = Answer(Moved(s, f), nullptr, TRUE)
<1>1. s.FirstFreePage \in Nat /\ s.TotalPages \in Nat /\ f \in Nat
  BY DEF PageFramesType, Passed
<1>2. NextFree(s) = {}
  BY <1>1 DEF NextFree, Passed
<1>3. Max({s.FirstFreePage, s.TotalPages}) = f
  BY <1>1, MaxIs DEF Passed
<1>4. request_page(s)
        = Answer([s EXCEPT !.FirstFreePage = Max({@, s.TotalPages})], nullptr, TRUE)
  BY <1>2 DEF request_page
<1> QED BY <1>3, <1>4 DEF Moved-----------------------------------------------------------------------------
(* request_pages: no run that fits starts below the loop counter, and the  *)
(* counter stops only past a locked frame.                                 *)

NoFitBelow(s, n, c) == \A j \in Fits(s, n) : j >= c

RefusedAtOnce(s, n) == n > s.TotalFreePages \/ n > s.MaxFreePagesInARow

LEMMA FitsAre ==
  ASSUME NEW s, PageFramesType(s), NEW n \in Nat
  PROVE  /\ s.FirstFreePage \in Nat /\ s.PageMap.Size \in Nat
         /\ Fits(s, n) \in SUBSET Nat
         /\ \A j : j \in Fits(s, n) <=>
                     /\ j \in s.FirstFreePage .. s.PageMap.Size - 1
                     /\ j + n < s.PageMap.Size
                     /\ \A k \in Frames(j, n) : ~locked(s, k)
BY DEF PageFramesType, Fits, Searched, B!length

LEMMA RunFound ==
  ASSUME NEW s, PageFramesType(s), NEW n \in Nat, n > 1, ~RefusedAtOnce(s, n),
         NEW c \in Fits(s, n), NoFitBelow(s, n, c)
  PROVE  request_pages(s, n) = Answer(lock_pages(s, Frames(c, n)), c, FALSE)
<1>1. Fits(s, n) \in SUBSET Nat
  BY FitsAre
<1>2. \A y \in Fits(s, n) : y < c => FALSE
  BY <1>1 DEF NoFitBelow
<1>3. Min(Fits(s, n)) = c
  BY <1>1, <1>2, MinIs
<1>4. /\ n # 0 /\ n # 1 /\ Fits(s, n) # {}
      /\ ~(n > s.TotalFreePages \/ n > s.MaxFreePagesInARow)
  BY DEF RefusedAtOnce
<1> QED BY <1>3, <1>4 DEF request_pages

LEMMA NoRunFound ==
  ASSUME NEW s, NEW n \in Nat, n > 1, ~RefusedAtOnce(s, n), Fits(s, n) = {}
  PROVE  request_pages(s, n) = Answer(s, nullptr, RunsIntoEnd(s))
<1>1. /\ n # 0 /\ n # 1
      /\ ~(n > s.TotalFreePages \/ n > s.MaxFreePagesInARow)
  BY DEF RefusedAtOnce
<1> QED BY <1>1 DEF request_pages

(* A locked frame rules out every start from which a run would hold it.    *)
LEMMA LockedFrameExcludes ==
  ASSUME NEW s, PageFramesType(s), NEW n \in Nat, NEW c \in Nat, NoFitBelow(s, n, c),
         NEW k \in Nat, c <= k, k < c + n, locked(s, k)
  PROVE  NoFitBelow(s, n, k + 1)
<1> SUFFICES ASSUME NEW j \in Fits(s, n) PROVE j >= k + 1
  BY DEF NoFitBelow
<1>1. j \in Nat /\ j >= c /\ \A q \in Frames(j, n) : ~locked(s, q)
  BY FitsAre DEF NoFitBelow
<1>2. k \notin j .. j + n - 1
  BY <1>1 DEF Frames
<1> QED BY <1>1, <1>2

-----------------------------------------------------------------------------
(* The inductive invariant: what each loop has done when its test is       *)
(* evaluated.                                                              *)
Typed ==
    /\ start \in Starts
    /\ call \in Calls
    /\ i \in Nat /\ index \in Nat /\ run \in Nat
    /\ pc \in {"for", "while", "done"}
    /\ pc = "while" => call.function = "request_pages"

LockedSoFar ==
    In("lock_pages", "for") =>
        i <= call.n /\ m = lock_pages(start, Frames(call.first, i))

FreedSoFar ==
    In("free_pages", "for") =>
        i <= call.n /\ m = free_pages(start, Frames(call.first, i))

PassedSoFar ==
    In("request_page", "for") =>
        Passed(start, m.FirstFreePage) /\ m = Moved(start, m.FirstFreePage)

SearchedSoFar ==
    call.function = "request_pages" /\ pc # "done" =>
        /\ m = start
        /\ i >= start.FirstFreePage
        /\ NoFitBelow(start, call.n, i)
        /\ i = start.FirstFreePage \/ (i <= start.PageMap.Size /\ locked(start, i - 1))

MeasuredSoFar ==
    pc = "while" =>
        /\ index = i + run
        /\ index < start.PageMap.Size
        /\ run < call.n
        /\ \A j \in i .. index - 1 : ~locked(start, j)

IInv ==
    /\ Typed
    /\ LockedSoFar
    /\ FreedSoFar
    /\ PassedSoFar
    /\ SearchedSoFar
    /\ MeasuredSoFar
    /\ LoopsAgree

LEMMA CallsTyped ==
  ASSUME Typed
  PROVE  /\ PageFramesType(start)
         /\ Word \in Nat /\ 1 < Word
         /\ call.n \in Nat /\ call.n < Word
         /\ call.first \in Nat
         /\ call.function \in {"lock_pages", "free_pages", "request_page", "request_pages"}
         /\ call.function = "request_page" => call = [function |-> "request_page", first |-> 0, n |-> 1]
<1>1. PageFramesType(start) /\ Word \in Nat /\ 1 < Word
  BY PageLoopsAssumption DEF Typed
<1>2. call \in Calls
  BY DEF Typed
<1>3. /\ call.function \in {"lock_pages", "free_pages", "request_page", "request_pages"}
      /\ call.first \in Addresses \cup {0}
      /\ call.n \in Counts \cup {1}
  BY <1>2 DEF Calls
<1>4. /\ call.n \in Nat /\ call.n < Word /\ call.first \in Nat
  <2>1. \A k \in Counts : k \in Nat /\ k < Word
    BY <1>1, PageLoopsAssumption DEF Counter
  <2>2. \A a \in Addresses : a \in Nat
    BY PageLoopsAssumption
  <2> QED BY <1>1, <1>3, <2>1, <2>2
<1>5. call.function = "request_page" => call = [function |-> "request_page", first |-> 0, n |-> 1]
  BY <1>2 DEF Calls
<1> QED BY <1>1, <1>3, <1>4, <1>5

LEMMA InvariantInit ==
  ASSUME Init PROVE IInv
<1>1. Typed
  <2>1. \A s \in Starts : s.FirstFreePage \in Nat
    BY PageLoopsAssumption DEF PageFramesType
  <2> QED BY <2>1 DEF Init, Typed
<1>2. LockedSoFar /\ FreedSoFar
  BY <1>1, CallsTyped, NoFramesNoChange DEF Init, LockedSoFar, FreedSoFar, In
<1>3. PassedSoFar
  BY <1>1, CallsTyped, MovedState DEF Init, PassedSoFar, Passed, PageFramesType
<1>4. SearchedSoFar
  <2>1. \A j \in Fits(start, call.n) : j >= start.FirstFreePage
    BY <1>1, CallsTyped, FitsAre
  <2>2. start.FirstFreePage \in Nat
    BY <1>1, CallsTyped DEF PageFramesType
  <2> QED BY <2>1, <2>2 DEF Init, SearchedSoFar, NoFitBelow
<1>5. MeasuredSoFar /\ LoopsAgree
  BY DEF Init, MeasuredSoFar, LoopsAgree
<1> QED BY <1>1, <1>2, <1>3, <1>4, <1>5 DEF IInv-----------------------------------------------------------------------------
(* One step of each loop.  Agreed: what a call that returns must show.     *)
Agreed == Expected' = Answer(m', out'.frame, out'.panics)

LEMMA ReturnInv ==
  ASSUME IInv, pc' = "done", UNCHANGED locals, Agreed
  PROVE  IInv'
BY DEF IInv, locals, Typed, LockedSoFar, FreedSoFar, PassedSoFar, SearchedSoFar,
       MeasuredSoFar, LoopsAgree, Agreed, In

(* One frame more is locked, or the loop returns.                          *)
LEMMA LockPagesInv ==
  ASSUME IInv, LockPages PROVE IInv'
<1> DEFINE S == Frames(call.first, call.n)
<1>1. /\ call.function = "lock_pages" /\ pc = "for"
      /\ i <= call.n /\ i \in Nat
      /\ m = lock_pages(start, Frames(call.first, i))
      /\ Typed
  BY DEF LockPages, PageLoop, IInv, LockedSoFar, In, Typed
<1>2. /\ PageFramesType(start) /\ Word \in Nat
      /\ call.n \in Nat /\ call.n < Word /\ call.first \in Nat
  BY <1>1, CallsTyped
<1>3. CASE /\ i < call.n
           /\ m' = lock_page(m, call.first + i)
           /\ i' = i + 1
           /\ UNCHANGED <<call, start, index, run, pc, out>>
  <2>1. m' = lock_pages(start, Frames(call.first, i + 1))
    <3>1. i + 1 < Word
      BY <1>1, <1>2, <1>3
    <3> QED BY <1>1, <1>2, <1>3, <3>1, LockOneMore
  <2>2. i' \in Nat /\ i' <= call.n
    BY <1>1, <1>2, <1>3
  <2>3. Typed'
    BY <1>1, <1>3, <2>2 DEF Typed
  <2> QED BY <1>1, <1>3, <2>1, <2>2, <2>3
          DEF IInv, LockedSoFar, FreedSoFar, PassedSoFar, SearchedSoFar, MeasuredSoFar,
              LoopsAgree, In
<1>4. CASE i = call.n /\ Return(nullptr, FALSE) /\ UNCHANGED m
  <2>1. Expected' = Answer(lock_pages(start, S), nullptr, FALSE)
    BY <1>1, <1>4 DEF Expected, Return, locals
  <2>2. Agreed
    BY <1>1, <1>4, <2>1 DEF Agreed, Return
  <2> QED BY <1>4, <2>2, ReturnInv DEF Return
<1> QED BY <1>3, <1>4 DEF LockPages, PageLoop

LEMMA FreePagesInv ==
  ASSUME IInv, FreePages PROVE IInv'
<1> DEFINE S == Frames(call.first, call.n)
<1>1. /\ call.function = "free_pages" /\ pc = "for"
      /\ i <= call.n /\ i \in Nat
      /\ m = free_pages(start, Frames(call.first, i))
      /\ Typed
  BY DEF FreePages, PageLoop, IInv, FreedSoFar, In, Typed
<1>2. /\ PageFramesType(start) /\ Word \in Nat
      /\ call.n \in Nat /\ call.n < Word /\ call.first \in Nat
  BY <1>1, CallsTyped
<1>3. CASE /\ i < call.n
           /\ m' = free_page(m, call.first + i)
           /\ i' = i + 1
           /\ UNCHANGED <<call, start, index, run, pc, out>>
  <2>1. m' = free_pages(start, Frames(call.first, i + 1))
    <3>1. i + 1 < Word
      BY <1>1, <1>2, <1>3
    <3> QED BY <1>1, <1>2, <1>3, <3>1, FreeOneMore
  <2>2. i' \in Nat /\ i' <= call.n
    BY <1>1, <1>2, <1>3
  <2>3. Typed'
    BY <1>1, <1>3, <2>2 DEF Typed
  <2> QED BY <1>1, <1>3, <2>1, <2>2, <2>3
          DEF IInv, LockedSoFar, FreedSoFar, PassedSoFar, SearchedSoFar, MeasuredSoFar,
              LoopsAgree, In
<1>4. CASE i = call.n /\ Return(nullptr, FALSE) /\ UNCHANGED m
  <2>1. Expected' = Answer(free_pages(start, S), nullptr, FALSE)
    BY <1>1, <1>4 DEF Expected, Return, locals
  <2>2. Agreed
    BY <1>1, <1>4, <2>1 DEF Agreed, Return
  <2> QED BY <1>4, <2>2, ReturnInv DEF Return
<1> QED BY <1>3, <1>4 DEF FreePages, PageLoop

LEMMA PassedTyped ==
  ASSUME IInv, In("request_page", "for")
  PROVE  /\ Typed
         /\ PageFramesType(start)
         /\ Passed(start, m.FirstFreePage)
         /\ m = Moved(start, m.FirstFreePage)
         /\ m.FirstFreePage \in Nat
         /\ m.TotalPages = start.TotalPages
         /\ \A j : locked(m, j) <=> locked(start, j)
<1>1. /\ Passed(start, m.FirstFreePage)
      /\ m = Moved(start, m.FirstFreePage)
      /\ Typed
  BY DEF IInv, PassedSoFar
<1>2. PageFramesType(start) /\ m.FirstFreePage \in Nat
  BY <1>1, CallsTyped DEF Passed
<1> QED BY <1>1, <1>2, MovedState

LEMMA SkipLockedInv ==
  ASSUME IInv, SkipLocked PROVE IInv'
<1> DEFINE f == m.FirstFreePage
<1>1. /\ In("request_page", "for")
      /\ f < m.TotalPages /\ locked(m, f)
      /\ m' = [m EXCEPT !.FirstFreePage = @ + 1]
      /\ UNCHANGED <<call, start, i, index, run, pc, out>>
  BY DEF SkipLocked
<1>2. /\ Typed /\ PageFramesType(start)
      /\ Passed(start, f) /\ m = Moved(start, f)
      /\ f \in Nat /\ f < start.TotalPages /\ locked(start, f)
  BY <1>1, PassedTyped
<1>3. m' = Moved(start, f + 1) /\ m'.FirstFreePage = f + 1
  <2>1. m' = [Moved(start, f) EXCEPT !.FirstFreePage = f + 1]
    BY <1>1, <1>2, MovedState
  <2>2. f + 1 \in Nat
    BY <1>2
  <2> HIDE DEF f
  <2> QED BY <1>2, <2>1, <2>2, MovedState
<1>4. Passed(start, f + 1)
  <2>1. start.FirstFreePage \in Nat /\ start.TotalPages \in Nat
    BY <1>2 DEF PageFramesType
  <2> HIDE DEF f
  <2> QED BY <1>2, <2>1 DEF Passed
<1>5. PassedSoFar'
  BY <1>1, <1>3, <1>4 DEF PassedSoFar
<1>6. Typed'
  BY <1>1, <1>2 DEF Typed
<1> QED BY <1>1, <1>5, <1>6 DEF IInv, LockedSoFar, FreedSoFar, SearchedSoFar, MeasuredSoFar,
                               LoopsAgree, In

LEMMA EatPageInv ==
  ASSUME IInv, EatPage PROVE IInv'
<1> DEFINE f == m.FirstFreePage
<1>1. /\ In("request_page", "for")
      /\ f < m.TotalPages /\ ~locked(m, f)
      /\ m' = [lock_page(m, f) EXCEPT !.FirstFreePage = @ + 1]
      /\ Return(f, FALSE)
  BY DEF EatPage
<1>2. /\ Typed /\ PageFramesType(start)
      /\ Passed(start, f) /\ m = Moved(start, f)
      /\ f \in Nat /\ f < start.TotalPages /\ ~locked(start, f)
  BY <1>1, PassedTyped
<1>3. m' = [lock_page(start, f) EXCEPT !.FirstFreePage = f + 1]
  <2>1. m' = [lock_page(Moved(start, f), f) EXCEPT !.FirstFreePage = @ + 1]
    BY <1>1, <1>2
  <2> HIDE DEF f
  <2> QED BY <1>2, <2>1, MovedLock
<1>4. Expected' = request_page(start)
  BY <1>1 DEF Expected, In, Return, locals
<1>5. request_page(start) = Answer(m', f, FALSE)
  <2> HIDE DEF f
  <2> QED BY <1>2, <1>3, SearchFinds
<1>6. Agreed
  BY <1>1, <1>4, <1>5 DEF Agreed, Return
<1> QED BY <1>1, <1>6, ReturnInv DEF Return

LEMMA RanOutInv ==
  ASSUME IInv, RanOut PROVE IInv'
<1> DEFINE f == m.FirstFreePage
<1>1. /\ In("request_page", "for")
      /\ f >= m.TotalPages
      /\ m' = m
      /\ Return(nullptr, TRUE)
  BY DEF RanOut
<1>2. /\ Typed /\ PageFramesType(start)
      /\ Passed(start, f) /\ m = Moved(start, f)
      /\ f >= start.TotalPages
  BY <1>1, PassedTyped
<1>3. Expected' = request_page(start)
  BY <1>1 DEF Expected, In, Return, locals
<1>4. request_page(start) = Answer(m', nullptr, TRUE)
  <2> HIDE DEF f
  <2> QED BY <1>1, <1>2, SearchFails
<1>5. Agreed
  BY <1>1, <1>3, <1>4 DEF Agreed, Return
<1> QED BY <1>1, <1>5, ReturnInv DEF Return-----------------------------------------------------------------------------
(* The steps of request_pages.                                             *)

LEMMA SearchTyped ==
  ASSUME IInv, call.function = "request_pages", pc # "done"
  PROVE  /\ Typed
         /\ PageFramesType(start)
         /\ m = start
         /\ i \in Nat /\ index \in Nat /\ run \in Nat /\ call.n \in Nat
         /\ start.FirstFreePage \in Nat /\ start.PageMap.Size \in Nat
         /\ i >= start.FirstFreePage
         /\ NoFitBelow(start, call.n, i)
         /\ i = start.FirstFreePage \/ (i <= start.PageMap.Size /\ locked(start, i - 1))
BY CallsTyped DEF IInv, SearchedSoFar, Typed, PageFramesType

\* The request is neither empty, nor for one page, nor refused at once.
Proper(n) == n \in Nat /\ n > 1 /\ ~RefusedAtOnce(start, n)

LEMMA SearchingIsProper ==
  ASSUME IInv, NEW label, label # "done", Searching(label)
  PROVE  Proper(call.n) /\ call.function = "request_pages" /\ pc = label
<1>1. /\ call.function = "request_pages" /\ pc = label
      /\ call.n \in 2 .. m.TotalFreePages
      /\ call.n <= m.MaxFreePagesInARow
  BY DEF Searching, In
<1>2. m = start /\ call.n \in Nat /\ PageFramesType(start)
  BY <1>1, SearchTyped
<1>3. start.TotalFreePages \in Nat /\ start.MaxFreePagesInARow \in Nat
  BY <1>2, PageLoopsAssumption DEF PageFramesType, Counter
<1> QED BY <1>1, <1>2, <1>3 DEF Proper, RefusedAtOnce

LEMMA RejectInv ==
  ASSUME IInv, Reject PROVE IInv'
<1>1. /\ call.function = "request_pages" /\ pc = "for"
      /\ \/ call.n = 0
         \/ call.n > 1 /\ (call.n > m.TotalFreePages \/ call.n > m.MaxFreePagesInARow)
      /\ Return(nullptr, FALSE) /\ m' = m
  BY DEF Reject, In
<1>2. m = start /\ call.n \in Nat
  BY <1>1, SearchTyped
<1>3. Expected' = request_pages(start, call.n)
  BY <1>1 DEF Expected, Return, locals
<1>4. request_pages(start, call.n) = Answer(start, nullptr, FALSE)
  <2>1. CASE call.n = 0
    BY <2>1 DEF request_pages
  <2>2. CASE call.n > 1 /\ (call.n > start.TotalFreePages \/ call.n > start.MaxFreePagesInARow)
    <3>1. call.n # 0 /\ call.n # 1
      BY <1>2, <2>2
    <3> QED BY <2>2, <3>1 DEF request_pages
  <2> QED BY <1>1, <1>2, <2>1, <2>2
<1>5. Agreed
  BY <1>1, <1>2, <1>3, <1>4 DEF Agreed, Return
<1> QED BY <1>1, <1>5, ReturnInv DEF Return

LEMMA OnePageInv ==
  ASSUME IInv, OnePage PROVE IInv'
<1>1. /\ call.function = "request_pages" /\ pc = "for" /\ call.n = 1
      /\ call' = [call EXCEPT !.function = "request_page"]
      /\ UNCHANGED <<start, m, i, index, run, pc, out>>
  BY DEF OnePage, In
<1>2. Typed /\ PageFramesType(start) /\ m = start /\ start.FirstFreePage \in Nat
  BY <1>1, SearchTyped
<1>3. call' \in Calls /\ call'.function = "request_page"
  BY <1>1, <1>2 DEF Typed, Calls
<1>4. Passed(start, m.FirstFreePage) /\ m = Moved(start, m.FirstFreePage)
  BY <1>2, MovedState DEF Passed
<1>5. Typed'
  BY <1>1, <1>2, <1>3 DEF Typed
<1> QED BY <1>1, <1>3, <1>4, <1>5
        DEF IInv, LockedSoFar, FreedSoFar, PassedSoFar, SearchedSoFar, MeasuredSoFar,
            LoopsAgree, In

LEMMA SkipLockedRunInv ==
  ASSUME IInv, SkipLockedRun PROVE IInv'
<1>1. /\ Proper(call.n) /\ call.function = "request_pages" /\ pc = "for"
      /\ i < m.PageMap.Size /\ locked(m, i)
      /\ i' = i + 1
      /\ UNCHANGED <<call, start, m, index, run, pc, out>>
  BY SearchingIsProper DEF SkipLockedRun, B!length
<1>2. /\ Typed /\ PageFramesType(start) /\ m = start
      /\ i \in Nat /\ call.n \in Nat /\ call.n > 1
      /\ start.FirstFreePage \in Nat /\ start.PageMap.Size \in Nat
      /\ i >= start.FirstFreePage
      /\ NoFitBelow(start, call.n, i)
  BY <1>1, SearchTyped DEF Proper
<1>3. NoFitBelow(start, call.n, i + 1)
  BY <1>1, <1>2, LockedFrameExcludes
<1>4. i' >= start.FirstFreePage /\ i' <= start.PageMap.Size /\ i' - 1 = i /\ i' \in Nat
  BY <1>1, <1>2
<1>5. SearchedSoFar' /\ Typed'
  BY <1>1, <1>2, <1>3, <1>4 DEF SearchedSoFar, Typed
<1> QED BY <1>1, <1>5 DEF IInv, LockedSoFar, FreedSoFar, PassedSoFar, MeasuredSoFar,
                         LoopsAgree, In

LEMMA StartRunInv ==
  ASSUME IInv, StartRun PROVE IInv'
<1>1. /\ Proper(call.n) /\ call.function = "request_pages" /\ pc = "for"
      /\ i < m.PageMap.Size /\ ~locked(m, i)
      /\ index' = i /\ run' = 0 /\ pc' = "while"
      /\ UNCHANGED <<call, start, m, i, out>>
  BY SearchingIsProper DEF StartRun, B!length
<1>2. Typed /\ m = start /\ i \in Nat /\ call.n \in Nat /\ call.n > 1
  BY <1>1, SearchTyped DEF Proper
<1>3. MeasuredSoFar'
  BY <1>1, <1>2 DEF MeasuredSoFar
<1>4. SearchedSoFar' /\ Typed'
  BY <1>1, <1>2 DEF IInv, SearchedSoFar, Typed
<1> QED BY <1>1, <1>3, <1>4 DEF IInv, LockedSoFar, FreedSoFar, PassedSoFar, LoopsAgree, In

LEMMA NoRunInv ==
  ASSUME IInv, NoRun PROVE IInv'
<1>1. /\ Proper(call.n) /\ call.function = "request_pages" /\ pc = "for"
      /\ i >= m.PageMap.Size
      /\ Return(nullptr, FALSE) /\ m' = m
  BY SearchingIsProper DEF NoRun, B!length
<1>2. /\ PageFramesType(start) /\ m = start
      /\ i \in Nat /\ call.n \in Nat /\ call.n > 1
      /\ start.FirstFreePage \in Nat /\ start.PageMap.Size \in Nat
      /\ NoFitBelow(start, call.n, i)
      /\ i = start.FirstFreePage \/ (i <= start.PageMap.Size /\ locked(start, i - 1))
  BY <1>1, SearchTyped DEF Proper
<1>3. Fits(start, call.n) = {}
  <2> SUFFICES ASSUME NEW j \in Fits(start, call.n) PROVE FALSE
    OBVIOUS
  <2>1. j \in Nat /\ j < start.PageMap.Size /\ j >= i
    BY <1>2, FitsAre DEF NoFitBelow
  <2> QED BY <1>1, <1>2, <2>1
<1>4. ~RunsIntoEnd(start)
  <2> DEFINE last == start.PageMap.Size - 1
  <2>1. CASE i = start.FirstFreePage
    <3>1. last \notin Searched(start)
      BY <1>1, <1>2, <2>1 DEF Searched, B!length
    <3> QED BY <3>1 DEF RunsIntoEnd, B!length
  <2>2. CASE i <= start.PageMap.Size /\ locked(start, i - 1)
    <3>1. i - 1 = last
      BY <1>1, <1>2, <2>2
    <3> QED BY <2>2, <3>1 DEF RunsIntoEnd, B!length
  <2> QED BY <1>2, <2>1, <2>2
<1>5. Expected' = request_pages(start, call.n)
  BY <1>1 DEF Expected, Return, locals
<1>6. request_pages(start, call.n) = Answer(start, nullptr, RunsIntoEnd(start))
  BY <1>1, <1>3, NoRunFound DEF Proper
<1>7. RunsIntoEnd(start) = FALSE
  BY <1>4 DEF RunsIntoEnd
<1>8. Agreed
  BY <1>1, <1>2, <1>5, <1>6, <1>7 DEF Agreed, Return
<1> QED BY <1>1, <1>8, ReturnInv DEF Return
(* A run being measured: its frames are free, it is too short so far, and  *)
(* it ends before the last index.                                          *)
LEMMA MeasureTyped ==
  ASSUME IInv, Searching("while")
  PROVE  /\ Proper(call.n) /\ call.function = "request_pages" /\ pc = "while"
         /\ Typed /\ PageFramesType(start) /\ m = start
         /\ i \in Nat /\ run \in Nat /\ index = i + run /\ index \in Nat
         /\ call.n \in Nat /\ call.n > 1 /\ run < call.n
         /\ start.FirstFreePage \in Nat /\ start.PageMap.Size \in Nat
         /\ i >= start.FirstFreePage
         /\ index < start.PageMap.Size
         /\ NoFitBelow(start, call.n, i)
         /\ \A j \in i .. index - 1 : ~locked(start, j)
BY SearchingIsProper, SearchTyped DEF IInv, MeasuredSoFar, Proper

LEMMA EndRunInv ==
  ASSUME IInv, EndRun PROVE IInv'
<1>1. /\ Searching("while")
      /\ locked(m, index)
      /\ i' = index + 1 /\ pc' = "for"
      /\ UNCHANGED <<call, start, m, index, run, out>>
  BY DEF EndRun
<1>2. /\ call.function = "request_pages" /\ pc = "while"
      /\ Typed /\ PageFramesType(start) /\ m = start
      /\ i \in Nat /\ run \in Nat /\ index = i + run /\ index \in Nat
      /\ call.n \in Nat /\ run < call.n
      /\ start.FirstFreePage \in Nat /\ start.PageMap.Size \in Nat
      /\ i >= start.FirstFreePage
      /\ index < start.PageMap.Size
      /\ NoFitBelow(start, call.n, i)
  BY <1>1, MeasureTyped
<1>3. i <= index /\ index < i + call.n
  BY <1>2
<1>4. NoFitBelow(start, call.n, index + 1)
  BY <1>1, <1>2, <1>3, LockedFrameExcludes
<1>5. i' >= start.FirstFreePage /\ i' <= start.PageMap.Size /\ i' - 1 = index /\ i' \in Nat
  BY <1>1, <1>2
<1>6. SearchedSoFar' /\ Typed'
  BY <1>1, <1>2, <1>4, <1>5 DEF SearchedSoFar, Typed
<1> QED BY <1>1, <1>2, <1>6 DEF IInv, LockedSoFar, FreedSoFar, PassedSoFar, MeasuredSoFar,
                               LoopsAgree, In

LEMMA GrowRunInv ==
  ASSUME IInv, GrowRun PROVE IInv'
<1> DEFINE n == call.n
           size == start.PageMap.Size
<1>1. /\ Searching("while")
      /\ ~locked(m, index)
      /\ \/ index + 1 >= size /\ Return(nullptr, TRUE) /\ m' = m
         \/ /\ index + 1 < size /\ run + 1 >= n
            /\ m' = lock_pages(m, Frames(i, n))
            /\ Return(i, FALSE)
         \/ /\ index + 1 < size /\ run + 1 < n
            /\ run' = run + 1 /\ index' = index + 1
            /\ UNCHANGED <<call, start, m, i, pc, out>>
  <2>1. Searching("while")
    BY DEF GrowRun
  <2>2. m = start
    BY <2>1, MeasureTyped
  <2> QED BY <2>1, <2>2 DEF GrowRun, B!length
<1>2. /\ Proper(n) /\ call.function = "request_pages" /\ pc = "while"
      /\ Typed /\ PageFramesType(start) /\ m = start
      /\ i \in Nat /\ run \in Nat /\ index = i + run /\ index \in Nat
      /\ n \in Nat /\ n > 1 /\ run < n
      /\ start.FirstFreePage \in Nat /\ size \in Nat
      /\ i >= start.FirstFreePage
      /\ index < size
      /\ NoFitBelow(start, n, i)
      /\ \A j \in i .. index - 1 : ~locked(start, j)
      /\ ~locked(start, index)
  BY <1>1, MeasureTyped
<1>3. CASE index + 1 >= size /\ Return(nullptr, TRUE) /\ m' = m
  <2>1. Fits(start, n) = {}
    <3> SUFFICES ASSUME NEW j \in Fits(start, n) PROVE FALSE
      OBVIOUS
    <3>1. j \in Nat /\ j >= i /\ j + n < size
      BY <1>2, FitsAre DEF NoFitBelow
    <3> QED BY <1>2, <1>3, <3>1
  <2>2. index = size - 1 /\ index \in start.FirstFreePage .. size - 1
    BY <1>2, <1>3
  <2>3. RunsIntoEnd(start) = TRUE
    BY <1>2, <2>2 DEF RunsIntoEnd, Searched, B!length
  <2>4. request_pages(start, n) = Answer(start, nullptr, RunsIntoEnd(start))
    BY <1>2, <2>1, NoRunFound DEF Proper
  <2>5. Expected' = request_pages(start, n)
    BY <1>2, <1>3 DEF Expected, Return, locals
  <2>6. Agreed
    BY <1>2, <1>3, <2>3, <2>4, <2>5 DEF Agreed, Return
  <2> QED BY <1>3, <2>6, ReturnInv DEF Return
<1>4. CASE /\ index + 1 < size /\ run + 1 >= n
           /\ m' = lock_pages(m, Frames(i, n))
           /\ Return(i, FALSE)
  <2>1. n = run + 1 /\ i + n < size /\ i \in start.FirstFreePage .. size - 1
    BY <1>2, <1>4
  <2>2. \A k \in Frames(i, n) : k \in i .. index - 1 \/ k = index
    BY <1>2, <2>1 DEF Frames
  <2>3. i \in Fits(start, n)
    BY <1>2, <2>1, <2>2, FitsAre
  <2>4. request_pages(start, n) = Answer(lock_pages(start, Frames(i, n)), i, FALSE)
    BY <1>2, <2>3, RunFound DEF Proper
  <2>5. Expected' = request_pages(start, n)
    BY <1>2, <1>4 DEF Expected, Return, locals
  <2>6. Agreed
    BY <1>2, <1>4, <2>4, <2>5 DEF Agreed, Return
  <2> QED BY <1>4, <2>6, ReturnInv DEF Return
<1>5. CASE /\ index + 1 < size /\ run + 1 < n
           /\ run' = run + 1 /\ index' = index + 1
           /\ UNCHANGED <<call, start, m, i, pc, out>>
  <2>1. \A j \in i .. index' - 1 : j \in i .. index - 1 \/ j = index
    BY <1>2, <1>5
  <2>2. index' = i + run' /\ run' \in Nat /\ index' \in Nat
    BY <1>2, <1>5
  <2>3. MeasuredSoFar'
    BY <1>2, <1>5, <2>1, <2>2 DEF MeasuredSoFar
  <2>4. SearchedSoFar' /\ Typed'
    BY <1>2, <1>5, <2>2 DEF IInv, SearchedSoFar, Typed
  <2> QED BY <1>2, <1>5, <2>3, <2>4 DEF IInv, LockedSoFar, FreedSoFar, PassedSoFar,
                                        LoopsAgree, In
<1> QED BY <1>1, <1>3, <1>4, <1>5

-----------------------------------------------------------------------------
LEMMA InvariantStep ==
  ASSUME IInv, [Next]_vars PROVE IInv'
<1>1. CASE UNCHANGED vars
  BY <1>1 DEF vars, IInv, Typed, LockedSoFar, FreedSoFar, PassedSoFar, SearchedSoFar,
              MeasuredSoFar, LoopsAgree, Expected, In
<1>2. CASE Done
  BY <1>1, <1>2 DEF Done
<1>3. CASE Step
  BY <1>3, LockPagesInv, FreePagesInv, SkipLockedInv, EatPageInv, RanOutInv, RejectInv,
     OnePageInv, SkipLockedRunInv, StartRunInv, NoRunInv, GrowRunInv, EndRunInv DEF Step
<1> QED BY <1>1, <1>2, <1>3 DEF Next

(* The inductive invariant holds: part-way, lock_pages and free_pages have *)
(* done what they do to the frames visited, request_page has passed only   *)
(* locked frames, and request_pages has passed over no run that fits       *)
(* (physical_memory_manager.cc).                                           *)
THEOREM LoopInvariant == Spec => []IInv
<1>1. Init => IInv
  BY InvariantInit
<1>2. IInv /\ [Next]_vars => IInv'
  BY InvariantStep
<1> QED BY <1>1, <1>2, PTL DEF Spec

(* What lock_pages, free_pages, request_page and request_pages return and  *)
(* leave behind, page by page, is what PageFrames says they do in one      *)
(* step: the bits, both wrapping counters, the search cursor, the frame    *)
(* and the panic, for any bitmap, counters, range and number of pages.     *)
THEOREM LoopsAlwaysAgree == Spec => []LoopsAgree
<1>1. IInv => LoopsAgree
  BY DEF IInv
<1> QED BY <1>1, LoopInvariant, PTL
=============================================================================
