----------------------------- MODULE HeapProofs -----------------------------
(***************************************************************************)
(* Proofs about the kernel heap, for every page size, header size and      *)
(* sequence of calls: the segments tile the heap, no two free ones are     *)
(* neighbours, and a segment is in use exactly while somebody holds it.    *)
(*                                                                         *)
(* The operations on segments are first described by what they do to the   *)
(* list S of headers, the heap's end E and its last header L, and shown to *)
(* keep a list that is Tiled so; the steps of the heap follow.             *)
(***************************************************************************)
EXTENDS Heap, TLAPS

H == HeaderSize
Rec(S, E, L) == [seg |-> S, end |-> E, lastHeader |-> L]

HeaderSet == [last : Int, next : Int, length : Nat \ {0}, free : BOOLEAN]

After(S, x) == x + H + S[x].length

\* The list's shape: what SegmentsTile says, and that no two segments overlap,
\* which the links alone imply only by induction along the list.
Tiled(S, E, L) ==
    /\ S = [x \in DOMAIN S |-> S[x]]
    /\ DOMAIN S \subseteq Nat
    /\ \A x \in DOMAIN S : S[x] \in HeaderSet
    /\ E \in Nat /\ 0 \in DOMAIN S /\ L \in DOMAIN S
    /\ \A x \in DOMAIN S : x = 0 <=> S[x].last = nullptr
    /\ \A x \in DOMAIN S : x = L <=> S[x].next = nullptr
    /\ \A x \in DOMAIN S : After(S, x) <= E
    /\ \A x \in DOMAIN S : S[x].next = nullptr => After(S, x) = E
    /\ \A x \in DOMAIN S : S[x].next # nullptr =>
          /\ S[x].next = After(S, x)
          /\ S[x].next \in DOMAIN S
          /\ S[S[x].next].last = x
    /\ \A x \in DOMAIN S : S[x].last # nullptr => S[x].last \in DOMAIN S /\ S[S[x].last].next = x
    /\ \A x, y \in DOMAIN S : x < y => After(S, x) <= y

\* The free segments that a free one follows.
Clash(S) == {x \in DOMAIN S : S[x].free /\ S[x].next # nullptr /\ S[S[x].next].free}

InUse(S) == {x \in DOMAIN S : ~S[x].free}

\* The list after the segment at a has swallowed the next one.
Merged(S, a) ==
    LET n == S[a].next IN
    [x \in DOMAIN S \ {n} |->
        CASE x = a -> Header(S[a].last, S[n].next, S[a].length + S[n].length + H, S[a].free)
          [] x # a /\ x = S[n].next -> Header(a, S[x].next, S[x].length, S[x].free)
          [] x # a /\ x # S[n].next -> S[x]]

\* The list after n bytes of the segment at a were split off.
Split(S, a, n) ==
    LET s == a + H + n IN
    [x \in DOMAIN S \cup {s} |->
        CASE x = s -> Header(a, S[a].next, S[a].length - n - H, S[a].free)
          [] x # s /\ x = a -> Header(S[a].last, s, n, S[a].free)
          [] x # s /\ x # a /\ x = S[a].next -> Header(s, S[x].next, S[x].length, S[x].free)
          [] x # s /\ x # a /\ x # S[a].next -> S[x]]

\* The list after a free segment of so many bytes was added at its end.
Extended(S, E, L, bytes) ==
    [x \in DOMAIN S \cup {E} |->
        CASE x = E -> Header(L, nullptr, bytes - H, TRUE)
          [] x # E /\ x = L -> Header(S[L].last, E, S[L].length, S[L].free)
          [] x # E /\ x # L -> S[x]]

\* The list with the segment at a free or in use.
Marked(S, a, free) == [S EXCEPT ![a].free = free]

\* What the proofs use of HeapAssumption.
LEMMA Constants == HeaderSize \in Nat /\ HeaderSize > 0 /\ PageSize \in Nat /\ PageSize > HeaderSize
  BY HeapAssumption DEF MinSplit

\* combine_forward's swallowing of the next segment leaves the list whole.
LEMMA MergedTiled ==
  ASSUME NEW S, NEW E, NEW L, Tiled(S, E, L), NEW a \in DOMAIN S, S[a].next # nullptr
  PROVE  LET n == S[a].next IN
         /\ Tiled(Merged(S, a), E, IF L = n THEN a ELSE L)
         /\ DOMAIN Merged(S, a) = DOMAIN S \ {n}
         /\ a # n
<1> DEFINE n == S[a].next
           nn == S[n].next
           M == Merged(S, a)
           K == IF L = n THEN a ELSE L
<1>0. HeaderSize \in Nat /\ HeaderSize > 0
  BY Constants
<1>1. /\ n \in DOMAIN S /\ n = a + H + S[a].length /\ S[n].last = a
      /\ a \in Nat /\ n \in Nat /\ n > a /\ n # 0
      /\ S[a] \in HeaderSet /\ S[n] \in HeaderSet
  BY <1>0 DEF Tiled, HeaderSet, After, H
<1>2. nn # nullptr => nn \in DOMAIN S /\ nn > n /\ nn = n + H + S[n].length /\ nn \in Nat /\ nn # a /\ S[nn].last = n
  BY <1>0, <1>1 DEF Tiled, HeaderSet, After, H
<1>3. /\ DOMAIN M = DOMAIN S \ {n}
      /\ M = [x \in DOMAIN M |-> M[x]]
      /\ M[a] = Header(S[a].last, nn, S[a].length + S[n].length + H, S[a].free)
      /\ nn # nullptr => M[nn] = Header(a, S[nn].next, S[nn].length, S[nn].free)
      /\ \A x \in DOMAIN M : x # a /\ x # nn => M[x] = S[x]
  BY <1>1, <1>2 DEF Merged
<1> HIDE DEF M
<1>4. \A x \in DOMAIN M : x # a =>
         /\ M[x].next = S[x].next /\ M[x].length = S[x].length /\ M[x].free = S[x].free
         /\ M[x].last = IF x = nn THEN a ELSE S[x].last
         /\ M[x] \in HeaderSet
  <2> SUFFICES ASSUME NEW x \in DOMAIN M, x # a
               PROVE  /\ M[x].next = S[x].next /\ M[x].length = S[x].length /\ M[x].free = S[x].free
                      /\ M[x].last = IF x = nn THEN a ELSE S[x].last
                      /\ M[x] \in HeaderSet
    OBVIOUS
  <2>1. S[x] \in HeaderSet
    BY <1>3 DEF Tiled
  <2>2. CASE x = nn
    <3>1. nn # nullptr
      BY <2>2, <1>3 DEF Tiled, nullptr
    <3> QED BY <1>1, <1>3, <2>1, <2>2, <3>1 DEF Header, HeaderSet
  <2>3. CASE x # nn
    BY <1>3, <2>1, <2>3
  <2> QED BY <2>2, <2>3
<1>5. /\ M[a].last = S[a].last /\ M[a].next = nn
      /\ M[a].length = S[a].length + S[n].length + H /\ M[a].free = S[a].free
      /\ M[a] \in HeaderSet
  BY <1>0, <1>1, <1>3 DEF Header, HeaderSet, H
<1>6. After(M, a) = After(S, n)
  BY <1>0, <1>1, <1>5 DEF After, H, HeaderSet
<1>7. \A x \in DOMAIN M : x # a => After(M, x) = After(S, x)
  BY <1>4 DEF After
<1>8. Tiled(M, E, K)
  <2>1. DOMAIN M \subseteq Nat /\ E \in Nat /\ 0 \in DOMAIN M /\ K \in DOMAIN M
    BY <1>1, <1>3 DEF Tiled
  <2>2. \A x \in DOMAIN M : M[x] \in HeaderSet
    BY <1>4, <1>5
  <2>3. \A x \in DOMAIN M : x = 0 <=> M[x].last = nullptr
    BY <1>1, <1>2, <1>3, <1>4, <1>5 DEF Tiled, nullptr
  <2>4. \A x \in DOMAIN M : x = K <=> M[x].next = nullptr
    BY <1>1, <1>2, <1>3, <1>4, <1>5 DEF Tiled
  <2>5. \A x \in DOMAIN M : After(M, x) <= E
    BY <1>1, <1>3, <1>6, <1>7 DEF Tiled
  <2>6. \A x \in DOMAIN M : M[x].next = nullptr => After(M, x) = E
    BY <1>1, <1>3, <1>4, <1>5, <1>6, <1>7 DEF Tiled
  <2>7. \A x \in DOMAIN M : M[x].next # nullptr =>
           /\ M[x].next = After(M, x)
           /\ M[x].next \in DOMAIN M
           /\ M[M[x].next].last = x
    <3> SUFFICES ASSUME NEW x \in DOMAIN M, M[x].next # nullptr
                 PROVE  /\ M[x].next = After(M, x)
                        /\ M[x].next \in DOMAIN M
                        /\ M[M[x].next].last = x
      OBVIOUS
    <3>1. CASE x = a
      BY <3>1, <1>1, <1>2, <1>3, <1>4, <1>5, <1>6 DEF After, H
    <3>2. CASE x # a
      <4>1. /\ S[x].next # nullptr /\ S[x].next = After(S, x) /\ S[x].next \in DOMAIN S
            /\ S[S[x].next].last = x
        BY <3>2, <1>3, <1>4 DEF Tiled
      <4>2. S[x].next # n
        BY <4>1, <1>1, <3>2
      <4>3. S[x].next # nn
        BY <4>1, <1>2, <1>3
      <4>4. M[x].next = S[x].next /\ M[x].next = After(M, x) /\ M[x].next \in DOMAIN M
        BY <4>1, <4>2, <3>2, <1>3, <1>4, <1>7
      <4>5. M[M[x].next].last = x
        <5>1. CASE S[x].next = a
          BY <5>1, <4>1, <4>4, <1>5
        <5>2. CASE S[x].next # a
          BY <5>2, <4>1, <4>3, <4>4, <1>4
        <5> QED BY <5>1, <5>2
      <4> QED BY <4>4, <4>5
    <3> QED BY <3>1, <3>2
  <2>8. \A x, y \in DOMAIN M : x < y => After(M, x) <= y
    <3> SUFFICES ASSUME NEW x \in DOMAIN M, NEW y \in DOMAIN M, x < y
                 PROVE  After(M, x) <= y
      OBVIOUS
    <3>1. CASE x = a
      <4>1. y \in DOMAIN S /\ y # n /\ y \in Nat /\ a < y
        BY <3>1, <1>3 DEF Tiled
      <4>2. After(S, a) <= y /\ After(S, a) = n
        BY <4>1, <1>1 DEF Tiled, After
      <4>3. n < y
        BY <4>1, <4>2, <1>1
      <4>4. After(S, n) <= y
        BY <4>1, <4>3, <1>1 DEF Tiled
      <4> QED BY <4>4, <3>1, <1>6
    <3>2. CASE x # a
      BY <3>2, <1>3, <1>7 DEF Tiled
    <3> QED BY <3>1, <3>2
  <2>9. \A x \in DOMAIN M : M[x].last # nullptr => M[x].last \in DOMAIN M /\ M[M[x].last].next = x
    <3> SUFFICES ASSUME NEW x \in DOMAIN M, M[x].last # nullptr
                 PROVE  M[x].last \in DOMAIN M /\ M[M[x].last].next = x
      OBVIOUS
    <3>1. CASE x = a
      BY <3>1, <1>1, <1>2, <1>3, <1>4, <1>5 DEF Tiled
    <3>2. CASE x # a /\ x = nn
      BY <3>2, <1>1, <1>3, <1>4, <1>5
    <3>3. CASE x # a /\ x # nn
      <4>1. x \in DOMAIN S /\ S[x].last \in DOMAIN S /\ S[S[x].last].next = x /\ M[x].last = S[x].last
        BY <3>3, <1>3, <1>4 DEF Tiled
      <4>2. S[x].last # a /\ S[x].last # n
        BY <4>1, <3>3, <1>3
      <4> QED BY <4>1, <4>2, <1>3, <1>4
    <3> QED BY <3>1, <3>2, <3>3
  <2> QED BY <2>1, <2>2, <2>3, <2>4, <2>5, <2>6, <2>7, <2>8, <2>9, <1>3 DEF Tiled
<1> QED BY <1>1, <1>3, <1>8 DEF M

\* So does splitting n bytes off,
LEMMA SplitTiled ==
  ASSUME NEW S, NEW E, NEW L, Tiled(S, E, L), NEW a \in DOMAIN S,
         NEW n \in Nat \ {0}, n + H < S[a].length
  PROVE  LET s == a + H + n IN
         /\ Tiled(Split(S, a, n), E, IF S[a].next = nullptr THEN s ELSE L)
         /\ DOMAIN Split(S, a, n) = DOMAIN S \cup {s}
         /\ s \notin DOMAIN S
<1> DEFINE s == a + H + n
           nn == S[a].next
           M == Split(S, a, n)
           K == IF nn = nullptr THEN s ELSE L
<1>0. HeaderSize \in Nat /\ HeaderSize > 0
  BY Constants
<1>1. /\ a \in Nat /\ s \in Nat /\ s > a /\ s # 0 /\ s < After(S, a) /\ After(S, a) \in Nat
      /\ S[a] \in HeaderSet
  BY <1>0 DEF Tiled, HeaderSet, After, H
<1>2. s \notin DOMAIN S
  BY <1>1 DEF Tiled, After
<1>3. nn # nullptr => nn \in DOMAIN S /\ nn = After(S, a) /\ nn \in Nat /\ nn # a /\ nn # s /\ S[nn].last = a
  BY <1>1, <1>2 DEF Tiled, nullptr
<1>4. /\ DOMAIN M = DOMAIN S \cup {s}
      /\ M = [x \in DOMAIN M |-> M[x]]
      /\ M[s] = Header(a, nn, S[a].length - n - H, S[a].free)
      /\ M[a] = Header(S[a].last, s, n, S[a].free)
      /\ nn # nullptr => M[nn] = Header(s, S[nn].next, S[nn].length, S[nn].free)
      /\ \A x \in DOMAIN M : x # a /\ x # nn /\ x # s => M[x] = S[x]
  BY <1>1, <1>2, <1>3 DEF Split
<1> HIDE DEF M
<1>5. \A x \in DOMAIN S : x # a =>
         /\ M[x].next = S[x].next /\ M[x].length = S[x].length /\ M[x].free = S[x].free
         /\ M[x].last = IF x = nn THEN s ELSE S[x].last
         /\ M[x] \in HeaderSet
  <2> SUFFICES ASSUME NEW x \in DOMAIN S, x # a
               PROVE  /\ M[x].next = S[x].next /\ M[x].length = S[x].length /\ M[x].free = S[x].free
                      /\ M[x].last = IF x = nn THEN s ELSE S[x].last
                      /\ M[x] \in HeaderSet
    OBVIOUS
  <2>1. S[x] \in HeaderSet /\ x # s
    BY <1>2 DEF Tiled
  <2>2. CASE x = nn
    <3>1. nn # nullptr
      BY <2>2 DEF Tiled, nullptr
    <3> QED BY <1>1, <1>4, <2>1, <2>2, <3>1 DEF Header, HeaderSet
  <2>3. CASE x # nn
    BY <1>4, <2>1, <2>3
  <2> QED BY <2>2, <2>3
<1>6. /\ M[a].last = S[a].last /\ M[a].next = s /\ M[a].length = n /\ M[a].free = S[a].free
      /\ M[s].last = a /\ M[s].next = nn /\ M[s].length = S[a].length - n - H /\ M[s].free = S[a].free
      /\ M[a] \in HeaderSet /\ M[s] \in HeaderSet
  BY <1>0, <1>1, <1>4 DEF Header, HeaderSet, H
<1>7. After(M, a) = s /\ After(M, s) = After(S, a)
  BY <1>0, <1>1, <1>6 DEF After, H, HeaderSet
<1>8. \A x \in DOMAIN S : x # a => After(M, x) = After(S, x)
  BY <1>5 DEF After
<1>9. Tiled(M, E, K)
  <2>1. DOMAIN M \subseteq Nat /\ E \in Nat /\ 0 \in DOMAIN M /\ K \in DOMAIN M
    BY <1>1, <1>4 DEF Tiled
  <2>2. \A x \in DOMAIN M : M[x] \in HeaderSet
    BY <1>4, <1>5, <1>6
  <2>3. \A x \in DOMAIN M : x = 0 <=> M[x].last = nullptr
    BY <1>1, <1>2, <1>3, <1>4, <1>5, <1>6 DEF Tiled, nullptr
  <2>4. \A x \in DOMAIN M : x = K <=> M[x].next = nullptr
    BY <1>1, <1>2, <1>3, <1>4, <1>5, <1>6 DEF Tiled, nullptr
  <2>5. \A x \in DOMAIN M : After(M, x) <= E
    BY <1>1, <1>4, <1>7, <1>8 DEF Tiled, After
  <2>6. \A x \in DOMAIN M : M[x].next = nullptr => After(M, x) = E
    BY <1>1, <1>4, <1>5, <1>6, <1>7, <1>8 DEF Tiled, nullptr
  <2>7. \A x \in DOMAIN M : M[x].next # nullptr =>
           /\ M[x].next = After(M, x)
           /\ M[x].next \in DOMAIN M
           /\ M[M[x].next].last = x
    <3> SUFFICES ASSUME NEW x \in DOMAIN M, M[x].next # nullptr
                 PROVE  /\ M[x].next = After(M, x)
                        /\ M[x].next \in DOMAIN M
                        /\ M[M[x].next].last = x
      OBVIOUS
    <3>1. CASE x = a
      BY <3>1, <1>4, <1>6, <1>7
    <3>2. CASE x = s
      BY <3>2, <1>3, <1>4, <1>5, <1>6, <1>7
    <3>3. CASE x # a /\ x # s
      <4>1. /\ x \in DOMAIN S
            /\ S[x].next # nullptr /\ S[x].next = After(S, x) /\ S[x].next \in DOMAIN S
            /\ S[S[x].next].last = x
        BY <3>3, <1>4, <1>5 DEF Tiled
      <4>2. S[x].next # nn
        BY <4>1, <1>3, <3>3
      <4>3. M[x].next = S[x].next /\ M[x].next = After(M, x) /\ M[x].next \in DOMAIN M
        BY <4>1, <3>3, <1>4, <1>5, <1>8
      <4>4. M[M[x].next].last = x
        <5>1. CASE S[x].next = a
          BY <5>1, <4>1, <4>3, <1>6
        <5>2. CASE S[x].next # a
          BY <5>2, <4>1, <4>2, <4>3, <1>5
        <5> QED BY <5>1, <5>2
      <4> QED BY <4>3, <4>4
    <3> QED BY <3>1, <3>2, <3>3
  <2>8. \A x, y \in DOMAIN M : x < y => After(M, x) <= y
    <3> SUFFICES ASSUME NEW x \in DOMAIN M, NEW y \in DOMAIN M, x < y
                 PROVE  After(M, x) <= y
      OBVIOUS
    <3>1. x \in Nat /\ y \in Nat
      BY <2>1
    <3>2. \A z \in DOMAIN S : z > a => After(S, a) <= z
      BY DEF Tiled
    <3>3. \A z \in DOMAIN S : z < a => After(S, z) <= a
      BY DEF Tiled
    <3>4. CASE x = a
      BY <3>1, <3>2, <3>4, <1>1, <1>4, <1>7
    <3>5. CASE x = s
      BY <3>1, <3>2, <3>5, <1>1, <1>4, <1>7
    <3>6. CASE x # a /\ x # s
      <4>1. x \in DOMAIN S /\ After(M, x) = After(S, x)
        BY <3>6, <1>4, <1>8
      <4>2. CASE y = s
        <5>1. ~(x > a)
          BY <4>1, <4>2, <3>1, <3>2, <1>1
        <5>2. After(S, x) <= a
          BY <5>1, <4>1, <3>1, <3>3, <3>6, <1>1
        <5>3. After(S, x) \in Int
          BY <4>1, <1>0, <3>1 DEF Tiled, HeaderSet, After, H
        <5> QED BY <5>2, <5>3, <4>1, <4>2, <1>1
      <4>3. CASE y # s
        BY <4>1, <4>3, <1>4 DEF Tiled
      <4> QED BY <4>2, <4>3
    <3> QED BY <3>4, <3>5, <3>6
  <2>9. \A x \in DOMAIN M : M[x].last # nullptr => M[x].last \in DOMAIN M /\ M[M[x].last].next = x
    <3> SUFFICES ASSUME NEW x \in DOMAIN M, M[x].last # nullptr
                 PROVE  M[x].last \in DOMAIN M /\ M[M[x].last].next = x
      OBVIOUS
    <3>1. CASE x = a
      <4>1. S[a].last \in DOMAIN S /\ S[S[a].last].next = a /\ S[a].last # a
        BY <3>1, <1>3, <1>6 DEF Tiled
      <4> QED BY <4>1, <3>1, <1>4, <1>5, <1>6
    <3>2. CASE x = s
      BY <3>2, <1>4, <1>6
    <3>3. CASE x # a /\ x # s /\ x = nn
      BY <3>3, <1>4, <1>5, <1>6
    <3>4. CASE x # a /\ x # s /\ x # nn
      <4>1. x \in DOMAIN S /\ S[x].last \in DOMAIN S /\ S[S[x].last].next = x /\ M[x].last = S[x].last
        BY <3>4, <1>4, <1>5 DEF Tiled
      <4>2. S[x].last # a
        BY <4>1, <3>4
      <4> QED BY <4>1, <4>2, <1>4, <1>5
    <3> QED BY <3>1, <3>2, <3>3, <3>4
  <2> QED BY <2>1, <2>2, <2>3, <2>4, <2>5, <2>6, <2>7, <2>8, <2>9, <1>4 DEF Tiled
<1> QED BY <1>2, <1>4, <1>9 DEF M

\* and so does adding a segment at the end,
LEMMA ExtendedTiled ==
  ASSUME NEW S, NEW E, NEW L, Tiled(S, E, L), NEW bytes \in Nat, bytes > H
  PROVE  /\ Tiled(Extended(S, E, L, bytes), E + bytes, E)
         /\ DOMAIN Extended(S, E, L, bytes) = DOMAIN S \cup {E}
         /\ E \notin DOMAIN S
<1> DEFINE M == Extended(S, E, L, bytes)
<1>0. HeaderSize \in Nat /\ HeaderSize > 0
  BY Constants
<1>1. /\ E \in Nat /\ L \in Nat /\ L \in DOMAIN S /\ S[L] \in HeaderSet
      /\ S[L].next = nullptr /\ After(S, L) = E
  BY DEF Tiled
<1>2. \A x \in DOMAIN S : x \in Nat /\ S[x] \in HeaderSet /\ x < E /\ x < After(S, x) /\ After(S, x) <= E
                          /\ After(S, x) \in Nat
  BY <1>0, <1>1 DEF Tiled, After, H, HeaderSet
<1>3. E \notin DOMAIN S
  BY <1>1, <1>2
<1>4. /\ DOMAIN M = DOMAIN S \cup {E}
      /\ M = [x \in DOMAIN M |-> M[x]]
      /\ M[E] = Header(L, nullptr, bytes - H, TRUE)
      /\ M[L] = Header(S[L].last, E, S[L].length, S[L].free)
      /\ \A x \in DOMAIN S : x # L => M[x] = S[x]
  BY <1>1, <1>3 DEF Extended
<1> HIDE DEF M
<1>5. /\ M[E].last = L /\ M[E].next = nullptr /\ M[E].length = bytes - H /\ M[E].free = TRUE
      /\ M[E] \in HeaderSet
  BY <1>0, <1>1, <1>4 DEF Header, HeaderSet, H, nullptr
<1>6. /\ M[L].last = S[L].last /\ M[L].next = E /\ M[L].length = S[L].length /\ M[L].free = S[L].free
      /\ M[L] \in HeaderSet
  BY <1>1, <1>4 DEF Header, HeaderSet
<1>7. \A x \in DOMAIN S :
         /\ After(M, x) = After(S, x) /\ M[x].last = S[x].last /\ M[x].free = S[x].free
         /\ M[x] \in HeaderSet
  BY <1>2, <1>4, <1>6 DEF After
<1>8. After(M, E) = E + bytes
  BY <1>0, <1>1, <1>5 DEF After, H
<1>9. Tiled(M, E + bytes, E)
  <2>1. DOMAIN M \subseteq Nat /\ E + bytes \in Nat /\ 0 \in DOMAIN M /\ E \in DOMAIN M
    BY <1>1, <1>4 DEF Tiled
  <2>2. \A x \in DOMAIN M : M[x] \in HeaderSet
    BY <1>4, <1>5, <1>7
  <2>3. \A x \in DOMAIN M : x = 0 <=> M[x].last = nullptr
    <3>1. \A x \in DOMAIN S : x = 0 <=> M[x].last = nullptr
      BY <1>7 DEF Tiled
    <3>2. E # 0 /\ M[E].last # nullptr
      BY <1>1, <1>3, <1>5 DEF Tiled, nullptr
    <3> QED BY <3>1, <3>2, <1>4
  <2>4. \A x \in DOMAIN M : x = E <=> M[x].next = nullptr
    <3>1. \A x \in DOMAIN S : x # L => M[x].next # nullptr
      BY <1>4 DEF Tiled
    <3>2. M[L].next # nullptr
      BY <1>1, <1>6 DEF nullptr
    <3> QED BY <3>1, <3>2, <1>3, <1>4, <1>5
  <2>5. \A x \in DOMAIN M : After(M, x) <= E + bytes
    BY <1>1, <1>2, <1>4, <1>7, <1>8
  <2>6. \A x \in DOMAIN M : M[x].next = nullptr => After(M, x) = E + bytes
    BY <2>4, <1>8
  <2>7. \A x \in DOMAIN M : M[x].next # nullptr =>
           /\ M[x].next = After(M, x)
           /\ M[x].next \in DOMAIN M
           /\ M[M[x].next].last = x
    <3> SUFFICES ASSUME NEW x \in DOMAIN M, M[x].next # nullptr
                 PROVE  /\ M[x].next = After(M, x)
                        /\ M[x].next \in DOMAIN M
                        /\ M[M[x].next].last = x
      OBVIOUS
    <3>1. x # E /\ x \in DOMAIN S
      BY <1>4, <1>5
    <3>2. CASE x = L
      BY <3>2, <1>1, <1>4, <1>5, <1>6, <1>7
    <3>3. CASE x # L
      BY <3>1, <3>3, <1>4, <1>7 DEF Tiled
    <3> QED BY <3>2, <3>3
  <2>8. \A x, y \in DOMAIN M : x < y => After(M, x) <= y
    BY <1>1, <1>2, <1>4, <1>7 DEF Tiled
  <2>9. \A x \in DOMAIN M : M[x].last # nullptr => M[x].last \in DOMAIN M /\ M[M[x].last].next = x
    <3> SUFFICES ASSUME NEW x \in DOMAIN M, M[x].last # nullptr
                 PROVE  M[x].last \in DOMAIN M /\ M[M[x].last].next = x
      OBVIOUS
    <3>1. CASE x = E
      BY <3>1, <1>1, <1>4, <1>5, <1>6
    <3>2. CASE x # E
      <4>1. x \in DOMAIN S /\ S[x].last \in DOMAIN S /\ S[S[x].last].next = x /\ M[x].last = S[x].last
        BY <3>2, <1>4, <1>7 DEF Tiled
      <4>2. S[x].last # L
        BY <4>1, <1>1, <1>2 DEF nullptr
      <4> QED BY <4>1, <4>2, <1>4
    <3> QED BY <3>1, <3>2
  <2> QED BY <2>1, <2>2, <2>3, <2>4, <2>5, <2>6, <2>7, <2>8, <2>9, <1>4 DEF Tiled
<1> QED BY <1>3, <1>4, <1>9 DEF M

\* and setting a header's free flag, which changes nothing else.
LEMMA MarkedTiled ==
  ASSUME NEW S, NEW E, NEW L, Tiled(S, E, L), NEW a \in DOMAIN S, NEW free \in BOOLEAN
  PROVE  /\ Tiled(Marked(S, a, free), E, L)
         /\ DOMAIN Marked(S, a, free) = DOMAIN S
         /\ \A x \in DOMAIN S :
               /\ Marked(S, a, free)[x].next = S[x].next
               /\ Marked(S, a, free)[x].free = IF x = a THEN free ELSE S[x].free
<1> DEFINE M == Marked(S, a, free)
<1>1. DOMAIN M = DOMAIN S /\ M = [x \in DOMAIN M |-> M[x]]
  BY DEF Marked
<1>2. \A x \in DOMAIN S :
         /\ M[x] \in HeaderSet /\ M[x].next = S[x].next /\ M[x].last = S[x].last
         /\ M[x].length = S[x].length /\ M[x].free = IF x = a THEN free ELSE S[x].free
  BY DEF Marked, Tiled, HeaderSet
<1> HIDE DEF M
<1>3. \A x \in DOMAIN S : After(M, x) = After(S, x)
  BY <1>2 DEF After
<1>4. Tiled(M, E, L)
  BY <1>1, <1>2, <1>3 DEF Tiled
<1> QED BY <1>1, <1>2, <1>4 DEF M

-----------------------------------------------------------------------------
(* What the operations do to the segments in use and to free neighbours.   *)

SameUse(S, M) ==
    /\ InUse(M) = InUse(S)
    /\ \A x \in InUse(S) : M[x].length = S[x].length

\* A header's links lead to headers that lead back.
LEMMA Links ==
  ASSUME NEW S, NEW E, NEW L, Tiled(S, E, L), NEW x \in DOMAIN S
  PROVE  /\ x \in Nat /\ S[x] \in HeaderSet /\ S[x].free \in BOOLEAN
         /\ S[x].next # nullptr =>
               S[x].next \in DOMAIN S /\ S[x].next > x /\ S[S[x].next].last = x
         /\ S[x].last # nullptr =>
               S[x].last \in DOMAIN S /\ S[x].last < x /\ S[S[x].last].next = x
<1>1. x \in Nat /\ S[x] \in HeaderSet /\ S[x].free \in BOOLEAN
  BY DEF Tiled, HeaderSet
<1>2. \A y \in DOMAIN S : S[y].next # nullptr =>
         S[y].next \in DOMAIN S /\ S[y].next > y /\ S[S[y].next].last = y
  BY Constants DEF Tiled, HeaderSet, After, H
<1>3. S[x].last # nullptr => S[x].last \in DOMAIN S /\ S[x].last < x /\ S[S[x].last].next = x
  <2> HAVE S[x].last # nullptr
  <2>1. S[x].last \in DOMAIN S /\ S[S[x].last].next = x
    BY DEF Tiled
  <2>2. x # nullptr /\ S[x].last \in Nat
    BY <1>1, <2>1 DEF Tiled, nullptr
  <2> QED BY <2>1, <2>2, <1>1, <1>2
<1> QED BY <1>1, <1>2, <1>3

\* Merging two free segments uses no bytes and makes no new free neighbours but
\* the one after them.
LEMMA MergedFacts ==
  ASSUME NEW S, NEW E, NEW L, Tiled(S, E, L), NEW a \in DOMAIN S, S[a].free,
         S[a].next # nullptr, S[S[a].next].free
  PROVE  LET n == S[a].next
             M == Merged(S, a)
         IN  /\ SameUse(S, M)
             /\ \A x \in Clash(M) : (x \in Clash(S) /\ x # a /\ x # n) \/ (x = a /\ n \in Clash(S))
             /\ M[a].free /\ M[a].last = S[a].last
<1> DEFINE n == S[a].next
           nn == S[n].next
           M == Merged(S, a)
<1>1. n \in DOMAIN S /\ n # a /\ DOMAIN M = DOMAIN S \ {n} /\ S[n].last = a
  <2>1. n \in DOMAIN S /\ n # a /\ S[n].last = a
    BY Links
  <2>2. DOMAIN M = DOMAIN S \ {n}
    BY DEF Merged
  <2> QED BY <2>1, <2>2
<1>2. nn # nullptr => nn \in DOMAIN S /\ nn # a /\ nn # n /\ S[nn].last = n
  BY <1>1, Links
<1>3. \A x \in DOMAIN M : x # a => M[x].free = S[x].free /\ M[x].next = S[x].next /\ M[x].length = S[x].length
  BY <1>1, <1>2 DEF Merged, Header
<1>4. M[a].free = S[a].free /\ M[a].next = nn /\ M[a].last = S[a].last
  BY <1>1 DEF Merged, Header
<1> HIDE DEF M
<1>5. SameUse(S, M)
  BY <1>1, <1>3, <1>4 DEF SameUse, InUse
<1>6. ASSUME NEW x \in Clash(M)
      PROVE  (x \in Clash(S) /\ x # a /\ x # n) \/ (x = a /\ n \in Clash(S))
  <2>0. x \in DOMAIN M /\ M[x].free /\ M[x].next # nullptr /\ M[M[x].next].free
    BY DEF Clash
  <2>1. CASE x = a
    BY <2>0, <2>1, <1>1, <1>2, <1>3, <1>4 DEF Clash
  <2>2. CASE x # a
    <3>1. x \in DOMAIN S /\ x # n /\ S[x].free /\ S[x].next # nullptr /\ M[x].next = S[x].next
      BY <2>0, <2>2, <1>1, <1>3
    <3>2. S[x].next \in DOMAIN S /\ S[S[x].next].last = x
      BY <3>1, Links
    <3>3. S[x].next # n
      BY <3>2, <2>2, <1>1
    <3>4. S[S[x].next].free
      <4>1. CASE S[x].next = a
        BY <4>1
      <4>2. CASE S[x].next # a
        BY <4>2, <3>1, <3>2, <3>3, <2>0, <1>1, <1>3
      <4> QED BY <4>1, <4>2
    <3> QED BY <3>1, <3>2, <3>4, <2>2 DEF Clash
  <2> QED BY <2>1, <2>2
<1> QED BY <1>4, <1>5, <1>6 DEF M

\* Splitting a free segment leaves at most its two parts as free neighbours.
LEMMA SplitFacts ==
  ASSUME NEW S, NEW E, NEW L, Tiled(S, E, L), NEW a \in DOMAIN S, S[a].free, Clash(S) = {},
         NEW n \in Nat \ {0}, n + H < S[a].length
  PROVE  LET M == Split(S, a, n)
         IN  /\ SameUse(S, M)
             /\ \A x \in Clash(M) : x = a
             /\ a \in DOMAIN M /\ M[a].length = n
<1> DEFINE s == a + H + n
           nn == S[a].next
           M == Split(S, a, n)
<1>1. s \notin DOMAIN S /\ DOMAIN M = DOMAIN S \cup {s} /\ s # a
  BY SplitTiled
<1>2. nn # nullptr => nn \in DOMAIN S /\ nn # a /\ S[nn].last = a
  BY Links
<1>3. \A x \in DOMAIN S : x # a => M[x].free = S[x].free /\ M[x].next = S[x].next /\ M[x].length = S[x].length
  BY <1>1, <1>2 DEF Split, Header
<1>4. M[a].free = S[a].free /\ M[a].next = s /\ M[a].length = n
  BY <1>1 DEF Split, Header
<1>5. M[s].free = S[a].free /\ M[s].next = nn
  BY <1>1 DEF Split, Header
<1> HIDE DEF M
<1>6. SameUse(S, M)
  BY <1>1, <1>3, <1>4, <1>5 DEF SameUse, InUse
<1>7. ASSUME NEW x \in Clash(M)
      PROVE  x = a
  <2>0. x \in DOMAIN M /\ M[x].free /\ M[x].next # nullptr /\ M[M[x].next].free
    BY DEF Clash
  <2>1. CASE x = s
    BY <2>0, <2>1, <1>1, <1>2, <1>3, <1>5 DEF Clash
  <2>2. CASE x # s /\ x # a
    <3>1. x \in DOMAIN S /\ S[x].free /\ S[x].next # nullptr /\ M[x].next = S[x].next
      BY <2>0, <2>2, <1>1, <1>3
    <3>2. S[x].next \in DOMAIN S
      BY <3>1, Links
    <3>3. S[S[x].next].free
      BY <3>1, <3>2, <2>0, <1>3
    <3> QED BY <3>1, <3>3 DEF Clash
  <2> QED BY <2>1, <2>2
<1> QED BY <1>1, <1>4, <1>6, <1>7 DEF M

\* Growing leaves at most the old last segment and the new one.
LEMMA ExtendedFacts ==
  ASSUME NEW S, NEW E, NEW L, Tiled(S, E, L), Clash(S) = {}, NEW bytes \in Nat, bytes > H
  PROVE  LET M == Extended(S, E, L, bytes)
         IN  /\ SameUse(S, M)
             /\ \A x \in Clash(M) : x = L
             /\ M[E].free /\ M[E].last = L /\ M[L].next = E /\ M[L].free = S[L].free
             /\ E \notin Clash(M)
<1> DEFINE M == Extended(S, E, L, bytes)
<1>1. E \notin DOMAIN S /\ DOMAIN M = DOMAIN S \cup {E} /\ L \in DOMAIN S /\ S[L].next = nullptr
  <2>1. E \notin DOMAIN S
    BY ExtendedTiled
  <2>2. DOMAIN M = DOMAIN S \cup {E}
    BY DEF Extended
  <2>3. L \in DOMAIN S /\ S[L].next = nullptr
    BY DEF Tiled
  <2> QED BY <2>1, <2>2, <2>3
<1>2. \A x \in DOMAIN S : x # L => M[x] = S[x]
  BY <1>1 DEF Extended
<1>3. M[L].free = S[L].free /\ M[L].next = E /\ M[L].length = S[L].length
  BY <1>1 DEF Extended, Header
<1>4. M[E].free = TRUE /\ M[E].next = nullptr /\ M[E].last = L
  BY <1>1 DEF Extended, Header
<1> HIDE DEF M
<1>5. SameUse(S, M)
  BY <1>1, <1>2, <1>3, <1>4 DEF SameUse, InUse
<1>6. E \notin Clash(M)
  BY <1>4 DEF Clash
<1>7. ASSUME NEW x \in Clash(M), x # L
      PROVE  FALSE
  <2>1. x \in DOMAIN S /\ S[x].free /\ S[x].next # nullptr /\ M[S[x].next].free
    BY <1>1, <1>2, <1>6, <1>7 DEF Clash
  <2>2. S[x].next \in DOMAIN S
    BY <2>1, Links
  <2>3. S[S[x].next].free
    BY <2>1, <2>2, <1>2, <1>3
  <2> QED BY <2>1, <2>3 DEF Clash
<1> QED BY <1>3, <1>4, <1>5, <1>6, <1>7 DEF M

-----------------------------------------------------------------------------
(* The heap's operations are these.                                        *)

\* combine_forward is Merged, when there is a free segment to swallow.
LEMMA CombineForward ==
  ASSUME NEW S, NEW E, NEW L, Tiled(S, E, L), NEW a \in DOMAIN S
  PROVE  LET n == S[a].next IN
         /\ n = nullptr => combine_forward(Rec(S, E, L), a) = Rec(S, E, L)
         /\ n # nullptr /\ ~S[n].free => combine_forward(Rec(S, E, L), a) = Rec(S, E, L)
         /\ n # nullptr /\ S[n].free =>
               combine_forward(Rec(S, E, L), a) = Rec(Merged(S, a), E, IF L = n THEN a ELSE L)
<1> DEFINE n == S[a].next
           nn == S[n].next
           h == Rec(S, E, L)
<1>1. h.seg = S /\ h.end = E /\ h.lastHeader = L
  BY DEF Rec
<1>2. n = nullptr \/ (n # nullptr /\ ~S[n].free) => combine_forward(h, a) = h
  BY <1>1 DEF combine_forward
<1>3. ASSUME n # nullptr, S[n].free
      PROVE  combine_forward(h, a) = Rec(Merged(S, a), E, IF L = n THEN a ELSE L)
  <2>1. n \in DOMAIN S /\ n # a /\ S[a] \in HeaderSet /\ S[n] \in HeaderSet
    BY <1>3, Links
  <2>2. nn # nullptr => nn \in DOMAIN S /\ nn # a /\ nn # n /\ S[nn] \in HeaderSet
    BY <2>1, <1>3, Links
  <2> DEFINE linked == [S EXCEPT ![a].length = @ + S[n].length + HeaderSize, ![a].next = nn]
             back   == IF nn = nullptr THEN linked ELSE [linked EXCEPT ![nn].last = a]
  <2>3. combine_forward(h, a) =
           [h EXCEPT !.seg = Restrict(back, DOMAIN back \ {n}),
                     !.lastHeader = IF @ = n THEN a ELSE @]
    BY <1>1, <1>3 DEF combine_forward
  <2>4. Restrict(back, DOMAIN back \ {n}) = Merged(S, a)
    <3>1. DOMAIN back = DOMAIN S
      OBVIOUS
    <3>2. back[a] = Header(S[a].last, nn, S[a].length + S[n].length + H, S[a].free)
      BY <2>1, <2>2 DEF Header, HeaderSet, H
    <3>3. nn # nullptr => back[nn] = Header(a, S[nn].next, S[nn].length, S[nn].free)
      BY <2>1, <2>2 DEF Header, HeaderSet
    <3>4. \A x \in DOMAIN S : x # a /\ x # nn => back[x] = S[x]
      OBVIOUS
    <3>5. \A x \in DOMAIN S : x = nn => nn # nullptr
      BY DEF Tiled, nullptr
    <3> HIDE DEF back
    <3>6. \A x \in DOMAIN S \ {n} : back[x] = Merged(S, a)[x]
      BY <3>2, <3>3, <3>4, <3>5 DEF Merged
    <3> QED BY <3>1, <3>6 DEF Restrict, Merged
  <2> HIDE DEF back
  <2> QED BY <2>3, <2>4 DEF Rec
<1> QED BY <1>2, <1>3

\* split is Split.
LEMMA SplitIs ==
  ASSUME NEW S, NEW E, NEW L, Tiled(S, E, L), NEW a \in DOMAIN S,
         NEW n \in Nat \ {0}, n + H < S[a].length
  PROVE  split(Rec(S, E, L), a, n)
            = Rec(Split(S, a, n), E, IF S[a].next = nullptr THEN a + H + n ELSE L)
<1> DEFINE h == Rec(S, E, L)
           s == a + HeaderSize + n
           old == h.seg[a]
           rest == Header(a, old.next, old.length - n - HeaderSize, old.free)
           cut == [x \in DOMAIN h.seg \cup {s} |->
                      CASE x = s -> rest
                        [] x = a -> [old EXCEPT !.length = n, !.next = s]
                        [] x = old.next -> [h.seg[x] EXCEPT !.last = s]
                        [] OTHER -> h.seg[x]]
<1>1. h.seg = S /\ h.end = E /\ h.lastHeader = L
  BY DEF Rec
<1>2. s \notin DOMAIN S /\ s # a /\ S[a].next # s /\ S[a].next # a
  <2>1. s \notin DOMAIN S
    BY SplitTiled DEF H
  <2>2. s \in Nat /\ a \in Nat
    BY Links, Constants
  <2>3. S[a].next # s /\ S[a].next # a
    BY <2>1, <2>2, Links DEF nullptr
  <2> QED BY <2>1, <2>3
<1>3. split(h, a, n) = [h EXCEPT !.seg = cut, !.lastHeader = IF old.next = nullptr THEN s ELSE @]
  <2> HIDE DEF h
  <2> QED BY DEF split
<1>4. cut = Split(S, a, n)
  <2>0. DOMAIN cut = DOMAIN S \cup {s} /\ cut = [x \in DOMAIN S \cup {s} |-> cut[x]]
    BY <1>1
  <2>1. \A x \in DOMAIN S : S[x] \in HeaderSet
    BY Links
  <2>2. old = S[a] /\ \A x \in DOMAIN S : h.seg[x] = S[x]
    BY <1>1
  <2>3. cut[s] = Header(a, S[a].next, S[a].length - n - HeaderSize, S[a].free)
    BY <1>1, <1>2, <2>2
  <2>4. cut[a] = [S[a] EXCEPT !.length = n, !.next = s]
    BY <1>1, <1>2, <2>2
  <2>5. ASSUME NEW x \in DOMAIN S, x # a, x = S[a].next
        PROVE  cut[x] = [S[x] EXCEPT !.last = s]
    BY <1>1, <1>2, <2>5
  <2>6. ASSUME NEW x \in DOMAIN S, x # a, x # S[a].next
        PROVE  cut[x] = S[x]
    BY <1>1, <1>2, <2>6
  <2> HIDE DEF cut, h
  <2>7. cut[s] = Split(S, a, n)[s]
    BY <2>3, <1>2 DEF Split, H
  <2>8. cut[a] = Split(S, a, n)[a]
    BY <2>1, <2>4, <1>2 DEF Split, H, Header, HeaderSet
  <2>9. ASSUME NEW x \in DOMAIN S, x # a
        PROVE  cut[x] = Split(S, a, n)[x]
    <3>0. x # s /\ S[x] \in HeaderSet
      BY <1>2, <2>1
    <3>1. CASE x = S[a].next
      <4>1. Split(S, a, n)[x] = Header(s, S[x].next, S[x].length, S[x].free)
        BY <3>0, <3>1, <2>9 DEF Split, H
      <4>2. cut[x] = [S[x] EXCEPT !.last = s]
        BY <2>5, <2>9, <3>1
      <4> QED BY <4>1, <4>2, <3>0 DEF Header, HeaderSet
    <3>2. CASE x # S[a].next
      <4>1. cut[x] = S[x]
        BY <2>6, <2>9, <3>2
      <4> QED BY <4>1, <3>0, <3>2, <2>9 DEF Split, H
    <3> QED BY <3>1, <3>2
  <2>10. \A x \in DOMAIN S \cup {s} : cut[x] = Split(S, a, n)[x]
    BY <2>7, <2>8, <2>9
  <2>11. DOMAIN Split(S, a, n) = DOMAIN S \cup {s} /\ Split(S, a, n) = [x \in DOMAIN S \cup {s} |-> Split(S, a, n)[x]]
    BY DEF Split, H
  <2> HIDE DEF s
  <2> QED BY <2>0, <2>10, <2>11
<1> HIDE DEF cut
<1> QED BY <1>1, <1>3, <1>4 DEF Rec, H

-----------------------------------------------------------------------------
(* Freeing a segment and growing the heap.                                 *)

\* What a call leaves behind: a list with no two free neighbours.
Good(S, E, L) == Tiled(S, E, L) /\ Clash(S) = {}

\* combine_backward removes the last pair of free neighbours there is.
LEMMA CombineBackward ==
  ASSUME NEW S, NEW E, NEW L, Tiled(S, E, L), NEW a \in DOMAIN S, S[a].free,
         \A x \in Clash(S) : x = S[a].last
  PROVE  \E S2, L2 :
            /\ combine_backward(Rec(S, E, L), a) = Rec(S2, E, L2)
            /\ Good(S2, E, L2)
            /\ SameUse(S, S2)
<1> DEFINE l == S[a].last
           h == Rec(S, E, L)
<1>1. h.seg = S
  BY DEF Rec
<1>2. SameUse(S, S)
  BY DEF SameUse
<1>3. CASE l = nullptr
  <2>1. combine_backward(h, a) = h
    BY <1>1, <1>3 DEF combine_backward
  <2>2. Clash(S) = {}
    BY <1>3 DEF Clash, Tiled, nullptr
  <2> QED BY <2>1, <2>2, <1>2 DEF Good
<1>4. CASE l # nullptr /\ ~S[l].free
  <2>1. combine_backward(h, a) = h
    BY <1>1, <1>4 DEF combine_backward
  <2>2. Clash(S) = {}
    BY <1>4 DEF Clash
  <2> QED BY <2>1, <2>2, <1>2 DEF Good
<1>5. CASE l # nullptr /\ S[l].free
  <2>1. l \in DOMAIN S /\ S[l].next = a /\ a # nullptr /\ l # a
    <3>1. l \in DOMAIN S /\ S[l].next = a /\ l < a
      BY <1>5, Links
    <3>2. a \in Nat /\ l \in Nat
      BY <3>1, Links
    <3> QED BY <3>1, <3>2 DEF nullptr
  <2>2. combine_backward(h, a) = combine_forward(h, l)
    BY <1>1, <1>5 DEF combine_backward
  <2>3. combine_forward(h, l) = Rec(Merged(S, l), E, IF L = a THEN l ELSE L)
    BY <2>1, CombineForward
  <2>4. Tiled(Merged(S, l), E, IF L = a THEN l ELSE L)
    <3>1. S[l].next # nullptr /\ S[l].next = a
      BY <2>1
    <3>2. Tiled(Merged(S, l), E, IF L = S[l].next THEN l ELSE L)
      BY <2>1, <3>1, MergedTiled
    <3> QED BY <3>1, <3>2, Zenon
  <2>5. SameUse(S, Merged(S, l)) /\ \A x \in Clash(Merged(S, l)) :
           (x \in Clash(S) /\ x # l /\ x # a) \/ (x = l /\ a \in Clash(S))
    BY <2>1, <1>5, MergedFacts
  <2>6. Clash(Merged(S, l)) = {}
    BY <2>1, <2>5
  <2> QED BY <2>2, <2>3, <2>4, <2>5, <2>6 DEF Good
<1> QED BY <1>3, <1>4, <1>5

\* What two steps in a row leave in use, both leave in use.
LEMMA SameUseTransitive ==
  ASSUME NEW S1, NEW S2, NEW S3, SameUse(S1, S2), SameUse(S2, S3)
  PROVE  SameUse(S1, S3)
<1> QED BY DEF SameUse

\* Both combines after a segment has become free.
LEMMA CombineBoth ==
  ASSUME NEW S, NEW E, NEW L, Tiled(S, E, L), NEW a \in DOMAIN S, S[a].free,
         \A x \in Clash(S) : x = a \/ x = S[a].last
  PROVE  \E S2, L2 :
            /\ combine_backward(combine_forward(Rec(S, E, L), a), a) = Rec(S2, E, L2)
            /\ Good(S2, E, L2)
            /\ SameUse(S, S2)
<1> DEFINE n == S[a].next
<1>1. CASE n = nullptr \/ (n # nullptr /\ ~S[n].free)
  <2>1. combine_forward(Rec(S, E, L), a) = Rec(S, E, L)
    BY <1>1, CombineForward
  <2>2. \A x \in Clash(S) : x = S[a].last
    BY <1>1 DEF Clash
  <2> QED BY <2>1, <2>2, CombineBackward
<1>2. CASE n # nullptr /\ S[n].free
  <2> DEFINE M == Merged(S, a)
             K == IF L = n THEN a ELSE L
  <2>1. combine_forward(Rec(S, E, L), a) = Rec(M, E, K)
    BY <1>2, CombineForward
  <2>2. Tiled(M, E, K)
    BY <1>2, MergedTiled
  <2>3. /\ SameUse(S, M) /\ M[a].free /\ M[a].last = S[a].last
        /\ \A x \in Clash(M) : (x \in Clash(S) /\ x # a /\ x # n) \/ (x = a /\ n \in Clash(S))
    BY <1>2, MergedFacts
  <2>4. a \in DOMAIN M
    BY <1>2, MergedTiled
  <2>5. n \notin Clash(S)
    <3>1. n > a /\ n \in Nat /\ a \in Nat
      BY <1>2, Links
    <3>2. S[a].last # n
      <4>1. S[a].last # nullptr => S[a].last < a /\ S[a].last \in Nat
        BY Links
      <4> QED BY <4>1, <3>1 DEF nullptr
    <3> QED BY <3>1, <3>2
  <2>6. \A x \in Clash(M) : x = M[a].last
    BY <2>3, <2>5
  <2> HIDE DEF M, K
  <2>7. PICK S2, L2 : /\ combine_backward(Rec(M, E, K), a) = Rec(S2, E, L2)
                      /\ Good(S2, E, L2)
                      /\ SameUse(M, S2)
    BY <2>2, <2>3, <2>4, <2>6, CombineBackward
  <2>8. SameUse(S, S2)
    BY <2>3, <2>7, SameUseTransitive
  <2> QED BY <2>1, <2>7, <2>8
<1> QED BY <1>1, <1>2

\* free(): the segment is no longer in use; the others keep their bytes.
LEMMA Released ==
  ASSUME NEW S, NEW E, NEW L, Good(S, E, L), NEW a \in DOMAIN S
  PROVE  \E S2, L2 :
            /\ release(Rec(S, E, L), a) = Rec(S2, E, L2)
            /\ Good(S2, E, L2)
            /\ InUse(S2) = InUse(S) \ {a}
            /\ \A x \in InUse(S2) : S2[x].length = S[x].length
<1> DEFINE M == Marked(S, a, TRUE)
<1>0. Tiled(S, E, L) /\ TRUE \in BOOLEAN
  BY DEF Good
<1>1. /\ Tiled(M, E, L) /\ DOMAIN M = DOMAIN S
      /\ \A x \in DOMAIN S : M[x].next = S[x].next /\ M[x].free = IF x = a THEN TRUE ELSE S[x].free
  <2>1. \A f \in BOOLEAN :
           /\ Tiled(Marked(S, a, f), E, L) /\ DOMAIN Marked(S, a, f) = DOMAIN S
           /\ \A x \in DOMAIN S :
                 /\ Marked(S, a, f)[x].next = S[x].next
                 /\ Marked(S, a, f)[x].free = IF x = a THEN f ELSE S[x].free
    BY <1>0, MarkedTiled
  <2> QED BY <1>0, <2>1, Zenon
<1>2. \A x \in DOMAIN S : M[x].length = S[x].length /\ M[x].last = S[x].last
  BY DEF Marked, Good, Tiled, HeaderSet
<1>3. release(Rec(S, E, L), a) = combine_backward(combine_forward(Rec(M, E, L), a), a)
  <2>1. [Rec(S, E, L) EXCEPT !.seg[a].free = TRUE] = Rec(M, E, L)
    <3> DEFINE h == Rec(S, E, L)
    <3>1. h.seg = S /\ h = [seg |-> S, end |-> E, lastHeader |-> L]
      BY DEF Rec
    <3>2. [h EXCEPT !.seg[a].free = TRUE] = [h EXCEPT !.seg = [h.seg EXCEPT ![a].free = TRUE]]
      BY <3>1
    <3> HIDE DEF h
    <3>3. \A T : [h EXCEPT !.seg = T] = Rec(T, E, L)
      BY <3>1 DEF Rec
    <3>4. [h.seg EXCEPT ![a].free = TRUE] = M
      BY <3>1 DEF Marked
    <3> HIDE DEF M
    <3>5. [h EXCEPT !.seg[a].free = TRUE] = Rec(M, E, L)
      BY <3>2, <3>3, <3>4
    <3> QED BY <3>5 DEF h
  <2> HIDE DEF M
  <2> QED BY <2>1 DEF release
<1> HIDE DEF M
<1>4. \A x \in Clash(M) : x = a \/ x = M[a].last
  <2> SUFFICES ASSUME NEW x \in Clash(M), x # a
               PROVE  x = M[a].last
    OBVIOUS
  <2>1. /\ x \in DOMAIN S /\ S[x].free /\ S[x].next # nullptr
        /\ M[S[x].next].free
    BY <1>1 DEF Clash
  <2>2. S[x].next \in DOMAIN S /\ S[S[x].next].last = x
    BY <2>1, Links DEF Good
  <2>3. S[x].next = a
    BY <2>1, <2>2, <1>1 DEF Clash, Good
  <2> QED BY <2>2, <2>3, <1>2
<1>5. PICK S2, L2 : /\ combine_backward(combine_forward(Rec(M, E, L), a), a) = Rec(S2, E, L2)
                    /\ Good(S2, E, L2)
                    /\ SameUse(M, S2)
  BY <1>1, <1>4, CombineBoth
<1>6. InUse(M) = InUse(S) \ {a}
  BY <1>1 DEF InUse
<1> QED BY <1>2, <1>3, <1>5, <1>6 DEF SameUse, InUse

\* T is the list S after the segment at a was given out.
TakenTo(S, E, L, a, T) ==
    /\ [Rec(S, E, L) EXCEPT !.seg[a].free = FALSE] = Rec(T, E, L)
    /\ Good(T, E, L)
    /\ DOMAIN T = DOMAIN S
    /\ InUse(T) = InUse(S) \cup {a}
    /\ \A x \in DOMAIN S : T[x].length = S[x].length

\* The segment is given out.
LEMMA MarkedUsed ==
  ASSUME NEW S, NEW E, NEW L, Tiled(S, E, L), NEW a \in DOMAIN S, \A x \in Clash(S) : x = a
  PROVE  \E T : TakenTo(S, E, L, a, T)
<1> DEFINE T == Marked(S, a, FALSE)
<1>1. /\ Tiled(T, E, L) /\ DOMAIN T = DOMAIN S
      /\ \A x \in DOMAIN S : T[x].next = S[x].next /\ T[x].free = IF x = a THEN FALSE ELSE S[x].free
  <2>1. \A f \in BOOLEAN :
           /\ Tiled(Marked(S, a, f), E, L) /\ DOMAIN Marked(S, a, f) = DOMAIN S
           /\ \A x \in DOMAIN S :
                 /\ Marked(S, a, f)[x].next = S[x].next
                 /\ Marked(S, a, f)[x].free = IF x = a THEN f ELSE S[x].free
    BY MarkedTiled
  <2> QED BY <2>1, Zenon
<1>2. \A x \in DOMAIN S : T[x].length = S[x].length
  BY DEF Marked, Tiled, HeaderSet
<1>3. [Rec(S, E, L) EXCEPT !.seg[a].free = FALSE] = Rec(T, E, L)
  <2> DEFINE h == Rec(S, E, L)
  <2>1. h.seg = S /\ h = [seg |-> S, end |-> E, lastHeader |-> L]
    BY DEF Rec
  <2>2. [h EXCEPT !.seg[a].free = FALSE] = [h EXCEPT !.seg = [h.seg EXCEPT ![a].free = FALSE]]
    BY <2>1
  <2> HIDE DEF h
  <2>3. \A X : [h EXCEPT !.seg = X] = Rec(X, E, L)
    BY <2>1 DEF Rec
  <2>4. [h.seg EXCEPT ![a].free = FALSE] = T
    BY <2>1 DEF Marked
  <2> HIDE DEF T
  <2>5. [h EXCEPT !.seg[a].free = FALSE] = Rec(T, E, L)
    BY <2>2, <2>3, <2>4
  <2> QED BY <2>5 DEF h
<1> HIDE DEF T
<1>4. Clash(T) = {}
  <2> SUFFICES ASSUME NEW x \in Clash(T)
               PROVE  FALSE
    OBVIOUS
  <2>1. x \in DOMAIN S /\ x # a /\ S[x].free /\ S[x].next # nullptr /\ T[S[x].next].free
    BY <1>1 DEF Clash
  <2>2. S[x].next \in DOMAIN S
    BY <2>1, Links
  <2>3. S[S[x].next].free
    BY <2>1, <2>2, <1>1
  <2> QED BY <2>1, <2>3 DEF Clash
<1>5. InUse(T) = InUse(S) \cup {a}
  BY <1>1 DEF InUse
<1>6. Good(T, E, L)
  BY <1>1, <1>4 DEF Good
<1>7. TakenTo(S, E, L, a, T)
  BY <1>1, <1>2, <1>3, <1>5, <1>6, Zenon DEF TakenTo
<1> QED BY <1>7

\* malloc's split: one more segment in use, the others as long as before.
LEMMA GrantedSplit ==
  ASSUME NEW S, NEW E, NEW L, Good(S, E, L), NEW a \in DOMAIN S, S[a].free,
         NEW n \in Nat \ {0}, CanSplit(S[a], n)
  PROVE  \E S2, L2 :
            /\ [split(Rec(S, E, L), a, n) EXCEPT !.seg[a].free = FALSE] = Rec(S2, E, L2)
            /\ Good(S2, E, L2)
            /\ InUse(S2) = InUse(S) \cup {a}
            /\ \A x \in InUse(S) : S2[x].length = S[x].length
            /\ S2[a].length = n
<1> DEFINE M == Split(S, a, n)
           K == IF S[a].next = nullptr THEN a + H + n ELSE L
<1>0. Tiled(S, E, L) /\ Clash(S) = {} /\ S[a] \in HeaderSet
  BY Links DEF Good
<1>1. n + H < S[a].length
  BY <1>0, Constants DEF CanSplit, MinSplit, H, HeaderSet
<1>2. Tiled(M, E, K)
  BY <1>0, <1>1, SplitTiled
<1>3. SameUse(S, M) /\ (\A x \in Clash(M) : x = a) /\ a \in DOMAIN M /\ M[a].length = n
  BY <1>0, <1>1, SplitFacts
<1>4. split(Rec(S, E, L), a, n) = Rec(M, E, K)
  BY <1>0, <1>1, SplitIs
<1>5. DOMAIN S \subseteq DOMAIN M
  BY DEF Split
<1> HIDE DEF M, K
<1>6. PICK T : TakenTo(M, E, K, a, T)
  <2>1. a \in DOMAIN M /\ \A x \in Clash(M) : x = a
    BY <1>3
  <2> QED BY <1>2, <2>1, MarkedUsed
<1>7. /\ [Rec(M, E, K) EXCEPT !.seg[a].free = FALSE] = Rec(T, E, K)
       /\ Good(T, E, K)
       /\ DOMAIN T = DOMAIN M
       /\ InUse(T) = InUse(M) \cup {a}
       /\ \A x \in DOMAIN M : T[x].length = M[x].length
  BY <1>6, Zenon DEF TakenTo
<1>8. InUse(T) = InUse(S) \cup {a}
  BY <1>3, <1>7 DEF SameUse
<1>9. \A x \in InUse(S) : T[x].length = S[x].length
  BY <1>3, <1>5, <1>7 DEF SameUse, InUse
<1>10. T[a].length = n
  BY <1>3, <1>7
<1>11. [split(Rec(S, E, L), a, n) EXCEPT !.seg[a].free = FALSE] = Rec(T, E, K)
  BY <1>4, <1>7, Zenon
<1> QED BY <1>7, <1>8, <1>9, <1>10, <1>11, Zenon

\* The bytes by which expand_heap grows the heap: whole pages, more than asked for.
Bytes(n) == (n \div PageSize + 1) * PageSize

LEMMA BytesEnough == \A n \in Nat : Bytes(n) \in Nat /\ Bytes(n) > n /\ Bytes(n) >= PageSize
<1> SUFFICES ASSUME NEW n \in Nat
             PROVE  Bytes(n) \in Nat /\ Bytes(n) > n /\ Bytes(n) >= PageSize
  OBVIOUS
<1>1. n \div PageSize \in Nat /\ n = (n \div PageSize) * PageSize + (n % PageSize) /\ n % PageSize \in 0 .. PageSize - 1
  BY Constants
<1>2. (n \div PageSize) * PageSize \in Nat
  BY <1>1, Constants
<1>3. Bytes(n) = (n \div PageSize) * PageSize + PageSize
  BY <1>1, Constants DEF Bytes
<1> QED BY <1>1, <1>2, <1>3, Constants

\* M is the list S with a free segment behind it that ends so many bytes on.
GrownTo(S, E, L, bytes, M) ==
    /\ Tiled(M, E + bytes, E) /\ SameUse(S, M)
    /\ \A x \in Clash(M) : x = L
    /\ E \in DOMAIN M /\ M[E].free /\ M[E].last = L /\ M[E].length = bytes - H
    /\ M[L].free = S[L].free /\ M[L].length = S[L].length

\* expand_heap puts a free segment behind the last one and combines backward.
LEMMA ExpandIs ==
  ASSUME NEW S, NEW E, NEW L, Good(S, E, L), NEW n \in Nat
  PROVE  \E M : /\ GrownTo(S, E, L, Bytes(n), M)
                /\ expand_heap(Rec(S, E, L), n) = combine_backward(Rec(M, E + Bytes(n), E), E)
<1> DEFINE bytes == Bytes(n)
           M == Extended(S, E, L, bytes)
           h == Rec(S, E, L)
<1>0. Tiled(S, E, L) /\ Clash(S) = {} /\ E \in Nat
  BY DEF Good, Tiled
<1>1. bytes \in Nat /\ bytes > H
  <2>1. n \div PageSize \in Nat
    BY Constants
  <2>2. \A k \in Nat : (k + 1) * PageSize \in Nat /\ (k + 1) * PageSize >= PageSize
    BY Constants
  <2> QED BY <2>1, <2>2, Constants DEF H, Bytes
<1> HIDE DEF bytes
<1>2. Tiled(M, E + bytes, E) /\ DOMAIN M = DOMAIN S \cup {E}
  BY <1>0, <1>1, ExtendedTiled
<1>3. /\ SameUse(S, M) /\ (\A x \in Clash(M) : x = L) /\ M[E].free /\ M[E].last = L
  BY <1>0, <1>1, ExtendedFacts
<1>4. expand_heap(h, n) = combine_backward(Rec(M, E + bytes, E), E)
  <2> DEFINE linked == [h.seg EXCEPT ![h.lastHeader].next = h.end]
             added == [x \in DOMAIN linked \cup {h.end} |->
                         IF x = h.end
                         THEN Header(h.lastHeader, nullptr, bytes - HeaderSize, TRUE)
                         ELSE linked[x]]
  <2>1. h.seg = S /\ h.end = E /\ h.lastHeader = L
    BY DEF Rec
  <2>2. expand_heap(h, n)
           = combine_backward([seg |-> added, end |-> h.end + bytes, lastHeader |-> h.end], h.end)
    <3> HIDE DEF h
    <3> QED BY DEF expand_heap, bytes, Bytes
  <2>3. added = M
    <3>0. L \in DOMAIN S /\ S[L] \in HeaderSet /\ E \notin DOMAIN S
      <4>1. L \in DOMAIN S /\ S[L] \in HeaderSet
        BY <1>0 DEF Tiled
      <4>2. \A x \in DOMAIN S : x \in Nat /\ S[x].length \in Nat /\ After(S, x) <= E
        BY <1>0 DEF Tiled, HeaderSet
      <4>3. \A x \in DOMAIN S : x < E
        BY <4>2, <1>0, Constants DEF After, H
      <4> QED BY <4>1, <4>3, <1>0
    <3>1. /\ L \in DOMAIN S /\ E \notin DOMAIN S /\ S[L] \in HeaderSet
          /\ DOMAIN added = DOMAIN S \cup {E} /\ added = [x \in DOMAIN S \cup {E} |-> added[x]]
      <4>1. DOMAIN linked = DOMAIN S
        BY <2>1
      <4> HIDE DEF linked
      <4> QED BY <4>1, <2>1, <3>0
    <3>2. added[E] = Header(L, nullptr, bytes - HeaderSize, TRUE)
      BY <2>1
    <3>3. added[L] = [S[L] EXCEPT !.next = E]
      BY <2>1, <3>1
    <3>4. \A x \in DOMAIN S : x # L => added[x] = S[x]
      BY <2>1, <3>1
    <3> HIDE DEF added, h
    <3>5. added[L] = Header(S[L].last, E, S[L].length, S[L].free)
      BY <3>1, <3>3 DEF Header, HeaderSet
    <3>6. \A x \in DOMAIN S \cup {E} : added[x] = M[x]
      BY <3>1, <3>2, <3>4, <3>5 DEF Extended, H
    <3>7. M = [x \in DOMAIN S \cup {E} |-> M[x]]
      BY DEF Extended
    <3> HIDE DEF M
    <3> QED BY <3>1, <3>6, <3>7
  <2> HIDE DEF added, h, M
  <2> QED BY <2>1, <2>2, <2>3 DEF Rec
<1>5. M[E].length = bytes - H /\ M[L].free = S[L].free /\ M[L].length = S[L].length
  <2>1. L \in DOMAIN S
    BY <1>0 DEF Tiled
  <2>2. E \notin DOMAIN S
    BY <1>0, <1>1, ExtendedTiled
  <2> QED BY <2>1, <2>2 DEF Extended, Header
<1>6. GrownTo(S, E, L, bytes, M)
  <2> HIDE DEF M
  <2> QED BY <1>2, <1>3, <1>5 DEF GrownTo
<1> HIDE DEF M
<1> QED BY <1>4, <1>6 DEF bytes

\* expand_heap only adds free memory at the end, merged with what was free there.
LEMMA ExpandedHeap ==
  ASSUME NEW S, NEW E, NEW L, Good(S, E, L), NEW n \in Nat
  PROVE  \E S2, L2, E2 :
            /\ E2 \in Nat
            /\ expand_heap(Rec(S, E, L), n) = Rec(S2, E2, L2)
            /\ Good(S2, E2, L2)
            /\ SameUse(S, S2)
            /\ E2 >= E
<1> DEFINE bytes == Bytes(n)
           h == Rec(S, E, L)
<1>0. E \in Nat /\ bytes \in Nat
  BY BytesEnough DEF Good, Tiled
<1>1. PICK M : /\ GrownTo(S, E, L, bytes, M)
               /\ expand_heap(h, n) = combine_backward(Rec(M, E + bytes, E), E)
  BY ExpandIs
<1> HIDE DEF bytes
<1>2. Tiled(M, E + bytes, E) /\ E \in DOMAIN M
  BY <1>1 DEF GrownTo
<1>3. /\ SameUse(S, M) /\ (\A x \in Clash(M) : x = L) /\ M[E].free /\ M[E].last = L
  BY <1>1 DEF GrownTo
<1>4. expand_heap(h, n) = combine_backward(Rec(M, E + bytes, E), E)
  BY <1>1
<1>5. PICK S2, L2 : /\ combine_backward(Rec(M, E + bytes, E), E) = Rec(S2, E + bytes, L2)
                    /\ Good(S2, E + bytes, L2)
                    /\ SameUse(M, S2)
  BY <1>2, <1>3, CombineBackward
<1>6. SameUse(S, S2)
  BY <1>3, <1>5, SameUseTransitive
<1>7. E + bytes \in Nat /\ E + bytes >= E
  BY <1>0
<1> QED BY <1>4, <1>5, <1>6, <1>7

\* What combine_backward makes of the last segment: a free one in front swallows it.
LEMMA CombinedLast ==
  ASSUME NEW S, NEW E, NEW a, Tiled(S, E, a), S[a].free
  PROVE  \E S2, L2 :
            /\ combine_backward(Rec(S, E, a), a) = Rec(S2, E, L2)
            /\ S2[L2].free
            /\ S2[L2].length >= S[a].length
            /\ S[a].last # nullptr /\ S[S[a].last].free =>
                  S2[L2].length = S[S[a].last].length + S[a].length + H
<1> DEFINE l == S[a].last
           h == Rec(S, E, a)
<1>1. h.seg = S
  BY DEF Rec
<1>2. a \in DOMAIN S /\ S[a] \in HeaderSet /\ S[a].next = nullptr /\ S[a].length \in Nat
  BY DEF Tiled, HeaderSet
<1>3. CASE l = nullptr \/ ~S[l].free
  <2>1. combine_backward(h, a) = h
    BY <1>1, <1>3 DEF combine_backward
  <2> QED BY <2>1, <1>2, <1>3
<1>4. CASE l # nullptr /\ S[l].free
  <2>1. l \in DOMAIN S /\ S[l].next = a /\ a # nullptr /\ S[l] \in HeaderSet
    BY <1>2, <1>4 DEF Tiled, nullptr
  <2>2. combine_backward(h, a) = combine_forward(h, l)
    BY <1>1, <1>4 DEF combine_backward
  <2>3. combine_forward(h, l) = Rec(Merged(S, l), E, l)
    BY <2>1, CombineForward
  <2>4. Merged(S, l)[l] = Header(S[l].last, nullptr, S[l].length + S[a].length + H, S[l].free)
    <3>1. l # a
      BY <2>1, MergedTiled
    <3> QED BY <2>1, <3>1, <1>2 DEF Merged
  <2>5. /\ Merged(S, l)[l].free
        /\ Merged(S, l)[l].length = S[l].length + S[a].length + H
    BY <2>4, <1>4 DEF Header
  <2>6. S[l].length + S[a].length + H >= S[a].length
    BY <1>2, <2>1, Constants DEF HeaderSet, H
  <2>7. combine_backward(h, a) = Rec(Merged(S, l), E, l)
    BY <2>2, <2>3
  <2> QED BY <2>5, <2>6, <2>7
<1> QED BY <1>3, <1>4

\* The last segment after expand_heap is free and holds everything that was added,
\* and what was free at the end before.
LEMMA ExpandedLast ==
  ASSUME NEW S, NEW E, NEW L, Good(S, E, L), NEW n \in Nat
  PROVE  \E S2, L2, E2 :
            /\ expand_heap(Rec(S, E, L), n) = Rec(S2, E2, L2)
            /\ S2[L2].free
            /\ S2[L2].length >= Bytes(n) - H
            /\ S[L].free => S2[L2].length = S[L].length + Bytes(n)
<1> DEFINE bytes == Bytes(n)
<1>0. bytes \in Nat /\ L \in DOMAIN S /\ L # nullptr /\ S[L].length \in Nat
  BY BytesEnough DEF Good, Tiled, HeaderSet, nullptr
<1>1. PICK M : /\ GrownTo(S, E, L, bytes, M)
               /\ expand_heap(Rec(S, E, L), n) = combine_backward(Rec(M, E + bytes, E), E)
  BY ExpandIs
<1> HIDE DEF bytes
<1>2. /\ Tiled(M, E + bytes, E) /\ M[E].free /\ M[E].last = L /\ M[E].length = bytes - H
      /\ M[L].free = S[L].free /\ M[L].length = S[L].length
  BY <1>1 DEF GrownTo
<1>3. PICK S2, L2 :
         /\ combine_backward(Rec(M, E + bytes, E), E) = Rec(S2, E + bytes, L2)
         /\ S2[L2].free
         /\ S2[L2].length >= M[E].length
         /\ M[E].last # nullptr /\ M[M[E].last].free =>
               S2[L2].length = M[M[E].last].length + M[E].length + H
  BY <1>2, CombinedLast
<1>4. expand_heap(Rec(S, E, L), n) = Rec(S2, E + bytes, L2)
  BY <1>1, <1>3
<1>5. S2[L2].length >= bytes - H
  BY <1>2, <1>3
<1>6. S[L].free => S2[L2].length = S[L].length + (bytes - H) + H
  BY <1>0, <1>2, <1>3
<1>7. S[L].length + (bytes - H) + H = S[L].length + bytes
  BY <1>0, Constants DEF H
<1> QED BY <1>3, <1>4, <1>5, <1>6, <1>7 DEF bytes

-----------------------------------------------------------------------------
(* The steps of the heap.                                                  *)

\* The walk stands on a header; nothing is searched for when nobody calls.
CallOK ==
    /\ call \in [pc : {"idle", "search", "overrun"}, owner : Owner, need : Nat,
                 current : Nat, expansions : Nat]
    /\ call.current \in DOMAIN seg
    /\ call.pc = "idle" => call.current = 0
    /\ call.pc = "search" => call.need > 0 /\ nesting \in 1 .. MaxNesting
    /\ nesting \in 0 .. MaxNesting + 1
    /\ debugHeap \in BOOLEAN

Holding == UNION {blocks[o] : o \in Owner}

HeldOK ==
    /\ blocks \in [Owner -> SUBSET Nat]
    /\ InUse(seg) = Holding
    /\ \A o, p \in Owner : o # p => blocks[o] \cap blocks[p] = {}

\* The inductive invariant.  Good is what the operations need of the list;
\* CallOK is what makes a call give out a free segment, and a whole one.
IInv == Good(seg, sHeapEnd, sLastHeader) /\ CallOK /\ HeldOK

\* malloc asks for a positive number of bytes after it has rounded it up.
LEMMA Aligned == \A n \in Nat \ {0} : Align8(n) \in Nat /\ Align8(n) > 0
<1> SUFFICES ASSUME NEW n \in Nat \ {0}
             PROVE  Align8(n) \in Nat /\ Align8(n) > 0
  OBVIOUS
<1>1. n % 8 \in 0 .. 7 /\ n - (n % 8) \in Nat
  OBVIOUS
<1> QED BY <1>1 DEF Align8

\* However a call returns, it leaves a well-formed call behind.
LEMMA ReturnOK ==
  ASSUME IInv, call.pc = "search", Return, UNCHANGED debugHeap,
         0 \in DOMAIN seg', call.current \in DOMAIN seg'
  PROVE  CallOK'
<1>1. PrintChars \in Nat \ {0}
  BY DEF IInv, Good, Tiled, PrintChars
<1>2. Align8(PrintChars) \in Nat /\ Align8(PrintChars) > 0
  BY <1>1, Aligned
<1>3. MaxNesting \in Nat /\ nesting \in 1 .. MaxNesting /\ debugHeap \in BOOLEAN /\ Printer \in Owner
  BY HeapAssumption DEF IInv, CallOK
<1>4. CASE debugHeap
  <2>1. nesting' = nesting + 1 /\ nesting' \in 0 .. MaxNesting + 1
    BY <1>3, <1>4 DEF Return
  <2>2. CASE nesting < MaxNesting
    <3>1. call' = Search(Printer, PrintChars)
      BY <1>4, <2>2 DEF Return
    <3> HIDE DEF PrintChars
    <3>2. call'.pc = "search" /\ call'.need > 0 /\ call'.current = 0
      BY <3>1, <1>2 DEF Search
    <3>3. call' \in [pc : {"idle", "search", "overrun"}, owner : Owner, need : Nat,
                     current : Nat, expansions : Nat]
      BY <3>1, <1>2, <1>3 DEF Search
    <3> QED BY <2>1, <2>2, <3>2, <3>3, <1>3 DEF CallOK
  <2>3. CASE ~(nesting < MaxNesting)
    <3>1. call' = [call EXCEPT !.pc = "overrun"]
      BY <1>4, <2>3 DEF Return
    <3> QED BY <2>1, <3>1, <1>3 DEF CallOK, IInv
  <2> QED BY <2>2, <2>3
<1>5. CASE ~debugHeap
  <2>1. call' = Idle /\ nesting' = 0
    BY <1>5 DEF Return
  <2> QED BY <2>1, <1>3 DEF CallOK, Idle
<1> QED BY <1>4, <1>5

\* The caller holds the segment it is given.
LEMMA GrantOK ==
  ASSUME HeldOK, call.owner \in Owner, call.current \in Nat, call.current \notin InUse(seg),
         Grant, InUse(seg') = InUse(seg) \cup {call.current}
  PROVE  HeldOK'
<1> DEFINE a == call.current
           u == call.owner
<1>1. /\ blocks \in [Owner -> SUBSET Nat] /\ blocks' = [blocks EXCEPT ![u] = @ \cup {a}]
      /\ \A o \in Owner : a \notin blocks[o]
  BY DEF HeldOK, Grant, Holding
<1>2. /\ blocks' \in [Owner -> SUBSET Nat]
      /\ \A o \in Owner : blocks'[o] = IF o = u THEN blocks[o] \cup {a} ELSE blocks[o]
  BY <1>1
<1> HIDE DEF a, u
<1>3. Holding' = Holding \cup {a}
  BY <1>2 DEF Holding, u
<1>4. \A o, p \in Owner : o # p => blocks'[o] \cap blocks'[p] = {}
  BY <1>1, <1>2 DEF HeldOK
<1> QED BY <1>2, <1>3, <1>4 DEF HeldOK, a

\* init_heap leaves one free segment that is the whole heap.
LEMMA InitIInv == Init => IInv
<1> SUFFICES ASSUME Init
             PROVE  IInv
  OBVIOUS
<1>1. seg = [x \in {0} |-> Header(nullptr, nullptr, PageSize - HeaderSize, TRUE)]
      /\ sHeapEnd = PageSize /\ sLastHeader = 0
  BY DEF Init
<1>2. DOMAIN seg = {0} /\ seg[0] = Header(nullptr, nullptr, PageSize - HeaderSize, TRUE)
  BY <1>1
<1>3. Good(seg, sHeapEnd, sLastHeader)
  <2>1. seg[0] \in HeaderSet /\ seg[0].last = nullptr /\ seg[0].next = nullptr
        /\ After(seg, 0) = PageSize /\ seg[0].free
    BY <1>2, Constants DEF Header, HeaderSet, nullptr, After, H
  <2>2. Tiled(seg, sHeapEnd, sLastHeader)
    <3>1. seg = [x \in DOMAIN seg |-> seg[x]]
      BY <1>1
    <3>2. PageSize \in Nat /\ 0 # nullptr
      BY Constants DEF nullptr
    <3>3. \A x \in DOMAIN seg :
             /\ x = 0 /\ seg[x] \in HeaderSet /\ After(seg, x) = sHeapEnd
             /\ seg[x].last = nullptr /\ seg[x].next = nullptr
      BY <1>1, <1>2, <2>1
    <3>4. sHeapEnd \in Nat /\ 0 \in DOMAIN seg /\ sLastHeader \in DOMAIN seg /\ sLastHeader = 0
      BY <1>1, <1>2, <3>2
    <3> QED BY <3>1, <3>3, <3>4 DEF Tiled
  <2>3. Clash(seg) = {}
    BY <1>2, <2>1 DEF Clash
  <2> QED BY <2>2, <2>3 DEF Good
<1>4. CallOK
  BY <1>2, HeapAssumption DEF Init, Idle, CallOK
<1>5. HeldOK
  <2>1. InUse(seg) = {}
    BY <1>2 DEF InUse, Header
  <2> QED BY <2>1 DEF Init, HeldOK, Holding
<1> QED BY <1>3, <1>4, <1>5 DEF IInv

\* The segment a search stands on when it takes it is free, so nobody holds it.
LEMMA SearchFacts ==
  ASSUME IInv, call.pc = "search"
  PROVE  /\ Heap = Rec(seg, sHeapEnd, sLastHeader)
         /\ Tiled(seg, sHeapEnd, sLastHeader) /\ Clash(seg) = {}
         /\ call.current \in DOMAIN seg /\ call.current \in Nat /\ call.owner \in Owner
         /\ call.need \in Nat \ {0}
         /\ Current.free => call.current \notin InUse(seg)
BY DEF IInv, CallOK, Good, Heap, Rec, Current, InUse

\* A step of malloc that splits puts the segment it stands on in use, and only it.
LEMMA TakeSplitFacts ==
  ASSUME IInv, TakeSplit
  PROVE  /\ Good(seg', sHeapEnd', sLastHeader')
         /\ InUse(seg') = InUse(seg) \cup {call.current}
         /\ \A x \in InUse(seg) : seg'[x].length = seg[x].length
         /\ sHeapEnd' = sHeapEnd
<1> DEFINE a == call.current
           n == call.need
<1>1. call.pc = "search" /\ Splits
      /\ Becomes([split(Heap, a, n) EXCEPT !.seg[a].free = FALSE])
  BY DEF TakeSplit
<1>2. /\ Heap = Rec(seg, sHeapEnd, sLastHeader) /\ Good(seg, sHeapEnd, sLastHeader)
      /\ a \in DOMAIN seg /\ n \in Nat \ {0} /\ seg[a].free /\ CanSplit(seg[a], n)
  BY <1>1, SearchFacts DEF IInv, Splits, Current
<1> HIDE DEF a, n
<1>3. PICK S2, L2 :
         /\ [split(Rec(seg, sHeapEnd, sLastHeader), a, n) EXCEPT !.seg[a].free = FALSE]
               = Rec(S2, sHeapEnd, L2)
         /\ Good(S2, sHeapEnd, L2)
         /\ InUse(S2) = InUse(seg) \cup {a}
         /\ \A x \in InUse(seg) : S2[x].length = seg[x].length
         /\ S2[a].length = n
  BY <1>2, GrantedSplit
<1>4. Becomes(Rec(S2, sHeapEnd, L2))
  BY <1>1, <1>2, <1>3, Zenon
<1>5. seg' = S2 /\ sHeapEnd' = sHeapEnd /\ sLastHeader' = L2
  BY <1>4 DEF Becomes, Rec
<1> QED BY <1>3, <1>5 DEF a

\* The same of one that takes the segment whole.
LEMMA TakeExactFacts ==
  ASSUME IInv, TakeExact
  PROVE  /\ Good(seg', sHeapEnd', sLastHeader')
         /\ InUse(seg') = InUse(seg) \cup {call.current}
         /\ \A x \in InUse(seg) : seg'[x].length = seg[x].length
         /\ sHeapEnd' = sHeapEnd
<1> DEFINE a == call.current
<1>1. call.pc = "search" /\ Matches /\ Becomes([Heap EXCEPT !.seg[a].free = FALSE])
  BY DEF TakeExact
<1>2. /\ Heap = Rec(seg, sHeapEnd, sLastHeader)
      /\ Tiled(seg, sHeapEnd, sLastHeader) /\ Clash(seg) = {} /\ a \in DOMAIN seg
  BY <1>1, SearchFacts
<1> HIDE DEF a
<1>3. PICK T : TakenTo(seg, sHeapEnd, sLastHeader, a, T)
  BY <1>2, MarkedUsed
<1>4. /\ [Rec(seg, sHeapEnd, sLastHeader) EXCEPT !.seg[a].free = FALSE]
            = Rec(T, sHeapEnd, sLastHeader)
      /\ Good(T, sHeapEnd, sLastHeader)
      /\ InUse(T) = InUse(seg) \cup {a}
      /\ \A x \in DOMAIN seg : T[x].length = seg[x].length
  BY <1>3, Zenon DEF TakenTo
<1>5. Becomes(Rec(T, sHeapEnd, sLastHeader))
  BY <1>1, <1>2, <1>4, Zenon
<1>6. seg' = T /\ sHeapEnd' = sHeapEnd /\ sLastHeader' = sLastHeader
  BY <1>5 DEF Becomes, Rec
<1> QED BY <1>4, <1>6 DEF a, InUse

\* Growth leaves everything in use as it is.
LEMMA ExpandFacts ==
  ASSUME IInv, Expand
  PROVE  /\ Good(seg', sHeapEnd', sLastHeader')
         /\ SameUse(seg, seg')
         /\ sHeapEnd' >= sHeapEnd
<1>1. call.pc = "search" /\ Becomes(expand_heap(Heap, call.need))
  BY DEF Expand
<1>2. /\ Heap = Rec(seg, sHeapEnd, sLastHeader) /\ Good(seg, sHeapEnd, sLastHeader)
      /\ call.need \in Nat
  BY <1>1, SearchFacts DEF IInv
<1>3. PICK S2, L2, E2 :
         /\ E2 \in Nat
         /\ expand_heap(Rec(seg, sHeapEnd, sLastHeader), call.need) = Rec(S2, E2, L2)
         /\ Good(S2, E2, L2) /\ SameUse(seg, S2) /\ E2 >= sHeapEnd
  BY <1>2, ExpandedHeap
<1>4. Becomes(Rec(S2, E2, L2))
  BY <1>1, <1>2, <1>3, Zenon
<1>5. seg' = S2 /\ sHeapEnd' = E2 /\ sLastHeader' = L2
  BY <1>4 DEF Becomes, Rec
<1> QED BY <1>3, <1>5

\* free takes one segment out of use, whatever it merges.
LEMMA FreeFacts ==
  ASSUME IInv, NEW o \in Owner, NEW a \in blocks[o], Free(o, a)
  PROVE  /\ Good(seg', sHeapEnd', sLastHeader')
         /\ InUse(seg') = InUse(seg) \ {a}
         /\ \A x \in InUse(seg') : seg'[x].length = seg[x].length
         /\ sHeapEnd' = sHeapEnd
<1>1. Becomes(release(Heap, a))
  BY DEF Free
<1>2. /\ Heap = Rec(seg, sHeapEnd, sLastHeader) /\ Good(seg, sHeapEnd, sLastHeader)
      /\ a \in DOMAIN seg
  <2>1. a \in InUse(seg)
    BY DEF IInv, HeldOK, Holding
  <2> QED BY <2>1 DEF IInv, InUse, Heap, Rec
<1>3. PICK S2, L2 :
         /\ release(Rec(seg, sHeapEnd, sLastHeader), a) = Rec(S2, sHeapEnd, L2)
         /\ Good(S2, sHeapEnd, L2)
         /\ InUse(S2) = InUse(seg) \ {a}
         /\ \A x \in InUse(S2) : S2[x].length = seg[x].length
  BY <1>2, Released
<1>4. Becomes(Rec(S2, sHeapEnd, L2))
  BY <1>1, <1>2, <1>3, Zenon
<1>5. seg' = S2 /\ sHeapEnd' = sHeapEnd /\ sLastHeader' = L2
  BY <1>4 DEF Becomes, Rec
<1> QED BY <1>3, <1>5

\* Every step keeps the inductive invariant.
LEMMA NextIInv == IInv /\ [Next]_vars => IInv'
<1> SUFFICES ASSUME IInv, [Next]_vars
             PROVE  IInv'
  OBVIOUS
<1>1. ASSUME NEW o \in Owner \ {Printer}, NEW n \in Sizes, Malloc(o, n)
      PROVE  IInv'
  <2>1. call' = Search(o, n) /\ nesting' = 1
        /\ UNCHANGED <<seg, sHeapEnd, sLastHeader, debugHeap, blocks>>
    BY <1>1 DEF Malloc
  <2>2. Align8(n) \in Nat /\ Align8(n) > 0 /\ 1 \in 1 .. MaxNesting /\ 1 \in 0 .. MaxNesting + 1
    BY Aligned, HeapAssumption
  <2>3. 0 \in DOMAIN seg /\ debugHeap \in BOOLEAN
    BY DEF IInv, Good, Tiled, CallOK
  <2>4. CallOK'
    BY <2>1, <2>2, <2>3 DEF CallOK, Search
  <2>5. HeldOK' /\ Good(seg', sHeapEnd', sLastHeader')
    BY <2>1 DEF IInv, HeldOK, Holding
  <2> QED BY <2>4, <2>5 DEF IInv
<1>2. CASE TakeSplit
  <2>1. Good(seg', sHeapEnd', sLastHeader') /\ InUse(seg') = InUse(seg) \cup {call.current}
    BY <1>2, TakeSplitFacts
  <2>2. call.pc = "search" /\ Current.free /\ Grant /\ Return /\ UNCHANGED debugHeap
    BY <1>2 DEF TakeSplit, Splits
  <2>3. 0 \in DOMAIN seg' /\ call.current \in DOMAIN seg'
    BY <2>1 DEF Good, Tiled, InUse
  <2>4. CallOK'
    BY <2>2, <2>3, ReturnOK
  <2>5. HeldOK'
    BY <2>1, <2>2, SearchFacts, GrantOK DEF IInv
  <2> QED BY <2>1, <2>4, <2>5 DEF IInv
<1>3. CASE TakeExact
  <2>1. Good(seg', sHeapEnd', sLastHeader') /\ InUse(seg') = InUse(seg) \cup {call.current}
    BY <1>3, TakeExactFacts
  <2>2. call.pc = "search" /\ Current.free /\ Grant /\ Return /\ UNCHANGED debugHeap
    BY <1>3 DEF TakeExact, Matches
  <2>3. 0 \in DOMAIN seg' /\ call.current \in DOMAIN seg'
    BY <2>1 DEF Good, Tiled, InUse
  <2>4. CallOK'
    BY <2>2, <2>3, ReturnOK
  <2>5. HeldOK'
    BY <2>1, <2>2, SearchFacts, GrantOK DEF IInv
  <2> QED BY <2>1, <2>4, <2>5 DEF IInv
<1>4. CASE Advance
  <2>1. /\ call.pc = "search" /\ seg[call.current].next # nullptr
        /\ call' = [call EXCEPT !.current = seg[call.current].next]
        /\ UNCHANGED <<seg, sHeapEnd, sLastHeader, debugHeap, nesting, blocks>>
    BY <1>4 DEF Advance, Current
  <2>2. seg[call.current].next \in DOMAIN seg /\ DOMAIN seg \subseteq Nat
    BY <2>1, SearchFacts DEF Tiled
  <2>3. CallOK'
    BY <2>1, <2>2 DEF IInv, CallOK
  <2>4. HeldOK' /\ Good(seg', sHeapEnd', sLastHeader')
    BY <2>1 DEF IInv, HeldOK, Holding
  <2> QED BY <2>3, <2>4 DEF IInv
<1>5. CASE Expand
  <2>1. Good(seg', sHeapEnd', sLastHeader') /\ InUse(seg') = InUse(seg)
    BY <1>5, ExpandFacts DEF SameUse
  <2>2. /\ call.pc = "search"
        /\ call' = [call EXCEPT !.current = 0, !.expansions = @ + 1]
        /\ UNCHANGED <<debugHeap, nesting, blocks>>
    BY <1>5 DEF Expand
  <2>3. 0 \in DOMAIN seg'
    BY <2>1 DEF Good, Tiled
  <2>4. CallOK'
    <3>1. /\ call' \in [pc : {"idle", "search", "overrun"}, owner : Owner, need : Nat,
                       current : Nat, expansions : Nat]
          /\ call'.current = 0 /\ call'.pc = "search" /\ call'.need = call.need
      <4>1. /\ call = [pc |-> "search", owner |-> call.owner, need |-> call.need,
                       current |-> call.current, expansions |-> call.expansions]
            /\ call.owner \in Owner /\ call.need \in Nat /\ call.expansions \in Nat
        BY <2>2 DEF IInv, CallOK
      <4>2. call' = [pc |-> "search", owner |-> call.owner, need |-> call.need,
                     current |-> 0, expansions |-> call.expansions + 1]
        BY <2>2, <4>1
      <4> QED BY <4>1, <4>2
    <3> QED BY <2>2, <2>3, <3>1 DEF IInv, CallOK
  <2>5. HeldOK'
    BY <2>1, <2>2 DEF IInv, HeldOK, Holding
  <2> QED BY <2>1, <2>4, <2>5 DEF IInv
<1>6. ASSUME NEW o \in Owner, NEW a \in blocks[o], Free(o, a)
      PROVE  IInv'
  <2>1. Good(seg', sHeapEnd', sLastHeader') /\ InUse(seg') = InUse(seg) \ {a}
    BY <1>6, FreeFacts
  <2>2. /\ call.pc = "idle" /\ blocks' = [blocks EXCEPT ![o] = @ \ {a}]
        /\ UNCHANGED <<debugHeap, call, nesting>>
    BY <1>6 DEF Free
  <2>3. 0 \in DOMAIN seg'
    BY <2>1 DEF Good, Tiled
  <2>4. CallOK'
    BY <2>2, <2>3 DEF IInv, CallOK
  <2>5. HeldOK'
    <3>1. /\ blocks' \in [Owner -> SUBSET Nat]
          /\ \A p \in Owner : blocks'[p] = IF p = o THEN blocks[o] \ {a} ELSE blocks[p]
      BY <2>2 DEF IInv, HeldOK
    <3>2. \A p \in Owner : p # o => a \notin blocks[p]
      BY DEF IInv, HeldOK
    <3>3. Holding' = Holding \ {a}
      BY <3>1, <3>2 DEF Holding
    <3>4. \A p, q \in Owner : p # q => blocks'[p] \cap blocks'[q] = {}
      BY <3>1 DEF IInv, HeldOK
    <3> QED BY <2>1, <3>1, <3>3, <3>4 DEF IInv, HeldOK
  <2> QED BY <2>1, <2>4, <2>5 DEF IInv
<1>7. CASE UNCHANGED vars
  BY <1>7 DEF vars, IInv, CallOK, HeldOK, Holding
<1> QED BY <1>1, <1>2, <1>3, <1>4, <1>5, <1>6, <1>7 DEF Next, SearchStep

\* Whatever is allocated and freed, and however heap.cpp grows, splits and
\* merges: the list is whole and merged, and what is in use is what is held.
THEOREM InductiveInvariant == Spec => []IInv
<1>1. Init => IInv
  BY InitIInv
<1>2. IInv /\ [Next]_vars => IInv'
  BY NextIInv
<1> QED BY <1>1, <1>2, PTL DEF Spec

-----------------------------------------------------------------------------
(* How often one call grows the heap.                                      *)

\* After its first extension a call has a free last segment of all the added
\* bytes but a header, and after its second one of twice as many: what it needs,
\* another header and the shortest split fit in that.
GrowthOK ==
    /\ call.expansions <= 2
    /\ call.pc = "search" =>
          LET end == seg[sLastHeader] IN
          /\ call.need >= MinSplit
          /\ call.expansions = 1 => end.free /\ end.length >= Bytes(call.need) - H
          /\ call.expansions = 2 => end.free /\ end.length >= 2 * Bytes(call.need) - H

\* No request is rounded to less than the shortest split.
LEMMA AlignedSplits == \A n \in Nat \ {0} : Align8(n) >= MinSplit
<1> SUFFICES ASSUME NEW n \in Nat \ {0}
             PROVE  Align8(n) >= MinSplit
  OBVIOUS
<1>1. n % 8 \in 0 .. 7 /\ n = 8 * (n \div 8) + (n % 8) /\ n \div 8 \in Nat
  OBVIOUS
<1> QED BY <1>1 DEF Align8, MinSplit

\* A call that starts has not grown the heap.
LEMMA SearchGrowth ==
  ASSUME NEW o, NEW n \in Nat \ {0}, call' = Search(o, n)
  PROVE  GrowthOK'
<1>1. call'.expansions = 0 /\ call'.need = Align8(n)
  BY DEF Search
<1> QED BY <1>1, AlignedSplits DEF GrowthOK

\* Returning ends a call, starts the one that draws the heap or runs off the stack.
LEMMA ReturnGrowth ==
  ASSUME IInv, GrowthOK, Return
  PROVE  GrowthOK'
<1>1. CASE debugHeap /\ nesting < MaxNesting
  <2>1. PrintChars \in Nat \ {0}
    BY DEF IInv, Good, Tiled, PrintChars
  <2>2. call' = Search(Printer, PrintChars)
    BY <1>1 DEF Return
  <2> QED BY <2>1, <2>2, SearchGrowth
<1>2. CASE debugHeap /\ ~(nesting < MaxNesting)
  <2>1. call' = [call EXCEPT !.pc = "overrun"]
    BY <1>2 DEF Return
  <2>2. call'.pc = "overrun" /\ call'.expansions = call.expansions
    BY <2>1 DEF IInv, CallOK
  <2> QED BY <2>2 DEF GrowthOK
<1>3. CASE ~debugHeap
  <2>1. call'.pc = "idle" /\ call'.expansions = 0
    BY <1>3 DEF Return, Idle
  <2> QED BY <2>1 DEF GrowthOK
<1> QED BY <1>1, <1>2, <1>3

\* Who comes to the end of the list has not grown the heap twice: the last
\* segment would have been split.
LEMMA ThirdNeverNeeded ==
  ASSUME IInv, GrowthOK, Expand
  PROVE  call.expansions # 2
<1> DEFINE end == seg[sLastHeader]
           need == call.need
<1>1. call.pc = "search" /\ ~Splits /\ Current.next = nullptr
  BY DEF Expand
<1>2. /\ Tiled(seg, sHeapEnd, sLastHeader) /\ call.current \in DOMAIN seg
      /\ need \in Nat \ {0} /\ need >= MinSplit
  BY <1>1, SearchFacts DEF GrowthOK
<1>3. Current = end /\ end.length \in Nat
  BY <1>1, <1>2 DEF Current, Tiled, HeaderSet
<1>4. ASSUME call.expansions = 2
      PROVE  FALSE
  <2>1. end.free /\ end.length >= 2 * Bytes(need) - H
    BY <1>1, <1>4 DEF GrowthOK
  <2>2. Bytes(need) \in Nat /\ Bytes(need) > need /\ Bytes(need) >= PageSize
    BY <1>2, BytesEnough
  <2>3. 2 * HeaderSize + MinSplit <= PageSize /\ HeaderSize \in Nat /\ HeaderSize > 0 /\ PageSize \in Nat
    BY HeapAssumption
  <2>4. MinSplit = 8
    BY DEF MinSplit
  <2> HIDE DEF end, need
  <2>5. end.length > need /\ need + HeaderSize <= end.length /\ end.length - need - HeaderSize >= MinSplit
    BY <1>2, <1>3, <2>1, <2>2, <2>3, <2>4 DEF H
  <2>6. end.length > need /\ CanSplit(end, need)
    BY <1>2, <2>5 DEF CanSplit
  <2>7. Splits
    BY <1>3, <2>1, <2>6 DEF Splits, need
  <2> QED BY <1>1, <2>7
<1> QED BY <1>4

\* Each extension of one call makes the free segment at the end longer.
LEMMA ExpandGrowth ==
  ASSUME IInv, GrowthOK, Expand
  PROVE  GrowthOK'
<1> DEFINE S == seg
           L == sLastHeader
           need == call.need
           bytes == Bytes(need)
<1>1. /\ call.pc = "search" /\ Becomes(expand_heap(Heap, need))
      /\ call' = [call EXCEPT !.current = 0, !.expansions = @ + 1]
  BY DEF Expand
<1>2. /\ Heap = Rec(S, sHeapEnd, L) /\ Good(S, sHeapEnd, L) /\ need \in Nat
      /\ need >= MinSplit
  BY <1>1, SearchFacts DEF IInv, GrowthOK
<1>3. call'.expansions = call.expansions + 1 /\ call'.need = need /\ call'.pc = "search"
      /\ call.expansions \in Nat
  BY <1>1 DEF IInv, CallOK
<1>4. PICK S2, L2, E2 :
         /\ expand_heap(Rec(S, sHeapEnd, L), need) = Rec(S2, E2, L2)
         /\ S2[L2].free
         /\ S2[L2].length >= bytes - H
         /\ S[L].free => S2[L2].length = S[L].length + bytes
  BY <1>2, ExpandedLast
<1>5. Becomes(Rec(S2, E2, L2))
  BY <1>1, <1>2, <1>4, Zenon
<1>6. seg' = S2 /\ sLastHeader' = L2
  BY <1>5 DEF Becomes, Rec
<1>7. call.expansions = 0 \/ call.expansions = 1
  <2>1. call.expansions <= 2 /\ call.expansions # 2
    BY ThirdNeverNeeded DEF GrowthOK
  <2> QED BY <2>1, <1>3
<1>8. call.expansions = 1 => S[L].free /\ S[L].length >= bytes - H
  BY <1>1 DEF GrowthOK
<1>9. bytes \in Nat /\ S[L].length \in Nat /\ H \in Nat
  BY <1>2, BytesEnough, Constants DEF Good, Tiled, HeaderSet, H
<1>10. call.expansions = 1 => S2[L2].length >= 2 * bytes - H
  <2> HIDE DEF bytes, S, L
  <2> QED BY <1>4, <1>8, <1>9
<1>11. /\ call'.expansions <= 2
       /\ call'.expansions = 1 => S2[L2].free /\ S2[L2].length >= bytes - H
       /\ call'.expansions = 2 => S2[L2].free /\ S2[L2].length >= 2 * bytes - H
  <2> HIDE DEF bytes, S, L
  <2> QED BY <1>3, <1>4, <1>7, <1>10
<1> QED BY <1>2, <1>3, <1>6, <1>11 DEF GrowthOK

\* malloc gets what it was asked for from a heap it has grown at most twice,
\* whatever the sizes of pages, headers and requests.
THEOREM GrowthIsBounded == Spec => []AtMostTwoExpansions
<1>1. Init => GrowthOK
  BY DEF Init, Idle, GrowthOK
<1>2. IInv /\ GrowthOK /\ [Next]_vars => GrowthOK'
  <2> SUFFICES ASSUME IInv, GrowthOK, [Next]_vars
               PROVE  GrowthOK'
    OBVIOUS
  <2>1. ASSUME NEW o \in Owner \ {Printer}, NEW n \in Sizes, Malloc(o, n)
        PROVE  GrowthOK'
    BY <2>1, SearchGrowth, HeapAssumption DEF Malloc
  <2>2. CASE TakeSplit \/ TakeExact
    BY <2>2, ReturnGrowth DEF TakeSplit, TakeExact
  <2>3. CASE Advance
    <3>1. /\ call'.pc = call.pc /\ call'.need = call.need /\ call'.expansions = call.expansions
          /\ UNCHANGED <<seg, sLastHeader>>
      BY <2>3 DEF Advance, IInv, CallOK
    <3> QED BY <3>1 DEF GrowthOK
  <2>4. CASE Expand
    BY <2>4, ExpandGrowth
  <2>5. ASSUME NEW o \in Owner, NEW a \in blocks[o], Free(o, a)
        PROVE  GrowthOK'
    <3>1. call.pc = "idle" /\ UNCHANGED call
      BY <2>5 DEF Free
    <3> QED BY <3>1 DEF GrowthOK
  <2>6. CASE UNCHANGED vars
    BY <2>6 DEF vars, GrowthOK
  <2> QED BY <2>1, <2>2, <2>3, <2>4, <2>5, <2>6 DEF Next, SearchStep
<1>3. GrowthOK => AtMostTwoExpansions
  BY DEF GrowthOK, AtMostTwoExpansions
<1> QED BY <1>1, <1>2, <1>3, InductiveInvariant, PTL DEF Spec

-----------------------------------------------------------------------------
(* What follows from the inductive invariant.                              *)

\* The variables keep their types: every link, length and held block stays
\* inside the heap, whatever heap.cpp is asked to allocate and free.
THEOREM TypeCorrect == Spec => []TypeOK
<1>1. IInv => TypeOK
  <2> SUFFICES ASSUME IInv
               PROVE  TypeOK
    OBVIOUS
  <2>1. Tiled(seg, sHeapEnd, sLastHeader) /\ sHeapEnd \in Nat /\ HeaderSize \in Nat /\ HeaderSize > 0
    BY Constants DEF IInv, Good, Tiled
  <2>2. ASSUME NEW a \in DOMAIN seg
        PROVE  /\ a \in Address /\ seg[a].length \in 1 .. sHeapEnd
               /\ seg[a].last \in {nullptr} \cup DOMAIN seg
               /\ seg[a].next \in {nullptr} \cup DOMAIN seg
               /\ seg[a] \in HeaderSet
    BY <2>1 DEF Tiled, HeaderSet, After, H, Address
  <2>3. DOMAIN seg \subseteq Address
    BY <2>2
  <2>4. \A a \in DOMAIN seg :
           seg[a] \in [last : {nullptr} \cup Address, next : {nullptr} \cup Address,
                       length : 1 .. sHeapEnd, free : BOOLEAN]
    BY <2>2, <2>3 DEF HeaderSet
  <2>5. blocks \in [Owner -> SUBSET Address]
    BY <2>3 DEF IInv, HeldOK, Holding, InUse
  <2>6. call \in [pc : {"idle", "search", "overrun"}, owner : Owner, need : Nat,
                  current : Address, expansions : Nat]
    BY <2>3 DEF IInv, CallOK
  <2>7. sLastHeader \in DOMAIN seg /\ debugHeap \in BOOLEAN /\ nesting \in 0 .. MaxNesting + 1
    BY <2>1 DEF IInv, Tiled, CallOK
  <2> QED BY <2>1, <2>3, <2>4, <2>5, <2>6, <2>7 DEF TypeOK
<1> QED BY <1>1, InductiveInvariant, PTL

\* split, combine_forward, combine_backward and expand_heap keep the list of
\* headers and the bytes of the heap in step, for every header and page size.
THEOREM HeapTiled == Spec => []SegmentsTile
<1>1. IInv => SegmentsTile
  BY DEF IInv, Good, Tiled, SegmentsTile, After, H
<1> QED BY <1>1, InductiveInvariant, PTL

\* Freed memory is always merged with its free neighbours.
THEOREM NothingFragmented == Spec => []NoFreeNeighbours
<1>1. IInv => NoFreeNeighbours
  BY DEF IInv, Good, Clash, NoFreeNeighbours
<1> QED BY <1>1, InductiveInvariant, PTL

\* No held block is swallowed by a merge, and no freed one stays in use.
THEOREM InUseIsHeld == Spec => []UsedIsHeld
<1>1. IInv => UsedIsHeld
  BY DEF IInv, HeldOK, Holding, InUse, UsedIsHeld
<1> QED BY <1>1, InductiveInvariant, PTL

-----------------------------------------------------------------------------
(* The heap implements the contract of a run allocator.                    *)

PayloadIn(S, x) == x + H .. x + H + S[x].length - 1
HeldIn(S, B) == [o \in Owner |-> UNION {PayloadIn(S, x) : x \in B[o]}]

\* held, as a function of the list and of who holds what.
LEMMA HeldIsHeldIn == held = HeldIn(seg, blocks)
  BY DEF held, HeldIn, Payload, PayloadIn, H

\* Held bytes only depend on the lengths of the held segments.
LEMMA SameHeld ==
  ASSUME NEW S, NEW T, NEW B,
         \A o \in Owner : \A x \in B[o] : T[x].length = S[x].length
  PROVE  HeldIn(T, B) = HeldIn(S, B)
<1>1. \A o \in Owner : \A x \in B[o] : PayloadIn(T, x) = PayloadIn(S, x)
  BY DEF PayloadIn
<1>2. \A o \in Owner : UNION {PayloadIn(T, x) : x \in B[o]} = UNION {PayloadIn(S, x) : x \in B[o]}
  BY <1>1
<1> QED BY <1>2 DEF HeldIn

\* Two segments share no byte.
LEMMA PayloadsApart ==
  ASSUME NEW S, NEW E, NEW L, Tiled(S, E, L), NEW x \in DOMAIN S, NEW y \in DOMAIN S, x # y
  PROVE  PayloadIn(S, x) \cap PayloadIn(S, y) = {}
<1>1. /\ x \in Nat /\ y \in Nat /\ S[x].length \in Nat /\ S[y].length \in Nat
      /\ H \in Nat
      /\ x < y => x + H + S[x].length <= y
      /\ y < x => y + H + S[y].length <= x
  BY Constants DEF Tiled, HeaderSet, After, H
<1>2. \A z \in PayloadIn(S, x) : z \in Int /\ z >= x + H /\ z < x + H + S[x].length
  BY <1>1 DEF PayloadIn
<1>3. \A z \in PayloadIn(S, y) : z \in Int /\ z >= y + H /\ z < y + H + S[y].length
  BY <1>1 DEF PayloadIn
<1>4. CASE x < y
  BY <1>1, <1>2, <1>3, <1>4
<1>5. CASE y < x
  BY <1>1, <1>2, <1>3, <1>5
<1> QED BY <1>1, <1>4, <1>5

\* A block is an unbroken run of bytes of the heap.
LEMMA PayloadInside ==
  ASSUME NEW S, NEW E, NEW L, Tiled(S, E, L), NEW x \in DOMAIN S
  PROVE  /\ PayloadIn(S, x) \subseteq 0 .. E - 1
         /\ RA!Contiguous(PayloadIn(S, x))
<1>1. /\ x \in Nat /\ S[x].length \in Nat \ {0} /\ H \in Nat /\ E \in Nat
      /\ x + H + S[x].length <= E
  BY Constants DEF Tiled, HeaderSet, After, H
<1>2. PayloadIn(S, x) \subseteq 0 .. E - 1
  BY <1>1 DEF PayloadIn
<1>3. x + H \in PayloadIn(S, x) /\ x + H + S[x].length - 1 \in PayloadIn(S, x)
  BY <1>1 DEF PayloadIn
<1>4. RA!Contiguous(PayloadIn(S, x))
  BY <1>3 DEF RA!Contiguous, PayloadIn
<1> QED BY <1>2, <1>4

\* A grant as the contract sees it.
LEMMA GrantAllocates ==
  ASSUME IInv, NEW a, a = call.current, a \notin InUse(seg), call.owner \in Owner, Grant,
         Good(seg', sHeapEnd', sLastHeader'), a \in InUse(seg'), InUse(seg) \subseteq InUse(seg'),
         \A x \in InUse(seg) : seg'[x].length = seg[x].length,
         sHeapEnd' = sHeapEnd
  PROVE  RA!Alloc(call.owner)
<1> DEFINE u == call.owner
           run == PayloadIn(seg', a)
<1>1. /\ blocks \in [Owner -> SUBSET Nat]
      /\ blocks' = [blocks EXCEPT ![u] = @ \cup {a}]
      /\ \A o \in Owner : blocks[o] \subseteq InUse(seg)
  BY DEF IInv, HeldOK, Holding, Grant
<1>2. /\ \A o \in Owner : blocks'[o] = IF o = u THEN blocks[o] \cup {a} ELSE blocks[o]
      /\ u \in Owner
  BY <1>1
<1>3. held = HeldIn(seg', blocks)
  <2>1. \A o \in Owner : \A x \in blocks[o] : seg'[x].length = seg[x].length
    BY <1>1
  <2>2. HeldIn(seg', blocks) = HeldIn(seg, blocks)
    BY <2>1, SameHeld
  <2> QED BY <2>2, HeldIsHeldIn
<1>4. held' = HeldIn(seg', blocks')
  BY HeldIsHeldIn DEF HeldIn, held, Payload, PayloadIn, H
<1>5. Tiled(seg', sHeapEnd', sLastHeader') /\ a \in DOMAIN seg' /\ InUse(seg') \subseteq DOMAIN seg'
  BY DEF Good, InUse
<1>6. run \subseteq 0 .. sHeapEnd - 1 /\ RA!Contiguous(run)
  BY <1>5, PayloadInside
<1>7. \A o \in Owner : \A x \in blocks[o] : PayloadIn(seg', x) \cap run = {}
  <2>1. ASSUME NEW o \in Owner, NEW x \in blocks[o]
        PROVE  PayloadIn(seg', x) \cap run = {}
    <3>1. x \in DOMAIN seg' /\ x # a
      BY <1>1, <1>5
    <3> QED BY <1>5, <3>1, PayloadsApart
  <2> QED BY <2>1
<1> HIDE DEF run, u
<1>8. \A o \in Owner : held[o] \cap run = {}
  BY <1>3, <1>7 DEF HeldIn
<1>9. \A o \in Owner : held'[o] = IF o = u THEN held[o] \cup run ELSE held[o]
  <2>1. \A o \in Owner : /\ held'[o] = UNION {PayloadIn(seg', x) : x \in blocks'[o]}
                         /\ held[o] = UNION {PayloadIn(seg', x) : x \in blocks[o]}
    BY <1>3, <1>4 DEF HeldIn
  <2>2. \A o \in Owner : o # u => held'[o] = held[o]
    BY <1>2, <2>1
  <2>3. UNION {PayloadIn(seg', x) : x \in blocks[u] \cup {a}}
           = (UNION {PayloadIn(seg', x) : x \in blocks[u]}) \cup PayloadIn(seg', a)
    OBVIOUS
  <2>4. held'[u] = held[u] \cup run
    BY <1>2, <2>1, <2>3 DEF run
  <2> QED BY <2>2, <2>4
<1>10. held = [o \in Owner |-> held[o]] /\ held' = [o \in Owner |-> held'[o]]
  BY <1>3, <1>4 DEF HeldIn
<1>11. held'[u] \ held[u] = run
  BY <1>2, <1>8, <1>9
<1>12. held' = [held EXCEPT ![u] = @ \cup run]
  BY <1>9, <1>10
<1>13. run \cap RA!Held = {}
  BY <1>8 DEF RA!Held
<1>14. run \subseteq Address /\ UNCHANGED Address
  BY <1>6 DEF Address
<1>15. RA!Alloc(u)
  BY <1>6, <1>11, <1>12, <1>13, <1>14 DEF RA!Alloc
<1> QED BY <1>15 DEF u

\* Every step of the heap is one of RunAllocator's, or none.
LEMMA StepAllocates ==
  ASSUME IInv, [Next]_vars
  PROVE  [RA!Next]_<<Address, held>>
<1>1. ASSUME NEW o \in Owner \ {Printer}, NEW n \in Sizes, Malloc(o, n)
      PROVE  UNCHANGED <<Address, held>>
  BY <1>1 DEF Malloc, Address, held, Payload
<1>2. CASE TakeSplit
  <2>1. call.pc = "search" /\ Current.free /\ Grant
    BY <1>2 DEF TakeSplit, Splits
  <2>2. call.current \notin InUse(seg) /\ call.owner \in Owner
    BY <2>1, SearchFacts
  <2>3. RA!Alloc(call.owner)
    BY <1>2, <2>1, <2>2, TakeSplitFacts, GrantAllocates
  <2> QED BY <2>2, <2>3 DEF RA!Next
<1>3. CASE TakeExact
  <2>1. call.pc = "search" /\ Current.free /\ Grant
    BY <1>3 DEF TakeExact, Matches
  <2>2. call.current \notin InUse(seg) /\ call.owner \in Owner
    BY <2>1, SearchFacts
  <2>3. RA!Alloc(call.owner)
    BY <1>3, <2>1, <2>2, TakeExactFacts, GrantAllocates
  <2> QED BY <2>2, <2>3 DEF RA!Next
<1>4. CASE Advance
  BY <1>4 DEF Advance, Address, held, Payload
<1>5. CASE Expand
  <2>1. SameUse(seg, seg') /\ sHeapEnd' >= sHeapEnd /\ blocks' = blocks
        /\ sHeapEnd \in Nat /\ sHeapEnd' \in Nat
    BY <1>5, ExpandFacts DEF Expand, IInv, Good, Tiled
  <2>2. HeldIn(seg', blocks) = HeldIn(seg, blocks)
    <3>1. \A o \in Owner : \A x \in blocks[o] : seg'[x].length = seg[x].length
      BY <2>1 DEF SameUse, IInv, HeldOK, Holding
    <3> QED BY <3>1, SameHeld
  <2>3. held' = HeldIn(seg', blocks')
    BY DEF HeldIn, held, Payload, PayloadIn, H
  <2>4. held' = held
    <3>1. held' = HeldIn(seg', blocks)
      BY <2>1, <2>3
    <3> QED BY <2>2, <3>1, HeldIsHeldIn
  <2>5. Address \subseteq Address'
    <3>1. sHeapEnd \in Nat /\ sHeapEnd' \in Nat /\ sHeapEnd' >= sHeapEnd
      BY <2>1, Zenon
    <3>2. \A m, n \in Nat : n >= m => 0 .. m - 1 \subseteq 0 .. n - 1
      OBVIOUS
    <3> QED BY <3>1, <3>2, Zenon DEF Address
  <2> QED BY <2>4, <2>5 DEF RA!Next, RA!Grow
<1>6. ASSUME NEW o \in Owner, NEW a \in blocks[o], Free(o, a)
      PROVE  RA!Release(o)
  <2>1. /\ InUse(seg') = InUse(seg) \ {a} /\ sHeapEnd' = sHeapEnd
        /\ \A x \in InUse(seg') : seg'[x].length = seg[x].length
    BY <1>6, FreeFacts
  <2>2. \A p \in Owner : blocks'[p] = IF p = o THEN blocks[o] \ {a} ELSE blocks[p]
    BY <1>6 DEF Free, IInv, HeldOK
  <2>3. \A p \in Owner : \A x \in blocks'[p] : x \in InUse(seg')
    BY <2>1, <2>2 DEF IInv, HeldOK, Holding
  <2>4. HeldIn(seg', blocks') = HeldIn(seg, blocks')
    BY <2>1, <2>3, SameHeld
  <2>5. held' = HeldIn(seg', blocks')
    BY DEF HeldIn, held, Payload, PayloadIn, H
  <2>6. \A p \in Owner : held'[p] = UNION {PayloadIn(seg, x) : x \in blocks'[p]}
    BY <2>4, <2>5 DEF HeldIn
  <2>7. /\ \A p \in Owner : held[p] = UNION {PayloadIn(seg, x) : x \in blocks[p]}
        /\ held = [p \in Owner |-> held[p]] /\ held' = [p \in Owner |-> held'[p]]
    BY <2>5, HeldIsHeldIn DEF HeldIn
  <2>8. held'[o] \subseteq held[o] /\ \A p \in Owner : p # o => held'[p] = held[p]
    <3>1. \A p \in Owner : p # o => held'[p] = held[p]
      BY <2>2, <2>6, <2>7
    <3>2. UNION {PayloadIn(seg, x) : x \in blocks[o] \ {a}} \subseteq UNION {PayloadIn(seg, x) : x \in blocks[o]}
      OBVIOUS
    <3>3. held'[o] \subseteq held[o]
      BY <2>2, <2>6, <2>7, <3>2
    <3> QED BY <3>1, <3>3
  <2>9. held' = [held EXCEPT ![o] = held'[o]]
    BY <2>7, <2>8
  <2> QED BY <2>1, <2>8, <2>9 DEF RA!Release, Address
<1>7. CASE UNCHANGED vars
  BY <1>7 DEF vars, Address, held, Payload
<1> QED BY <1>1, <1>2, <1>3, <1>4, <1>5, <1>6, <1>7 DEF Next, SearchStep, RA!Next

\* malloc gives out unbroken runs of bytes of the heap that nobody holds, and
\* free gives back the caller's own bytes: the heap is a run allocator.
THEOREM AllocatesFreeRuns == Spec => BlocksAreFreeRuns
<1>1. Init => RA!Init
  BY DEF Init, RA!Init, held, Address
<1>2. IInv /\ [Next]_vars => [RA!Next]_<<Address, held>>
  BY StepAllocates
<1>3. [RA!Next]_<<Address, held>> => [RA!Next]_RA!vars
  BY DEF RA!vars
<1> QED BY <1>1, <1>2, <1>3, InductiveInvariant, PTL DEF Spec, BlocksAreFreeRuns, RA!Spec
=============================================================================
