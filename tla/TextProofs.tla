------------------------------ MODULE TextProofs ------------------------------
(***************************************************************************)
(* The kernel's texts.  String and SinglyLinkedList<String>, for any       *)
(* names, texts, addresses and lengths: every buffer on the heap is one    *)
(* living String's, and strings are values (StringList implements          *)
(* StringValues).  Console, for any calls of dbgmsg and any transmitter:   *)
(* the serial line carries what was said in order.                         *)
(***************************************************************************)
EXTENDS StringList, Console, SequenceTheorems, FiniteSetTheorems,
        WellFoundedInduction, TLAPS

-----------------------------------------------------------------------------
(* Induction on naturals: a non-empty set of them has a least element.     *)

LEMMA LeastExists ==
  ASSUME NEW S \in SUBSET Nat, S # {}
  PROVE  \E least \in S : \A j \in S : least <= j
<1> DEFINE less == {ss \in Nat \X Nat : ss[1] < ss[2]}
<1>1. IsWellFoundedOn(less, Nat)
  BY NatLessThanWellFounded, Zenon DEF OpToRel
<1>2. \E x \in S : \A y \in S : ~ (<<y, x>> \in less)
  <2> HIDE DEF less
  <2> QED BY <1>1, WFMin
<1>3. PICK x \in S : \A y \in S : ~ (<<y, x>> \in less)
  BY <1>2
<1>4. ASSUME NEW y \in S PROVE x <= y
  <2>1. <<y, x>> \in Nat \X Nat
    OBVIOUS
  <2>2. ~(y < x)
    BY <1>3, <2>1
  <2> QED BY <2>2
<1> QED BY <1>4

\* A set of indexes that has 0, and with each index the next, has all of them.
LEMMA AllIndexes ==
  ASSUME NEW n \in Nat, NEW S, 0 \in S,
         \A i \in 1 .. n : i - 1 \in S => i \in S
  PROVE  0 .. n \subseteq S
<1> SUFFICES ASSUME (0 .. n) \ S # {} PROVE FALSE
  OBVIOUS
<1>0. (0 .. n) \ S \in SUBSET Nat
  OBVIOUS
<1>1. PICK least \in (0 .. n) \ S : \A j \in (0 .. n) \ S : least <= j
  BY <1>0, LeastExists
<1>2. least # 0 /\ least \in 1 .. n /\ least - 1 \in 0 .. n
  BY <1>1
<1>3. least - 1 \in S
  BY <1>1, <1>2
<1> QED BY <1>1, <1>2, <1>3

-----------------------------------------------------------------------------
(* The walk along the nodes.  NodeAt is what its equation says: functions  *)
(* on ever longer initial intervals satisfy it.                            *)

Step(h, n, f, i) == IF i = 0 THEN h ELSE n[f[i - 1]].Next

Walk(h, n) ==
    LET At[index \in 0 .. MaxNodes] == IF index = 0 THEN h ELSE n[At[index - 1]].Next
    IN  At

WalksTo(h, n, k) == \E f : f = [i \in 0 .. k |-> Step(h, n, f, i)]

LEMMA WalkOneMore ==
  ASSUME NEW h, NEW n, NEW k \in Nat \ {0}, WalksTo(h, n, k - 1)
  PROVE  WalksTo(h, n, k)
<1>1. PICK f : f = [i \in 0 .. k - 1 |-> Step(h, n, f, i)]
  BY DEF WalksTo
<1> DEFINE g == [i \in 0 .. k |-> IF i = k THEN n[f[k - 1]].Next ELSE f[i]]
<1>2. ASSUME NEW i \in 0 .. k PROVE g[i] = Step(h, n, g, i)
  <2>1. CASE i = 0
    <3>1. g[0] = f[0] /\ f[0] = Step(h, n, f, 0) /\ 0 \in 0 .. k - 1
      BY <1>1
    <3> QED BY <2>1, <3>1 DEF Step
  <2>2. CASE i = k
    <3>1. k - 1 \in 0 .. k /\ k - 1 # k /\ k # 0 /\ k \in 0 .. k
      OBVIOUS
    <3>2. g[k - 1] = f[k - 1] /\ g[k] = n[f[k - 1]].Next
      BY <3>1
    <3> HIDE DEF g
    <3> QED BY <2>2, <3>1, <3>2 DEF Step
  <2>3. CASE i # 0 /\ i # k
    <3>1. i \in 0 .. k - 1 /\ i - 1 \in 0 .. k - 1 /\ i - 1 \in 0 .. k /\ i - 1 # k
      BY <2>3
    <3>2. g[i] = f[i] /\ g[i - 1] = f[i - 1]
      BY <2>3, <3>1
    <3>3. f[i] = Step(h, n, f, i)
      BY <1>1, <3>1
    <3> HIDE DEF g
    <3> QED BY <2>3, <3>2, <3>3 DEF Step
  <2> QED BY <2>1, <2>2, <2>3
<1>3. g = [i \in 0 .. k |-> g[i]]
  OBVIOUS
<1>4. g = [i \in 0 .. k |-> Step(h, n, g, i)]
  <2> HIDE DEF g
  <2>1. [i \in 0 .. k |-> g[i]] = [i \in 0 .. k |-> Step(h, n, g, i)]
    BY <1>2
  <2> QED BY <1>3, <2>1
<1> HIDE DEF g
<1> QED BY <1>4 DEF WalksTo

LEMMA WalkExists ==
  ASSUME NEW h, NEW n
  PROVE  \A k \in Nat : WalksTo(h, n, k)
<1> TAKE k \in Nat
<1> DEFINE S == {i \in 0 .. k : WalksTo(h, n, i)}
<1>1. WalksTo(h, n, 0)
  <2> DEFINE f == [i \in 0 .. 0 |-> h]
  <2>1. f = [i \in 0 .. 0 |-> Step(h, n, f, i)]
    BY DEF Step
  <2> HIDE DEF f
  <2> QED BY <2>1 DEF WalksTo
<1>2. ASSUME NEW i \in 1 .. k, i - 1 \in S PROVE i \in S
  BY <1>2, WalkOneMore
<1>3. 0 \in S
  BY <1>1
<1>4. 0 .. k \subseteq S
  <2> HIDE DEF S
  <2> QED BY <1>2, <1>3, AllIndexes
<1> QED BY <1>4

LEMMA WalkIs ==
  ASSUME NEW h, NEW n
  PROVE  /\ Walk(h, n)[0] = h
         /\ \A i \in 1 .. MaxNodes : Walk(h, n)[i] = n[Walk(h, n)[i - 1]].Next
<1>0. MaxNodes \in Nat
  BY StringListAssumption
<1>1. WalksTo(h, n, MaxNodes)
  BY <1>0, WalkExists
<1>2. \E f : f = [index \in 0 .. MaxNodes |-> IF index = 0 THEN h ELSE n[f[index - 1]].Next]
  BY <1>1 DEF WalksTo, Step
<1>3. Walk(h, n) = [index \in 0 .. MaxNodes |->
                      IF index = 0 THEN h ELSE n[Walk(h, n)[index - 1]].Next]
  BY <1>2 DEF Walk
<1> DEFINE w == Walk(h, n)
<1>4. w = [index \in 0 .. MaxNodes |-> IF index = 0 THEN h ELSE n[w[index - 1]].Next]
  BY <1>3
<1> HIDE DEF w
<1>5. w[0] = h /\ \A i \in 1 .. MaxNodes : w[i] = n[w[i - 1]].Next
  <2>1. 0 \in 0 .. MaxNodes
    BY <1>0
  <2>2. \A i \in 1 .. MaxNodes : i \in 0 .. MaxNodes /\ i # 0
    BY <1>0
  <2> QED BY <1>4, <2>1, <2>2
<1> QED BY <1>5 DEF w

LEMMA NodeAtIsWalk ==
  /\ NodeAt = Walk(head, node)
  /\ NodeAt' = Walk(head', node')
<1>1. NodeAt = Walk(head, node)
  BY DEF NodeAt, Walk
<1>2. NodeAt' = Walk(head', node')
  BY DEF NodeAt, Walk
<1> QED BY <1>1, <1>2
-----------------------------------------------------------------------------
(* The list as a chain: w gives its len nodes in order.  They are all the  *)
(* nodes there are, each one once, and the last is linked to nothing.      *)

Links(w, h, n, len) ==
    /\ w[0] = h
    /\ \A i \in 1 .. len : w[i] = n[w[i - 1]].Next
    /\ \A i \in 0 .. len - 1 : w[i] \in DOMAIN n
    /\ \A i, j \in 0 .. len - 1 : w[i] = w[j] => i = j
    /\ \A a \in DOMAIN n : \E i \in 0 .. len - 1 : w[i] = a
    /\ w[len] = nullptr

Chain(h, n, len) == Links(Walk(h, n), h, n, len)

\* A chain is the walk from its head.
LEMMA LinksAreWalk ==
  ASSUME NEW w, NEW h, NEW n, NEW len \in 0 .. MaxNodes, Links(w, h, n, len)
  PROVE  /\ Chain(h, n, len)
         /\ \A i \in 0 .. len : Walk(h, n)[i] = w[i]
<1>0. MaxNodes \in Nat /\ len \in Nat
  BY StringListAssumption
<1> DEFINE v == Walk(h, n)
           S == {i \in 0 .. len : v[i] = w[i]}
<1>1. v[0] = h /\ \A i \in 1 .. MaxNodes : v[i] = n[v[i - 1]].Next
  BY WalkIs
<1>2. w[0] = h /\ \A i \in 1 .. len : w[i] = n[w[i - 1]].Next
  BY DEF Links
<1> HIDE DEF v
<1>3. 0 \in S
  BY <1>0, <1>1, <1>2
<1>4. ASSUME NEW i \in 1 .. len, i - 1 \in S PROVE i \in S
  <2>1. v[i - 1] = w[i - 1] /\ i \in 1 .. MaxNodes /\ i \in 0 .. len
    BY <1>0, <1>4
  <2>2. v[i] = w[i]
    BY <1>1, <1>2, <2>1
  <2> QED BY <2>1, <2>2
<1>5. 0 .. len \subseteq S
  <2> HIDE DEF S
  <2> QED BY <1>0, <1>3, <1>4, AllIndexes
<1>6. \A i \in 0 .. len : v[i] = w[i]
  BY <1>5
<1>7. Links(v, h, n, len)
  <2>1. \A i \in 1 .. len : i \in 0 .. len /\ i - 1 \in 0 .. len
    BY <1>0
  <2>2. \A i \in 0 .. len - 1 : i \in 0 .. len
    BY <1>0
  <2>3. 0 \in 0 .. len /\ len \in 0 .. len
    BY <1>0
  <2> QED BY <1>6, <2>1, <2>2, <2>3 DEF Links
<1> QED BY <1>6, <1>7 DEF v, Chain

\* What each operation on the list does to its chain.
LEMMA ChainKept ==
  ASSUME NEW h, NEW n, NEW n2, NEW len \in 0 .. MaxNodes, Chain(h, n, len),
         DOMAIN n2 = DOMAIN n, \A a \in DOMAIN n : n2[a].Next = n[a].Next
  PROVE  /\ Chain(h, n2, len)
         /\ \A i \in 0 .. len : Walk(h, n2)[i] = Walk(h, n)[i]
<1>0. MaxNodes \in Nat /\ len \in Nat
  BY StringListAssumption
<1> DEFINE w == Walk(h, n)
<1>1. Links(w, h, n, len)
  BY DEF Chain
<1> HIDE DEF w
<1>2. \A i \in 1 .. len : w[i] = n2[w[i - 1]].Next
  <2> TAKE i \in 1 .. len
  <2>1. i - 1 \in 0 .. len - 1
    BY <1>0
  <2> QED BY <1>1, <2>1 DEF Links
<1>3. Links(w, h, n2, len)
  BY <1>1, <1>2 DEF Links
<1>4. /\ Chain(h, n2, len)
      /\ \A i \in 0 .. len : Walk(h, n2)[i] = w[i]
  BY <1>3, LinksAreWalk
<1> QED BY <1>4 DEF w

LEMMA ChainAdded ==
  ASSUME NEW h, NEW n, NEW len \in 0 .. MaxNodes, len + 1 <= MaxNodes, Chain(h, n, len),
         NEW a, a \notin DOMAIN n, NEW n2, DOMAIN n2 = DOMAIN n \cup {a},
         n2[a].Next = h, \A x \in DOMAIN n : n2[x].Next = n[x].Next
  PROVE  /\ Chain(a, n2, len + 1)
         /\ Walk(a, n2)[0] = a
         /\ \A i \in 1 .. len + 1 : Walk(a, n2)[i] = Walk(h, n)[i - 1]
<1>0. MaxNodes \in Nat /\ len \in Nat /\ len + 1 \in 0 .. MaxNodes
  BY StringListAssumption
<1> DEFINE w == Walk(h, n)
           v == [i \in 0 .. len + 1 |-> IF i = 0 THEN a ELSE w[i - 1]]
<1>1. Links(w, h, n, len)
  BY DEF Chain
<1> HIDE DEF w
<1>2. v[0] = a /\ \A i \in 1 .. len + 1 : v[i] = w[i - 1]
  <2>1. 0 \in 0 .. len + 1 /\ \A i \in 1 .. len + 1 : i \in 0 .. len + 1 /\ i # 0
    BY <1>0
  <2> QED BY <2>1
<1> HIDE DEF v
<1>3. ASSUME NEW i \in 1 .. len + 1 PROVE v[i] = n2[v[i - 1]].Next
  <2>1. CASE i = 1
    <3>1. v[1] = w[0] /\ w[0] = h /\ v[0] = a
      BY <1>0, <1>1, <1>2, <2>1 DEF Links
    <3> QED BY <2>1, <3>1
  <2>2. CASE i # 1
    <3>1. i - 1 \in 1 .. len /\ i - 1 \in 1 .. len + 1 /\ (i - 1) - 1 \in 0 .. len - 1
      BY <1>0, <2>2
    <3>2. v[i] = w[i - 1] /\ v[i - 1] = w[(i - 1) - 1]
      BY <1>2, <3>1
    <3>3. w[i - 1] = n[w[(i - 1) - 1]].Next /\ w[(i - 1) - 1] \in DOMAIN n
      BY <1>1, <3>1 DEF Links
    <3> QED BY <3>2, <3>3
  <2> QED BY <2>1, <2>2
<1>4. ASSUME NEW i \in 0 .. len PROVE v[i] \in DOMAIN n2 /\ (i # 0 => v[i] \in DOMAIN n /\ v[i] # a)
  <2>1. CASE i = 0
    BY <1>2, <2>1
  <2>2. CASE i # 0
    <3>1. i \in 1 .. len + 1 /\ i - 1 \in 0 .. len - 1
      BY <1>0, <2>2
    <3> QED BY <1>1, <1>2, <3>1 DEF Links
  <2> QED BY <2>1, <2>2
<1>5. ASSUME NEW i \in 0 .. len, NEW j \in 0 .. len, v[i] = v[j] PROVE i = j
  <2>1. CASE i = 0 \/ j = 0
    BY <1>2, <1>4, <1>5, <2>1
  <2>2. CASE i # 0 /\ j # 0
    <3>1. /\ i \in 1 .. len + 1 /\ i - 1 \in 0 .. len - 1
          /\ j \in 1 .. len + 1 /\ j - 1 \in 0 .. len - 1
      BY <1>0, <2>2
    <3>2. w[i - 1] = w[j - 1]
      BY <1>2, <1>5, <3>1
    <3>3. i - 1 = j - 1
      BY <1>1, <3>1, <3>2 DEF Links
    <3> QED BY <1>0, <3>3
  <2> QED BY <2>1, <2>2
<1>6. ASSUME NEW x \in DOMAIN n2 PROVE \E i \in 0 .. len : v[i] = x
  <2>1. CASE x = a
    <3>1. 0 \in 0 .. len
      BY <1>0
    <3> QED BY <1>2, <2>1, <3>1
  <2>2. CASE x # a
    <3>1. PICK j \in 0 .. len - 1 : w[j] = x
      BY <1>1, <2>2 DEF Links
    <3>2. j + 1 \in 1 .. len + 1 /\ j + 1 \in 0 .. len /\ (j + 1) - 1 = j
      BY <1>0
    <3>3. v[j + 1] = x
      BY <1>2, <3>1, <3>2
    <3> QED BY <3>2, <3>3
  <2> QED BY <2>1, <2>2
<1>7. v[len + 1] = nullptr
  <2>1. len + 1 \in 1 .. len + 1 /\ (len + 1) - 1 = len
    BY <1>0
  <2> QED BY <1>1, <1>2, <2>1 DEF Links
<1>8. (len + 1) - 1 = len
  BY <1>0
<1>9. Links(v, a, n2, len + 1)
  BY <1>2, <1>3, <1>4, <1>5, <1>6, <1>7, <1>8 DEF Links
<1>10. /\ Chain(a, n2, len + 1)
       /\ \A i \in 0 .. len + 1 : Walk(a, n2)[i] = v[i]
  BY <1>0, <1>9, LinksAreWalk
<1>11. 0 \in 0 .. len + 1 /\ \A i \in 1 .. len + 1 : i \in 0 .. len + 1
  BY <1>0
<1> QED BY <1>2, <1>10, <1>11 DEF w
\* The nodes of a chain are fewer than MaxNodes when it is shorter: there is
\* one for add.
LEMMA NodeIsFree ==
  ASSUME NEW h, NEW n, NEW len \in 0 .. MaxNodes, len < MaxNodes, Chain(h, n, len)
  PROVE  \E a \in 1 .. MaxNodes : a \notin DOMAIN n
<1>0. MaxNodes \in Nat /\ len \in Nat
  BY StringListAssumption
<1> DEFINE w == Walk(h, n)
           I == 0 .. len - 1
           f == [i \in I |-> w[i]]
<1>1. Links(w, h, n, len)
  BY DEF Chain
<1> HIDE DEF w
<1>2. IsFiniteSet(I) /\ Cardinality(I) = len
  <2>1. CASE len = 0
    <3>1. I = {}
      BY <2>1
    <3> QED BY <2>1, <3>1, FS_EmptySet
  <2>2. CASE len # 0
    <3>1. len - 1 \in Int /\ 0 \in Int /\ ~(0 > len - 1) /\ (len - 1) - 0 + 1 = len
      BY <1>0, <2>2
    <3> QED BY <3>1, FS_Interval
  <2> QED BY <2>1, <2>2
<1>3. f \in Surjection(I, DOMAIN n)
  <2>1. f \in [I -> DOMAIN n]
    BY <1>1 DEF Links
  <2>2. \A a \in DOMAIN n : \E i \in I : f[i] = a
    BY <1>1 DEF Links
  <2> HIDE DEF f, I
  <2> QED BY <2>1, <2>2 DEF Surjection
<1>4. IsFiniteSet(DOMAIN n) /\ Cardinality(DOMAIN n) <= len
  <2> HIDE DEF f, I
  <2> QED BY <1>2, <1>3, FS_Surjection
<1>5. IsFiniteSet(1 .. MaxNodes) /\ Cardinality(1 .. MaxNodes) = MaxNodes
  <2>1. MaxNodes # 0
    BY <1>0
  <2>2. MaxNodes \in Int /\ 1 \in Int /\ ~(1 > MaxNodes) /\ MaxNodes - 1 + 1 = MaxNodes
    BY <1>0, <2>1
  <2> QED BY <2>2, FS_Interval
<1>6. ASSUME 1 .. MaxNodes \subseteq DOMAIN n PROVE FALSE
  <2>1. Cardinality(1 .. MaxNodes) <= Cardinality(DOMAIN n)
    BY <1>4, <1>6, FS_Subset
  <2>2. Cardinality(DOMAIN n) \in Nat
    BY <1>4, FS_CardinalityType
  <2> QED BY <1>0, <1>4, <1>5, <2>1, <2>2
<1> QED BY <1>6

LEMMA ChainCut ==
  ASSUME NEW h, NEW n, NEW len \in 1 .. MaxNodes, Chain(h, n, len),
         NEW k \in 0 .. len - 1, NEW h2, NEW n2,
         DOMAIN n2 = DOMAIN n \ {Walk(h, n)[k]},
         k = 0 => h2 = n[h].Next,
         k # 0 => h2 = h /\ n2[Walk(h, n)[k - 1]].Next = n[Walk(h, n)[k]].Next,
         \A a \in DOMAIN n2 : k = 0 \/ a # Walk(h, n)[k - 1] => n2[a].Next = n[a].Next
  PROVE  /\ Chain(h2, n2, len - 1)
         /\ \A i \in 0 .. len - 1 :
               Walk(h2, n2)[i] = IF i < k THEN Walk(h, n)[i] ELSE Walk(h, n)[i + 1]
<1>0. /\ MaxNodes \in Nat /\ len \in Nat /\ len - 1 \in 0 .. MaxNodes
      /\ k \in Nat /\ k <= len - 1 /\ len - 1 \in Nat
  BY StringListAssumption
<1> DEFINE w == Walk(h, n)
           v == [i \in 0 .. len - 1 |-> IF i < k THEN w[i] ELSE w[i + 1]]
<1>1. /\ Links(w, h, n, len)
      /\ DOMAIN n2 = DOMAIN n \ {w[k]}
      /\ k = 0 => h2 = n[h].Next
      /\ k # 0 => h2 = h /\ n2[w[k - 1]].Next = n[w[k]].Next
      /\ \A a \in DOMAIN n2 : k = 0 \/ a # w[k - 1] => n2[a].Next = n[a].Next
  BY DEF Chain
<1> HIDE DEF w
<1>2. \A i \in 0 .. len - 1 : v[i] = IF i < k THEN w[i] ELSE w[i + 1]
  OBVIOUS
<1> HIDE DEF v
<1>3. v[0] = h2
  <2>1. 0 \in 0 .. len - 1 /\ 1 \in 1 .. len /\ 1 - 1 = 0 /\ 0 + 1 = 1
    BY <1>0
  <2>2. CASE k = 0
    <3>1. v[0] = w[1]
      BY <1>2, <2>1, <2>2
    <3>2. w[1] = n[w[0]].Next /\ w[0] = h
      BY <1>1, <2>1 DEF Links
    <3> QED BY <1>1, <2>2, <3>1, <3>2
  <2>3. CASE k # 0
    <3>1. v[0] = w[0]
      BY <1>0, <1>2, <2>1, <2>3
    <3> QED BY <1>1, <2>3, <3>1 DEF Links
  <2> QED BY <2>2, <2>3
<1>4. ASSUME NEW i \in 0 .. len - 2
      PROVE  /\ v[i] \in DOMAIN n2
             /\ k = 0 \/ v[i] # w[k - 1] <=> i # k - 1
  <2>1. i \in 0 .. len - 1 /\ i + 1 \in 0 .. len - 1 /\ k \in 0 .. len - 1
    BY <1>0
  <2>2. PICK j \in 0 .. len - 1 : /\ v[i] = w[j]
                                  /\ j # k
                                  /\ i < k => j = i
                                  /\ ~(i < k) => j = i + 1
    BY <1>0, <1>2, <2>1
  <2>3. w[j] \in DOMAIN n /\ w[j] # w[k]
    BY <1>1, <2>1, <2>2 DEF Links
  <2>4. CASE k = 0
    BY <1>1, <2>2, <2>3, <2>4
  <2>5. CASE k # 0
    <3>1. k - 1 \in 0 .. len - 1
      BY <1>0, <2>5
    <3>2. w[j] = w[k - 1] <=> j = k - 1
      BY <1>1, <2>2, <3>1 DEF Links
    <3>3. j = k - 1 <=> i = k - 1
      BY <1>0, <2>2
    <3> QED BY <1>1, <2>2, <2>3, <3>2, <3>3
  <2> QED BY <2>4, <2>5
<1>5. ASSUME NEW i \in 1 .. len - 1 PROVE v[i] = n2[v[i - 1]].Next
  <2>1. /\ i - 1 \in 0 .. len - 2 /\ i - 1 \in 0 .. len - 1 /\ i \in 0 .. len - 1
        /\ i \in 1 .. len /\ i + 1 \in 1 .. len /\ (i + 1) - 1 = i /\ (i - 1) + 1 = i
    BY <1>0
  <2>2. CASE i = k
    <3>1. v[i - 1] = w[k - 1] /\ v[i] = w[k + 1] /\ k # 0
      BY <1>0, <1>2, <2>1, <2>2
    <3>2. w[k + 1] = n[w[k]].Next
      BY <1>1, <2>1, <2>2 DEF Links
    <3> QED BY <1>1, <3>1, <3>2
  <2>3. CASE i # k
    <3>1. n2[v[i - 1]].Next = n[v[i - 1]].Next
      <4>1. v[i - 1] \in DOMAIN n2 /\ (k = 0 \/ v[i - 1] # w[k - 1])
        BY <1>0, <1>4, <2>1, <2>3
      <4> QED BY <1>1, <4>1
    <3>2. CASE i < k
      <4>1. v[i - 1] = w[i - 1] /\ v[i] = w[i]
        BY <1>0, <1>2, <2>1, <3>2
      <4>2. w[i] = n[w[i - 1]].Next
        BY <1>1, <2>1 DEF Links
      <4> QED BY <3>1, <4>1, <4>2
    <3>3. CASE ~(i < k)
      <4>1. v[i - 1] = w[i] /\ v[i] = w[i + 1]
        BY <1>0, <1>2, <2>1, <2>3, <3>3
      <4>2. w[i + 1] = n[w[i]].Next
        BY <1>1, <2>1 DEF Links
      <4> QED BY <3>1, <4>1, <4>2
    <3> QED BY <3>2, <3>3
  <2> QED BY <2>2, <2>3
<1>6. ASSUME NEW i \in 0 .. len - 2, NEW j \in 0 .. len - 2, v[i] = v[j] PROVE i = j
  <2> DEFINE at(x) == IF x < k THEN x ELSE x + 1
  <2>1. \A x \in 0 .. len - 2 : /\ at(x) \in 0 .. len - 1
                               /\ x \in 0 .. len - 1
                               /\ v[x] = w[at(x)]
    BY <1>0, <1>2
  <2>2. at(i) = at(j)
    <3> HIDE DEF at
    <3> QED BY <1>1, <1>6, <2>1 DEF Links
  <2> QED BY <1>0, <2>2
<1>7. ASSUME NEW a \in DOMAIN n2 PROVE \E i \in 0 .. len - 2 : v[i] = a
  <2>1. PICK j \in 0 .. len - 1 : w[j] = a
    BY <1>1 DEF Links
  <2>2. j # k
    BY <1>1, <2>1
  <2>3. CASE j < k
    <3>1. j \in 0 .. len - 2 /\ v[j] = w[j]
      BY <1>0, <1>2, <2>3
    <3> QED BY <2>1, <3>1
  <2>4. CASE j > k
    <3>1. j - 1 \in 0 .. len - 2 /\ j - 1 \in 0 .. len - 1 /\ ~(j - 1 < k) /\ (j - 1) + 1 = j
      BY <1>0, <2>4
    <3>2. v[j - 1] = w[j]
      BY <1>2, <3>1
    <3> QED BY <2>1, <3>1, <3>2
  <2> QED BY <1>0, <2>2, <2>3, <2>4
<1>8. v[len - 1] = nullptr
  <2>1. len - 1 \in 0 .. len - 1 /\ ~(len - 1 < k) /\ (len - 1) + 1 = len
    BY <1>0
  <2>2. v[len - 1] = w[len]
    BY <1>2, <2>1
  <2> QED BY <1>1, <2>2 DEF Links
<1>9. (len - 1) - 1 = len - 2
  BY <1>0
<1>10. Links(v, h2, n2, len - 1)
  BY <1>3, <1>4, <1>5, <1>6, <1>7, <1>8, <1>9 DEF Links
<1>11. /\ Chain(h2, n2, len - 1)
       /\ \A i \in 0 .. len - 1 : Walk(h2, n2)[i] = v[i]
  BY <1>0, <1>10, LinksAreWalk
<1> QED BY <1>2, <1>11 DEF w
-----------------------------------------------------------------------------
(* Objects and their buffers: L gives the living Strings, h the heap.      *)

Cell == Character \cup {"nul", "junk"}
StringObject == [Buffer : Address \cup {nullptr}, Length : Nat]
HeapType(h) == DOMAIN h \subseteq Address /\ h \in [DOMAIN h -> Seq(Cell)]
NullString == [Buffer |-> nullptr, Length |-> 0]

Owned(L, h) ==
    /\ L \in [DOMAIN L -> StringObject]
    /\ HeapType(h)
    /\ \A p, q \in DOMAIN L :
          p # q /\ L[p].Buffer = L[q].Buffer => L[p].Buffer = nullptr
    /\ \A p \in DOMAIN L :
          IF L[p].Buffer = nullptr THEN L[p].Length = 0
          ELSE L[p].Buffer \in DOMAIN h /\ Len(h[L[p].Buffer]) = L[p].Length + 1
    /\ \A a \in DOMAIN h : \E p \in DOMAIN L : L[p].Buffer = a

SameTextsBut(P, L, h, L2, h2) ==
    \A q \in DOMAIN L \ P : Text(h2, L2[q]) = Text(h, L[q])

\* Cells for a String of this length go to a, once freed is freed.
GoesTo(h, freed, a, cells, len) ==
    /\ a \in Address /\ a \notin DOMAIN h \ {freed}
    /\ cells \in Seq(Cell) /\ len \in Nat /\ Len(cells) = len + 1
StringAt(a, len) == [Buffer |-> a, Length |-> len]

\* p is the text that is first in the cells, and the Strings not in P are
\* what they were.
Refilled(L, h, P, p, cells, len, L2, h2) ==
    /\ Owned(L2, h2)
    /\ SameTextsBut(P, L, h, L2, h2)
    /\ Text(h2, L2[p]) = SubSeq(cells, 1, len)

LEMMA TextType ==
  ASSUME NEW L, NEW h, Owned(L, h), NEW p \in DOMAIN L
  PROVE  /\ Text(h, L[p]) \in Seq(Cell)
         /\ Len(Text(h, L[p])) = L[p].Length
         /\ L[p].Length \in Nat
<1>1. L[p].Length \in Nat /\ L[p].Buffer \in Address \cup {nullptr}
  BY DEF Owned, StringObject
<1>2. CASE L[p].Buffer = nullptr
  <2>1. L[p].Length = 0 /\ Text(h, L[p]) = <<>>
    BY <1>2 DEF Owned, Text
  <2> QED BY <2>1, EmptySeq
<1>3. CASE L[p].Buffer # nullptr
  <2> DEFINE s == h[L[p].Buffer]
             len == L[p].Length
  <2>1. s \in Seq(Cell) /\ Len(s) = len + 1 /\ len \in Nat
    BY <1>1, <1>3 DEF Owned, HeapType
  <2>2. Text(h, L[p]) = SubSeq(s, 1, len)
    BY <1>3 DEF Text
  <2> HIDE DEF s, len
  <2>3. \A i \in 1 .. len : s[i] \in Cell
    <3> TAKE i \in 1 .. len
    <3>1. i \in 1 .. Len(s)
      BY <2>1
    <3> QED BY <2>1, <3>1, ElementOfSeq
  <2>4. SubSeq(s, 1, len) \in Seq(Cell) /\ Len(SubSeq(s, 1, len)) = len
    <3>1. 1 \in Int /\ len \in Int
      BY <2>1
    <3>2. /\ SubSeq(s, 1, len) \in Seq(Cell)
          /\ Len(SubSeq(s, 1, len)) = IF 1 <= len THEN len - 1 + 1 ELSE 0
      BY <2>3, <3>1, SubSeqProperties
    <3> QED BY <2>1, <3>2
  <2> QED BY <2>1, <2>2, <2>4 DEF len
<1> QED BY <1>2, <1>3

LEMMA WithIs ==
  ASSUME NEW f, NEW a, NEW v
  PROVE  /\ DOMAIN With(f, a, v) = DOMAIN f \cup {a}
         /\ With(f, a, v)[a] = v
         /\ \A x \in DOMAIN f : x # a => With(f, a, v)[x] = f[x]
BY DEF With

LEMMA deleteIs ==
  ASSUME NEW f, NEW a
  PROVE  /\ DOMAIN delete(f, a) = DOMAIN f \ {a}
         /\ \A x \in DOMAIN f \ {a} : delete(f, a)[x] = f[x]
BY DEF delete, Restrict

\* A String gets a new buffer: refilled after its old one is freed, or before.
LEMMA Replaced ==
  ASSUME NEW L, NEW h, Owned(L, h), NEW p \in DOMAIN L,
         NEW a, NEW cells, NEW len, GoesTo(h, L[p].Buffer, a, cells, len)
  PROVE  Refilled(L, h, {p}, p, cells, len,
                  With(L, p, StringAt(a, len)), With(delete(h, L[p].Buffer), a, cells))
<1> DEFINE L2 == With(L, p, StringAt(a, len))
           h2 == With(delete(h, L[p].Buffer), a, cells)
<1>0. /\ nullptr \notin Address /\ a \in Address /\ a \notin DOMAIN h \ {L[p].Buffer}
      /\ cells \in Seq(Cell) /\ len \in Nat /\ Len(cells) = len + 1
  BY StringListAssumption DEF GoesTo
<1>1. /\ DOMAIN L2 = DOMAIN L /\ DOMAIN h2 = (DOMAIN h \ {L[p].Buffer}) \cup {a}
      /\ \A q \in DOMAIN L \ {p} : L2[q] = L[q]
      /\ h2[a] = cells /\ \A x \in DOMAIN h2 \ {a} : h2[x] = h[x]
      /\ L2[p].Buffer = a /\ L2[p].Length = len
  BY DEF With, delete, Restrict, StringAt
<1>2. HeapType(h2)
  BY <1>0 DEF Owned, HeapType, With, delete, Restrict
<1>3. L2 \in [DOMAIN L2 -> StringObject]
  BY <1>0 DEF Owned, StringObject, StringAt, With
<1> HIDE DEF L2, h2
<1>4. ASSUME NEW q \in DOMAIN L \ {p}, L[q].Buffer # nullptr
      PROVE  /\ L[q].Buffer \in DOMAIN h2 \ {a}
             /\ L[q].Buffer # L[p].Buffer
             /\ h2[L[q].Buffer] = h[L[q].Buffer]
  <2>1. L[q].Buffer \in DOMAIN h /\ L[q].Buffer # L[p].Buffer
    BY <1>4 DEF Owned
  <2> QED BY <1>0, <1>1, <2>1
<1>5. ASSUME NEW q \in DOMAIN L2, NEW r \in DOMAIN L2, q # r, L2[q].Buffer = L2[r].Buffer
      PROVE  L2[q].Buffer = nullptr
  <2>1. CASE q # p /\ r # p
    BY <1>1, <1>5, <2>1 DEF Owned
  <2>2. CASE q = p \/ r = p
    BY <1>0, <1>1, <1>4, <1>5, <2>2
  <2> QED BY <2>1, <2>2
<1>6. ASSUME NEW q \in DOMAIN L2
      PROVE  IF L2[q].Buffer = nullptr THEN L2[q].Length = 0
             ELSE L2[q].Buffer \in DOMAIN h2 /\ Len(h2[L2[q].Buffer]) = L2[q].Length + 1
  <2>1. CASE q = p
    BY <1>0, <1>1, <2>1
  <2>2. CASE q # p
    <3>1. L2[q] = L[q] /\ q \in DOMAIN L \ {p}
      BY <1>1, <2>2
    <3> QED BY <1>4, <3>1 DEF Owned
  <2> QED BY <2>1, <2>2
<1>7. ASSUME NEW x \in DOMAIN h2 PROVE \E q \in DOMAIN L2 : L2[q].Buffer = x
  <2>1. CASE x = a
    BY <1>1, <2>1
  <2>2. CASE x # a
    <3>1. PICK q \in DOMAIN L : L[q].Buffer = x
      BY <1>1, <2>2 DEF Owned
    <3>2. q # p
      BY <1>1, <2>2, <3>1
    <3> QED BY <1>1, <3>1, <3>2
  <2> QED BY <2>1, <2>2
<1>8. Owned(L2, h2)
  BY <1>2, <1>3, <1>5, <1>6, <1>7, Zenon DEF Owned
<1>9. SameTextsBut({p}, L, h, L2, h2)
  BY <1>1, <1>4 DEF SameTextsBut, Text
<1>10. Text(h2, L2[p]) = SubSeq(cells, 1, len)
  BY <1>0, <1>1 DEF Text
<1> QED BY <1>8, <1>9, <1>10 DEF Refilled, L2, h2

\* A String is destroyed.
LEMMA Removed ==
  ASSUME NEW L, NEW h, Owned(L, h), NEW p \in DOMAIN L
  PROVE  /\ Owned(delete(L, p), delete(h, L[p].Buffer))
         /\ SameTextsBut({p}, L, h, delete(L, p), delete(h, L[p].Buffer))
<1> DEFINE L2 == delete(L, p)
           h2 == delete(h, L[p].Buffer)
<1>1. /\ DOMAIN L2 = DOMAIN L \ {p} /\ \A q \in DOMAIN L2 : L2[q] = L[q]
      /\ DOMAIN h2 = DOMAIN h \ {L[p].Buffer} /\ \A x \in DOMAIN h2 : h2[x] = h[x]
  BY DEF delete, Restrict
<1>2. HeapType(h2) /\ L2 \in [DOMAIN L2 -> StringObject]
  BY DEF Owned, HeapType, delete, Restrict
<1> HIDE DEF L2, h2
<1>3. \A q \in DOMAIN L2 : L2[q].Buffer # nullptr => L2[q].Buffer \in DOMAIN h2
  BY <1>1 DEF Owned
<1>4. \A q, r \in DOMAIN L2 :
         q # r /\ L2[q].Buffer = L2[r].Buffer => L2[q].Buffer = nullptr
  BY <1>1 DEF Owned
<1>5. \A q \in DOMAIN L2 :
         IF L2[q].Buffer = nullptr THEN L2[q].Length = 0
         ELSE L2[q].Buffer \in DOMAIN h2 /\ Len(h2[L2[q].Buffer]) = L2[q].Length + 1
  BY <1>1, <1>3 DEF Owned
<1>6. ASSUME NEW x \in DOMAIN h2 PROVE \E q \in DOMAIN L2 : L2[q].Buffer = x
  <2>1. PICK q \in DOMAIN L : L[q].Buffer = x
    BY <1>1 DEF Owned
  <2> QED BY <1>1, <2>1
<1>7. Owned(L2, h2)
  BY <1>2, <1>4, <1>5, <1>6, Zenon DEF Owned
<1>8. SameTextsBut({p}, L, h, L2, h2)
  BY <1>1, <1>3 DEF SameTextsBut, Text
<1> QED BY <1>7, <1>8 DEF L2, h2

\* A String is there that has no buffer.
LEMMA EmptyAdded ==
  ASSUME NEW L, NEW h, Owned(L, h), NEW p, p \notin DOMAIN L
  PROVE  /\ Owned(With(L, p, NullString), h)
         /\ SameTextsBut({}, L, h, With(L, p, NullString), h)
<1> DEFINE L2 == With(L, p, NullString)
<1>1. /\ DOMAIN L2 = DOMAIN L \cup {p} /\ \A q \in DOMAIN L : L2[q] = L[q]
      /\ L2[p].Buffer = nullptr /\ L2[p].Length = 0
  BY DEF With, NullString
<1>2. L2 \in [DOMAIN L2 -> StringObject]
  BY DEF Owned, StringObject, NullString, With
<1> HIDE DEF L2
<1>3. \A a \in DOMAIN h : a # nullptr
  BY StringListAssumption DEF Owned, HeapType
<1>4. \A q, r \in DOMAIN L2 :
         q # r /\ L2[q].Buffer = L2[r].Buffer => L2[q].Buffer = nullptr
  BY <1>1 DEF Owned
<1>5. \A q \in DOMAIN L2 :
         IF L2[q].Buffer = nullptr THEN L2[q].Length = 0
         ELSE L2[q].Buffer \in DOMAIN h /\ Len(h[L2[q].Buffer]) = L2[q].Length + 1
  BY <1>1 DEF Owned
<1>6. \A x \in DOMAIN h : \E q \in DOMAIN L2 : L2[q].Buffer = x
  BY <1>1 DEF Owned
<1>7. HeapType(h)
  BY DEF Owned
<1>8. Owned(L2, h)
  BY <1>2, <1>4, <1>5, <1>6, <1>7, Zenon DEF Owned
<1>9. SameTextsBut({}, L, h, L2, h)
  BY <1>1 DEF SameTextsBut
<1> QED BY <1>8, <1>9 DEF L2
\* A String is constructed with its buffer.
LEMMA Added ==
  ASSUME NEW L, NEW h, Owned(L, h), NEW p, p \notin DOMAIN L,
         NEW a, NEW cells, NEW len, GoesTo(h, nullptr, a, cells, len)
  PROVE  Refilled(L, h, {}, p, cells, len, With(L, p, StringAt(a, len)), With(h, a, cells))
<1> DEFINE L1 == With(L, p, NullString)
<1>1. Owned(L1, h) /\ SameTextsBut({}, L, h, L1, h)
  BY EmptyAdded
<1>2. /\ DOMAIN L1 = DOMAIN L \cup {p} /\ p \in DOMAIN L1 /\ L1[p].Buffer = nullptr
      /\ \A q \in DOMAIN L : q # p
  BY DEF NullString, With
<1>3. delete(h, nullptr) = h
  <2>1. DOMAIN h \ {nullptr} = DOMAIN h
    BY StringListAssumption DEF Owned, HeapType
  <2>2. h = [x \in DOMAIN h |-> h[x]]
    BY DEF Owned, HeapType
  <2> QED BY <2>1, <2>2 DEF delete, Restrict
<1>4. With(L, p, StringAt(a, len)) = With(L1, p, StringAt(a, len))
  BY DEF With
<1> HIDE DEF L1
<1>5. Refilled(L1, h, {p}, p, cells, len,
               With(L1, p, StringAt(a, len)), With(delete(h, L1[p].Buffer), a, cells))
  BY <1>1, <1>2, Replaced
<1>6. Refilled(L1, h, {p}, p, cells, len, With(L, p, StringAt(a, len)), With(h, a, cells))
  BY <1>2, <1>3, <1>4, <1>5
<1> QED BY <1>1, <1>2, <1>6 DEF SameTextsBut, Refilled

\* The buffer of q goes to p, whose own is freed.
LEMMA Moved ==
  ASSUME NEW L, NEW h, Owned(L, h), NEW p \in DOMAIN L, NEW q \in DOMAIN L, p # q,
         NEW L2, L2 = [o \in DOMAIN L |-> IF o = p THEN L[q]
                                          ELSE IF o = q THEN NullString ELSE L[o]]
  PROVE  LET h2 == delete(h, L[p].Buffer) IN
         /\ Owned(L2, h2)
         /\ SameTextsBut({p, q}, L, h, L2, h2)
         /\ Text(h2, L2[p]) = Text(h, L[q])
         /\ Text(h2, L2[q]) = <<>>
<1> DEFINE h2 == delete(h, L[p].Buffer)
<1>1. /\ DOMAIN L2 = DOMAIN L /\ \A o \in DOMAIN L \ {p, q} : L2[o] = L[o]
      /\ L2[p] = L[q] /\ L2[q] = NullString
      /\ NullString.Buffer = nullptr /\ NullString.Length = 0
      /\ DOMAIN h2 = DOMAIN h \ {L[p].Buffer} /\ \A x \in DOMAIN h2 : h2[x] = h[x]
  BY DEF NullString, delete, Restrict
<1>2. HeapType(h2) /\ L2 \in [DOMAIN L2 -> StringObject]
  BY DEF Owned, HeapType, StringObject, NullString, delete, Restrict
<1> HIDE DEF h2
<1>3. \A o \in DOMAIN L \ {p} : L[o].Buffer # nullptr =>
         /\ L[o].Buffer \in DOMAIN h2
         /\ Len(h[L[o].Buffer]) = L[o].Length + 1
  BY <1>1 DEF Owned
<1>4. ASSUME NEW o \in DOMAIN L2, NEW r \in DOMAIN L2, o # r, L2[o].Buffer = L2[r].Buffer
      PROVE  L2[o].Buffer = nullptr
  <2>1. \A x \in DOMAIN L : /\ x = p => L2[x].Buffer = L[q].Buffer
                            /\ x = q => L2[x].Buffer = nullptr
                            /\ x # p /\ x # q => L2[x].Buffer = L[x].Buffer
    BY <1>1
  <2>2. \A x, y \in DOMAIN L : x # y /\ L[x].Buffer = L[y].Buffer => L[x].Buffer = nullptr
    BY DEF Owned
  <2> QED BY <1>1, <1>4, <2>1, <2>2
<1>5. ASSUME NEW o \in DOMAIN L2
      PROVE  IF L2[o].Buffer = nullptr THEN L2[o].Length = 0
             ELSE L2[o].Buffer \in DOMAIN h2 /\ Len(h2[L2[o].Buffer]) = L2[o].Length + 1
  <2>1. CASE o = q
    BY <1>1, <2>1
  <2>2. CASE o # q
    <3>1. PICK x \in DOMAIN L \ {p} : L2[o] = L[x]
      BY <1>1, <2>2
    <3> QED BY <1>1, <1>3, <3>1 DEF Owned
  <2> QED BY <2>1, <2>2
<1>6. ASSUME NEW x \in DOMAIN h2 PROVE \E o \in DOMAIN L2 : L2[o].Buffer = x
  <2>1. PICK o \in DOMAIN L : L[o].Buffer = x
    BY <1>1 DEF Owned
  <2>2. o # p
    BY <1>1, <2>1
  <2> QED BY <1>1, <2>1, <2>2
<1>7. Owned(L2, h2)
  BY <1>2, <1>4, <1>5, <1>6, Zenon DEF Owned
<1>8. \A o \in DOMAIN L \ {p} : Text(h2, L[o]) = Text(h, L[o])
  BY <1>1, <1>3 DEF Text
<1> QED BY <1>1, <1>7, <1>8 DEF SameTextsBut, Text, h2

\* The same Strings by other names: r gives each of those the name it had.
Renames(r, L) ==
    /\ \A x \in DOMAIN r : r[x] \in DOMAIN L
    /\ \A x, y \in DOMAIN r : r[x] = r[y] => x = y
    /\ \A p \in DOMAIN L : \E x \in DOMAIN r : r[x] = p
By(L, r) == [x \in DOMAIN r |-> L[r[x]]]

LEMMA Renamed ==
  ASSUME NEW L, NEW h, Owned(L, h), NEW r, Renames(r, L)
  PROVE  Owned(By(L, r), h)
<1> DEFINE L2 == By(L, r)
<1>1. DOMAIN L2 = DOMAIN r /\ \A x \in DOMAIN r : L2[x] = L[r[x]] /\ r[x] \in DOMAIN L
  BY DEF By, Renames
<1>2. L2 \in [DOMAIN L2 -> StringObject] /\ HeapType(h)
  BY <1>1 DEF Owned, By
<1> HIDE DEF L2
<1>3. \A p, q \in DOMAIN L2 :
         p # q /\ L2[p].Buffer = L2[q].Buffer => L2[p].Buffer = nullptr
  BY <1>1 DEF Owned, Renames
<1>4. \A p \in DOMAIN L2 :
         IF L2[p].Buffer = nullptr THEN L2[p].Length = 0
         ELSE L2[p].Buffer \in DOMAIN h /\ Len(h[L2[p].Buffer]) = L2[p].Length + 1
  BY <1>1 DEF Owned
<1>5. ASSUME NEW a \in DOMAIN h PROVE \E x \in DOMAIN L2 : L2[x].Buffer = a
  <2>1. PICK p \in DOMAIN L : L[p].Buffer = a
    BY DEF Owned
  <2>2. PICK x \in DOMAIN r : r[x] = p
    BY DEF Renames
  <2> QED BY <1>1, <2>1, <2>2
<1>6. Owned(L2, h)
  BY <1>2, <1>3, <1>4, <1>5, Zenon DEF Owned
<1> QED BY <1>6 DEF L2

\* All Strings but those in D are destroyed: what is left of the heap.
BuffersBut(L, h, D) == Restrict(h, DOMAIN h \ {L[p].Buffer : p \in DOMAIN L \ D})

LEMMA Cleared ==
  ASSUME NEW L, NEW h, Owned(L, h), NEW D \in SUBSET DOMAIN L
  PROVE  /\ Owned(Restrict(L, D), BuffersBut(L, h, D))
         /\ \A q \in D : Text(BuffersBut(L, h, D), Restrict(L, D)[q]) = Text(h, L[q])
<1> DEFINE L2 == Restrict(L, D)
           h2 == BuffersBut(L, h, D)
<1>1. /\ DOMAIN L2 = D /\ \A q \in DOMAIN L2 : L2[q] = L[q]
      /\ DOMAIN h2 = DOMAIN h \ {L[p].Buffer : p \in DOMAIN L \ D}
      /\ \A x \in DOMAIN h2 : h2[x] = h[x]
  BY DEF Restrict, BuffersBut
<1>2. HeapType(h2) /\ L2 \in [DOMAIN L2 -> StringObject]
  BY DEF Owned, HeapType, Restrict, BuffersBut
<1> HIDE DEF L2, h2
<1>3. \A q \in D : L[q].Buffer # nullptr => L[q].Buffer \in DOMAIN h2
  <2> TAKE q \in D
  <2> HAVE L[q].Buffer # nullptr
  <2>1. L[q].Buffer \in DOMAIN h
    BY DEF Owned
  <2>2. \A p \in DOMAIN L \ D : L[p].Buffer # L[q].Buffer
    BY DEF Owned
  <2> QED BY <1>1, <2>1, <2>2
<1>4. \A q, r \in DOMAIN L2 :
         q # r /\ L2[q].Buffer = L2[r].Buffer => L2[q].Buffer = nullptr
  BY <1>1 DEF Owned
<1>5. \A q \in DOMAIN L2 :
         IF L2[q].Buffer = nullptr THEN L2[q].Length = 0
         ELSE L2[q].Buffer \in DOMAIN h2 /\ Len(h2[L2[q].Buffer]) = L2[q].Length + 1
  BY <1>1, <1>3 DEF Owned
<1>6. ASSUME NEW x \in DOMAIN h2 PROVE \E q \in DOMAIN L2 : L2[q].Buffer = x
  <2>1. PICK q \in DOMAIN L : L[q].Buffer = x
    BY <1>1 DEF Owned
  <2>2. q \in D
    BY <1>1, <2>1
  <2> QED BY <1>1, <2>1, <2>2
<1>7. Owned(L2, h2)
  BY <1>2, <1>4, <1>5, <1>6, Zenon DEF Owned
<1>8. \A q \in D : Text(h2, L2[q]) = Text(h, L[q])
  BY <1>1, <1>3 DEF Text
<1> QED BY <1>7, <1>8 DEF L2, h2
-----------------------------------------------------------------------------
(***************************************************************************)
(* The inductive invariant: the variables have their types, the nodes are  *)
(* a chain from head, and the heap's buffers are those of the Strings that *)
(* are alive, each of one.  (tail may be that of a node that is gone.)     *)
(***************************************************************************)
Strings == DOMAIN string \subseteq Name /\ string \in [DOMAIN string -> StringObject]
Nodes ==
    /\ DOMAIN node \subseteq 1 .. MaxNodes
    /\ node \in [DOMAIN node -> [Data : StringObject, Next : 0 .. MaxNodes]]

TypeOK ==
    /\ Strings /\ Nodes /\ HeapType(buffer)
    /\ head \in 0 .. MaxNodes /\ tail \in 0 .. MaxNodes /\ Length \in 0 .. MaxNodes

Chained == Chain(head, node, Length)

IInv == TypeOK /\ Chained /\ Owned(Living, buffer)

-----------------------------------------------------------------------------
(* Objects, and what they are.                                             *)

ObjectsOf(S, h, n, len) ==
    [p \in DOMAIN S \cup 1 .. len |->
        IF p \in DOMAIN S THEN S[p] ELSE n[Walk(h, n)[p - 1]].Data]

LEMMA LivingIs ==
  /\ Living = ObjectsOf(string, head, node, Length)
  /\ Living' = ObjectsOf(string', head', node', Length')
<1>1. Living = ObjectsOf(string, head, node, Length)
  BY NodeAtIsWalk DEF Living, Objects, Get, ObjectsOf
<1>2. Living' = ObjectsOf(string', head', node', Length')
  BY NodeAtIsWalk DEF Living, Objects, Get, ObjectsOf
<1> QED BY <1>1, <1>2

\* A name is no index.
LEMMA NamesApart ==
  ASSUME Strings
  PROVE  \A n \in DOMAIN string : n \in Name /\ n \notin Nat /\ n \notin 1 .. Length
<1>1. \A n \in DOMAIN string : n \in Name /\ n \notin Nat
  BY StringListAssumption DEF Strings
<1>2. ASSUME NEW n \in DOMAIN string, n \in 1 .. Length PROVE FALSE
  <2>1. n \in Int /\ n >= 1
    BY <1>2
  <2>2. n \in Nat
    BY <2>1
  <2> QED BY <1>1, <2>2
<1> QED BY <1>1, <1>2

\* The item at an index is a node's.
LEMMA ItemNode ==
  ASSUME Chained, NEW i \in 1 .. Length, Length \in 0 .. MaxNodes
  PROVE  NodeAt[i - 1] \in DOMAIN node
<1>1. i - 1 \in 0 .. Length - 1
  BY StringListAssumption
<1> QED BY <1>1, NodeAtIsWalk DEF Chained, Chain, Links

LEMMA SameItem ==
  ASSUME Chained, NEW i \in 1 .. Length, NEW j \in 1 .. Length, NodeAt[i - 1] = NodeAt[j - 1],
         Length \in 0 .. MaxNodes
  PROVE  i = j
<1>1. i - 1 \in 0 .. Length - 1 /\ j - 1 \in 0 .. Length - 1
  BY StringListAssumption
<1>2. i - 1 = j - 1
  BY <1>1, NodeAtIsWalk DEF Chained, Chain, Links
<1> QED BY <1>2

LEMMA ObjectTypes ==
  ASSUME TypeOK, Chained, NEW p \in Objects
  PROVE  /\ Get(p) \in StringObject
         /\ Living[p] = Get(p)
         /\ Get(p).Buffer \in Address \cup {nullptr} /\ Get(p).Length \in Nat
<1>1. CASE p \in DOMAIN string
  <2>1. Get(p) = string[p] /\ string[p] \in StringObject
    BY <1>1 DEF Get, TypeOK, Strings
  <2> QED BY <2>1 DEF Living, StringObject
<1>2. CASE p \notin DOMAIN string
  <2>1. p \in 1 .. Length /\ NodeAt[p - 1] \in DOMAIN node
    BY <1>2, ItemNode DEF Objects, TypeOK
  <2>2. Get(p) = node[NodeAt[p - 1]].Data /\ Get(p) \in StringObject
    BY <1>2, <2>1 DEF Get, TypeOK, Nodes
  <2> QED BY <2>2 DEF Living, StringObject
<1> QED BY <1>1, <1>2

-----------------------------------------------------------------------------
(* Objects change.                                                         *)

\* Each object in D is what new says.
Changed(L, new) == [p \in DOMAIN L |-> IF p \in DOMAIN new THEN new[p] ELSE L[p]]

LEMMA SetChanges ==
  ASSUME TypeOK, Chained, NEW new, new \in [DOMAIN new -> StringObject],
         DOMAIN new \subseteq Objects, Set(new), UNCHANGED List
  PROVE  /\ Strings' /\ Nodes' /\ Chained'
         /\ Objects' = Objects /\ DOMAIN string' = DOMAIN string
         /\ Living' = Changed(Living, new)
<1>0. /\ MaxNodes \in Nat /\ Length \in 0 .. MaxNodes /\ Length \in Nat
      /\ head' = head /\ Length' = Length
  BY StringListAssumption DEF TypeOK, List
<1>1. /\ DOMAIN string' = DOMAIN string
      /\ \A n \in DOMAIN string : string'[n] = IF n \in DOMAIN new THEN new[n] ELSE string[n]
      /\ string' = [n \in DOMAIN string |-> string'[n]]
  BY DEF Set
<1>2. Strings'
  <2>1. \A n \in DOMAIN string : string'[n] \in StringObject
    BY <1>1 DEF TypeOK, Strings
  <2> QED BY <1>1, <2>1 DEF TypeOK, Strings
<1> DEFINE Item(a, i) == NodeAt[i - 1] = a /\ i \in DOMAIN new
           data(a) == IF \E i \in 1 .. Length : Item(a, i)
                      THEN new[CHOOSE i \in 1 .. Length : NodeAt[i - 1] = a]
                      ELSE node[a].Data
<1>3. DOMAIN node' = DOMAIN node
  BY DEF Set
<1>4. ASSUME NEW a \in DOMAIN node
      PROVE  /\ node'[a].Next = node[a].Next
             /\ node'[a].Data = data(a)
             /\ node'[a] \in [Data : StringObject, Next : 0 .. MaxNodes]
  <2>1. node[a] \in [Data : StringObject, Next : 0 .. MaxNodes]
    BY DEF TypeOK, Nodes
  <2>2. CASE \E i \in 1 .. Length : Item(a, i)
    <3> DEFINE c == CHOOSE i \in 1 .. Length : NodeAt[i - 1] = a
    <3>1. PICK i \in 1 .. Length : Item(a, i)
      BY <2>2
    <3>2. c \in 1 .. Length /\ NodeAt[c - 1] = a
      BY <3>1
    <3>3. c = i
      <4> HIDE DEF c
      <4> QED BY <1>0, <3>1, <3>2, SameItem
    <3>4. new[c] \in StringObject
      BY <3>1, <3>3
    <3>5. node'[a] = [node[a] EXCEPT !.Data = new[c]]
      BY <2>2 DEF Set
    <3>6. data(a) = new[c]
      BY <2>2
    <3> HIDE DEF c, data
    <3> QED BY <2>1, <3>4, <3>5, <3>6
  <2>3. CASE ~ \E i \in 1 .. Length : Item(a, i)
    <3>1. node'[a] = node[a]
      BY <2>3 DEF Set
    <3>2. data(a) = node[a].Data
      BY <2>3
    <3> HIDE DEF data, Item
    <3> QED BY <2>1, <3>1, <3>2
  <2> HIDE DEF data, Item
  <2> QED BY <2>2, <2>3
<1>5. Nodes'
  <2>1. node' = [a \in DOMAIN node |-> node'[a]]
    BY DEF Set
  <2> HIDE DEF data
  <2> QED BY <1>3, <1>4, <2>1 DEF TypeOK, Nodes
<1>6. /\ Chain(head, node', Length)
      /\ \A i \in 0 .. Length : Walk(head, node')[i] = Walk(head, node)[i]
  <2> HIDE DEF data
  <2> QED BY <1>0, <1>3, <1>4, ChainKept DEF Chained
<1>7. Chained'
  BY <1>0, <1>6 DEF Chained
<1>8. Objects' = Objects
  BY <1>0, <1>1 DEF Objects
<1>9. ASSUME NEW p \in Objects PROVE Living'[p] = Changed(Living, new)[p]
  <2>1. Changed(Living, new)[p] = IF p \in DOMAIN new THEN new[p] ELSE Living[p]
    BY DEF Changed, Living
  <2>2. CASE p \in DOMAIN string
    <3>1. Living'[p] = string'[p] /\ Living[p] = string[p]
      BY <1>1, <2>2, LivingIs DEF ObjectsOf
    <3> QED BY <1>1, <2>1, <2>2, <3>1
  <2>3. CASE p \notin DOMAIN string
    <3>1. p \in 1 .. Length /\ p - 1 \in 0 .. Length
      BY <1>0, <2>3 DEF Objects
    <3> DEFINE a == NodeAt[p - 1]
    <3>2. a \in DOMAIN node
      BY <1>0, <3>1, ItemNode
    <3>3. Living[p] = node[a].Data
      BY <2>3, <3>1 DEF Living, Objects, Get
    <3>4. Living'[p] = node'[a].Data
      <4>1. Walk(head', node')[p - 1] = a
        BY <1>0, <1>6, <3>1, NodeAtIsWalk
      <4> QED BY <1>0, <1>1, <2>3, <3>1, <4>1, LivingIs DEF ObjectsOf
    <3>5. CASE p \in DOMAIN new
      <4>1. Item(a, p)
        BY <3>5
      <4> DEFINE c == CHOOSE i \in 1 .. Length : NodeAt[i - 1] = a
      <4>2. c \in 1 .. Length /\ NodeAt[c - 1] = a
        BY <3>1
      <4>3. c = p
        <5> HIDE DEF c
        <5> QED BY <1>0, <3>1, <4>2, SameItem
      <4>4. data(a) = new[c]
        BY <3>1, <4>1
      <4> HIDE DEF a, c, data, Item
      <4> QED BY <1>4, <2>1, <3>2, <3>4, <3>5, <4>3, <4>4
    <3>6. CASE p \notin DOMAIN new
      <4>1. ~ \E i \in 1 .. Length : Item(a, i)
        <5>1. \A i \in 1 .. Length : NodeAt[i - 1] = a => i = p
          BY <1>0, <3>1, SameItem
        <5> QED BY <3>6, <5>1
      <4>2. data(a) = node[a].Data
        BY <4>1
      <4> HIDE DEF a, data, Item
      <4> QED BY <1>4, <2>1, <3>2, <3>3, <3>4, <3>6, <4>2
    <3> QED BY <3>5, <3>6
  <2> QED BY <2>2, <2>3
<1>10. Living' = Changed(Living, new)
  <2>1. Living' = [p \in Objects |-> Living'[p]]
    BY <1>8 DEF Living
  <2>2. Changed(Living, new) = [p \in Objects |-> Changed(Living, new)[p]]
    BY DEF Changed, Living
  <2>3. [p \in Objects |-> Living'[p]] = [p \in Objects |-> Changed(Living, new)[p]]
    BY <1>9
  <2> QED BY <2>1, <2>2, <2>3, Zenon
<1> QED BY <1>1, <1>2, <1>5, <1>7, <1>8, <1>10
-----------------------------------------------------------------------------
(* What the strings say: the abstract texts and items are those of the     *)
(* Strings that are alive.                                                 *)

LEMMA TextsAre ==
  ASSUME TypeOK
  PROVE  /\ DOMAIN text = DOMAIN string /\ DOMAIN items = 1 .. Length
         /\ DOMAIN Living = Objects /\ Objects = DOMAIN string \cup 1 .. Length
         /\ \A n \in DOMAIN string : text[n] = Text(buffer, Living[n])
         /\ \A i \in 1 .. Length : items[i] = Text(buffer, Living[i])
<1>1. \A n \in DOMAIN string : n \notin 1 .. Length
  BY NamesApart DEF TypeOK
<1> QED BY <1>1 DEF text, items, Living, Objects, Get

LEMMA TextsWillBe ==
  ASSUME TypeOK'
  PROVE  /\ text' = [n \in DOMAIN string' |-> Text(buffer', Living'[n])]
         /\ items' = [i \in 1 .. Length' |-> Text(buffer', Living'[i])]
<1>1. \A n \in DOMAIN string' : n \in Name /\ n \notin Nat
  BY StringListAssumption DEF TypeOK, Strings
<1>2. \A i \in 1 .. Length' : i \in Nat
  BY DEF TypeOK
<1>3. \A i \in 1 .. Length' : i \notin DOMAIN string'
  BY <1>1, <1>2
<1>4. /\ \A n \in DOMAIN string' : Living'[n] = string'[n]
      /\ \A i \in 1 .. Length' : Living'[i] = node'[NodeAt'[i - 1]].Data
  BY <1>3 DEF Living, Objects, Get
<1>5. /\ text' = [n \in DOMAIN string' |-> Text(buffer', string'[n])]
      /\ items' = [i \in 1 .. Length' |-> Text(buffer', node'[NodeAt'[i - 1]].Data)]
  BY DEF text, items
<1>6. \A n \in DOMAIN string' : Text(buffer', string'[n]) = Text(buffer', Living'[n])
  BY <1>4
<1>7. \A i \in 1 .. Length' :
         Text(buffer', node'[NodeAt'[i - 1]].Data) = Text(buffer', Living'[i])
  BY <1>4
<1> QED BY <1>5, <1>6, <1>7

LEMMA ValuesAre ==
  ASSUME TypeOK, NEW p \in Objects
  PROVE  /\ Value(p) = Text(buffer, Living[p])
         /\ Values!Value(p) = Text(buffer, Living[p])
         /\ p \in Values!Object
<1>1. CASE p \in 1 .. Length
  BY <1>1, TextsAre DEF Value, Living, Values!Value, Values!Object
<1>2. CASE p \in DOMAIN string
  <2>1. p \notin 1 .. Length
    BY <1>2, NamesApart DEF TypeOK
  <2> QED BY <1>2, <2>1, TextsAre DEF Value, Living, Values!Value, Values!Object
<1> QED BY <1>1, <1>2 DEF Objects

\* A step that gives the objects in D what new says gives their texts to them.
LEMMA Becomes ==
  ASSUME IInv, TypeOK', Length' = Length, DOMAIN string' = DOMAIN string, NEW new,
         SameTextsBut(DOMAIN new, Living, buffer, Living', buffer'),
         \A p \in DOMAIN new : Text(buffer', Living'[p]) = new[p]
  PROVE  Values!Become(new)
<1>1. /\ DOMAIN text = DOMAIN string /\ DOMAIN items = 1 .. Length
      /\ DOMAIN Living = Objects /\ Objects = DOMAIN string \cup 1 .. Length
      /\ \A n \in DOMAIN string : text[n] = Text(buffer, Living[n])
      /\ \A i \in 1 .. Length : items[i] = Text(buffer, Living[i])
  BY TextsAre DEF IInv
<1>2. \A o \in DOMAIN Living \ DOMAIN new :
         Text(buffer', Living'[o]) = Text(buffer, Living[o])
  BY DEF SameTextsBut
<1>3. text' = [n \in DOMAIN text |-> IF n \in DOMAIN new THEN new[n] ELSE text[n]]
  <2>1. \A n \in DOMAIN text :
           Text(buffer', Living'[n]) = IF n \in DOMAIN new THEN new[n] ELSE text[n]
    BY <1>1, <1>2
  <2>2. text' = [n \in DOMAIN text |-> Text(buffer', Living'[n])]
    BY <1>1, TextsWillBe
  <2> QED BY <2>1, <2>2
<1>4. items' = [i \in DOMAIN items |-> IF i \in DOMAIN new THEN new[i] ELSE items[i]]
  <2>1. \A i \in DOMAIN items :
           Text(buffer', Living'[i]) = IF i \in DOMAIN new THEN new[i] ELSE items[i]
    BY <1>1, <1>2
  <2>2. items' = [i \in DOMAIN items |-> Text(buffer', Living'[i])]
    BY <1>1, TextsWillBe
  <2> QED BY <2>1, <2>2
<1> QED BY <1>3, <1>4 DEF Values!Become

\* One object becomes t.
Is(p, t) == [o \in {p} |-> t]

LEMMA OneBecomes ==
  ASSUME IInv, TypeOK', Length' = Length, DOMAIN string' = DOMAIN string, NEW p, NEW t,
         SameTextsBut({p}, Living, buffer, Living', buffer'), Text(buffer', Living'[p]) = t
  PROVE  Values!Become(Is(p, t))
<1>1. DOMAIN Is(p, t) = {p} /\ Is(p, t)[p] = t
  BY DEF Is
<1> QED BY <1>1, Becomes

-----------------------------------------------------------------------------
(* Cells.                                                                  *)

\* A text with one more cell is what a buffer holds.
LEMMA CellsOf ==
  ASSUME NEW t \in Seq(Cell), NEW c \in Cell
  PROVE  /\ Append(t, c) \in Seq(Cell) /\ Len(Append(t, c)) = Len(t) + 1
         /\ Len(t) \in Nat /\ SubSeq(Append(t, c), 1, Len(t)) = t
<1> DEFINE s == Append(t, c)
           u == SubSeq(s, 1, Len(t))
<1>1. /\ s \in Seq(Cell) /\ Len(s) = Len(t) + 1 /\ Len(t) \in Nat
      /\ \A i \in 1 .. Len(t) : s[i] = t[i]
  BY AppendProperties
<1> HIDE DEF s
<1>2. \A i \in 1 .. Len(t) : s[i] \in Cell
  BY <1>1, ElementOfSeq
<1>3. /\ u \in Seq(Cell)
      /\ Len(u) = IF 1 <= Len(t) THEN Len(t) - 1 + 1 ELSE 0
      /\ \A i \in 1 .. Len(t) - 1 + 1 : u[i] = s[1 + i - 1]
  <2>1. 1 \in Int /\ Len(t) \in Int
    BY <1>1
  <2> QED BY <1>2, <2>1, SubSeqProperties
<1> HIDE DEF u
<1>4. Len(u) = Len(t) /\ \A i \in 1 .. Len(u) : u[i] = t[i]
  BY <1>1, <1>3
<1>5. u = t
  BY <1>3, <1>4, SeqEqual
<1> QED BY <1>1, <1>5 DEF s, u

\* Part of a text, and two texts, are a text.
LEMMA TextsOf ==
  ASSUME NEW t \in Seq(Cell)
  PROVE  /\ \A index \in 0 .. Len(t) : SubSeq(t, 1, index) \in Seq(Cell)
         /\ \A index \in 0 .. Len(t) : SubSeq(t, index + 1, Len(t)) \in Seq(Cell)
         /\ \A t2 \in Seq(Cell) : t \o t2 \in Seq(Cell)
<1>1. Len(t) \in Nat /\ \A i \in 1 .. Len(t) : t[i] \in Cell
  BY LenProperties, ElementOfSeq
<1>2. ASSUME NEW index \in 0 .. Len(t) PROVE SubSeq(t, 1, index) \in Seq(Cell)
  <2>1. 1 \in Int /\ index \in Int /\ \A i \in 1 .. index : i \in 1 .. Len(t)
    BY <1>1
  <2> QED BY <1>1, <2>1, SubSeqProperties
<1>3. ASSUME NEW index \in 0 .. Len(t) PROVE SubSeq(t, index + 1, Len(t)) \in Seq(Cell)
  <2>1. /\ index + 1 \in Int /\ Len(t) \in Int
        /\ \A i \in index + 1 .. Len(t) : i \in 1 .. Len(t)
    BY <1>1
  <2> QED BY <1>1, <2>1, SubSeqProperties
<1>4. \A t2 \in Seq(Cell) : t \o t2 \in Seq(Cell)
  BY ConcatProperties
<1> QED BY <1>2, <1>3, <1>4

-----------------------------------------------------------------------------
(* The steps that give one String a new buffer.                            *)

LEMMA OneRefilled ==
  ASSUME IInv, NEW p \in Objects, NEW a, NEW cells, NEW len,
         GoesTo(buffer, Get(p).Buffer, a, cells, len),
         buffer' = With(delete(buffer, Get(p).Buffer), a, cells),
         Set(Is(p, StringAt(a, len))), UNCHANGED List
  PROVE  /\ IInv'
         /\ Values!Become(Is(p, SubSeq(cells, 1, len)))
<1> DEFINE new == Is(p, StringAt(a, len))
<1>1. /\ DOMAIN new = {p} /\ new[p] = StringAt(a, len)
      /\ new \in [DOMAIN new -> StringObject] /\ DOMAIN new \subseteq Objects
  BY DEF Is, StringAt, StringObject, GoesTo
<1>2. /\ TypeOK /\ Chained /\ Owned(Living, buffer)
      /\ DOMAIN Living = Objects /\ Living[p] = Get(p)
  BY DEF IInv, Living
<1>3. /\ Strings' /\ Nodes' /\ Chained'
      /\ DOMAIN string' = DOMAIN string
      /\ Living' = Changed(Living, new)
  <2> HIDE DEF new
  <2> QED BY <1>1, <1>2, SetChanges DEF new
<1>4. Changed(Living, new) = With(Living, p, StringAt(a, len))
  <2> HIDE DEF new
  <2>1. DOMAIN Living \cup {p} = DOMAIN Living
    BY <1>2
  <2> QED BY <1>1, <2>1 DEF Changed, With
<1>5. Refilled(Living, buffer, {p}, p, cells, len, Living', buffer')
  <2>1. Refilled(Living, buffer, {p}, p, cells, len,
                 With(Living, p, StringAt(a, len)), With(delete(buffer, Living[p].Buffer), a, cells))
    BY <1>2, Replaced
  <2> QED BY <1>2, <1>3, <1>4, <2>1
<1>6. /\ Owned(Living', buffer')
      /\ SameTextsBut({p}, Living, buffer, Living', buffer')
      /\ Text(buffer', Living'[p]) = SubSeq(cells, 1, len)
  BY <1>5 DEF Refilled
<1>7. TypeOK'
  BY <1>2, <1>3, <1>6 DEF TypeOK, List, Owned
<1>8. IInv'
  BY <1>3, <1>6, <1>7 DEF IInv
<1> QED BY <1>3, <1>6, <1>7, <1>8, OneBecomes DEF List

\* A new buffer before the old one is freed.
LEMMA RefillBecomes ==
  ASSUME IInv, NEW p \in Objects, NEW t \in Seq(Cell), NEW c \in Cell,
         Refill(p, Append(t, c)), UNCHANGED List
  PROVE  /\ IInv'
         /\ Values!Become(Is(p, t))
<1> DEFINE cells == Append(t, c)
<1>1. /\ cells \in Seq(Cell) /\ Len(cells) = Len(t) + 1
      /\ Len(t) \in Nat /\ SubSeq(cells, 1, Len(t)) = t
  BY CellsOf
<1>2. PICK a \in Free(buffer) :
         /\ Allocate(delete(With(buffer, a, cells), Get(p).Buffer))
         /\ Set([o \in {p} |-> [Buffer |-> a, Length |-> Len(cells) - 1]])
  BY DEF Refill
<1> HIDE DEF cells
<1>3. a \in Address /\ a \notin DOMAIN buffer /\ a # nullptr
  BY StringListAssumption DEF Free
<1>4. a # Get(p).Buffer
  <2>1. Living[p] = Get(p) /\ p \in DOMAIN Living /\ Owned(Living, buffer)
    BY DEF IInv, Living
  <2> QED BY <1>3, <2>1 DEF Owned
<1>5. buffer' = With(delete(buffer, Get(p).Buffer), a, cells)
  <2>1. buffer' = delete(With(buffer, a, cells), Get(p).Buffer)
    BY <1>2 DEF Allocate
  <2> QED BY <1>4, <2>1 DEF With, delete, Restrict
<1>6. Set(Is(p, StringAt(a, Len(t))))
  <2>1. Len(cells) - 1 = Len(t)
    BY <1>1
  <2>2. Set([o \in {p} |-> [Buffer |-> a, Length |-> Len(t)]])
    BY <1>2, <2>1
  <2> QED BY <2>2 DEF Is, StringAt
<1>7. GoesTo(buffer, Get(p).Buffer, a, cells, Len(t))
  BY <1>1, <1>3 DEF GoesTo
<1>8. IInv' /\ Values!Become(Is(p, SubSeq(cells, 1, Len(t))))
  BY <1>5, <1>6, <1>7, OneRefilled
<1> QED BY <1>1, <1>8

-----------------------------------------------------------------------------
(* Each operation keeps the invariant and does what StringValues says.     *)

\* What the operations read: an object's text, and how long it is.
LEMMA ValueIs ==
  ASSUME IInv, NEW p \in Objects
  PROVE  /\ Value(p) \in Seq(Cell) /\ Len(Value(p)) = Get(p).Length /\ Get(p).Length \in Nat
         /\ Values!Value(p) = Value(p) /\ p \in Values!Object
<1>1. Living[p] = Get(p) /\ p \in DOMAIN Living /\ Owned(Living, buffer) /\ TypeOK
  BY DEF IInv, Living
<1> QED BY <1>1, ValuesAre, TextType

LEMMA ChopLeftStep ==
  ASSUME IInv, NEW p \in Objects, NEW index \in 0 .. MaxLength - 1, ChopLeft(p, index)
  PROVE  IInv' /\ Values!Next
<1> DEFINE t == SubSeq(Value(p), 1, index)
<1>1. /\ Value(p) \in Seq(Cell) /\ Len(Value(p)) = Get(p).Length /\ Get(p).Length \in Nat
      /\ Values!Value(p) = Value(p) /\ p \in Values!Object
  BY ValueIs
<1>2. index \in 0 .. Len(Value(p)) - 1 /\ index \in 0 .. Len(Value(p))
  BY <1>1, StringListAssumption DEF ChopLeft
<1>3. t \in Seq(Cell) /\ "nul" \in Cell
  BY <1>1, <1>2, TextsOf DEF Cell
<1>4. Refill(p, Append(t, "nul")) /\ UNCHANGED List
  BY DEF ChopLeft, Terminated
<1> HIDE DEF t
<1>5. IInv' /\ Values!Become(Is(p, t))
  BY <1>3, <1>4, RefillBecomes
<1>6. Values!Chop(p, index, "left")
  BY <1>1, <1>5 DEF Values!Chop, ChopLeft, Is, t
<1> QED BY <1>1, <1>2, <1>5, <1>6 DEF Values!Next

LEMMA ChopRightStep ==
  ASSUME IInv, NEW p \in Objects, NEW index \in 0 .. MaxLength - 1, ChopRight(p, index)
  PROVE  IInv' /\ Values!Next
<1> DEFINE t == SubSeq(Value(p), index + 1, Get(p).Length)
<1>1. /\ Value(p) \in Seq(Cell) /\ Len(Value(p)) = Get(p).Length /\ Get(p).Length \in Nat
      /\ Values!Value(p) = Value(p) /\ p \in Values!Object
  BY ValueIs
<1>2. index \in 0 .. Len(Value(p)) - 1 /\ index \in 0 .. Len(Value(p))
  BY <1>1, StringListAssumption DEF ChopRight
<1>3. t \in Seq(Cell) /\ "nul" \in Cell
  BY <1>1, <1>2, TextsOf DEF Cell
<1>4. Refill(p, Append(t, "nul")) /\ UNCHANGED List
  BY DEF ChopRight, Terminated
<1> HIDE DEF t
<1>5. IInv' /\ Values!Become(Is(p, t))
  BY <1>3, <1>4, RefillBecomes
<1>6. Values!Chop(p, index, "right")
  BY <1>1, <1>5 DEF Values!Chop, ChopRight, Is, t
<1> QED BY <1>1, <1>2, <1>5, <1>6 DEF Values!Next

\* The names of the history's steps, joined.
LEMMA PairsJoined ==
  ASSUME NEW a, NEW b, NEW c, NEW d
  PROVE  <<a, b>> \o <<c, d>> = <<a, b, c, d>>
<1> DEFINE S == {a, b, c, d}
           u == <<a, b>>
           v == <<c, d>>
           w == <<a, b, c, d>>
<1>1. u \in Seq(S) /\ v \in Seq(S) /\ w \in Seq(S)
  OBVIOUS
<1>2. /\ Len(u) = 2 /\ Len(v) = 2 /\ Len(w) = 4
      /\ u[1] = a /\ u[2] = b /\ v[1] = c /\ v[2] = d
      /\ w[1] = a /\ w[2] = b /\ w[3] = c /\ w[4] = d
  OBVIOUS
<1> HIDE DEF S, u, v, w
<1>3. /\ u \o v \in Seq(S) /\ Len(u \o v) = Len(u) + Len(v)
      /\ \A i \in 1 .. Len(u) + Len(v) :
            (u \o v)[i] = IF i <= Len(u) THEN u[i] ELSE v[i - Len(u)]
  BY <1>1, ConcatProperties
<1>4. Len(u \o v) = 4
  BY <1>2, <1>3
<1>5. ASSUME NEW i \in 1 .. 4 PROVE (u \o v)[i] = w[i]
  <2>1. (u \o v)[i] = IF i <= 2 THEN u[i] ELSE v[i - 2]
    BY <1>2, <1>3
  <2>2. i = 1 \/ i = 2 \/ i = 3 \/ i = 4
    OBVIOUS
  <2> QED BY <1>2, <2>1, <2>2
<1>6. u \o v = w
  BY <1>1, <1>2, <1>3, <1>4, <1>5, SeqEqual
<1> QED BY <1>6 DEF u, v, w

LEMMA AppendStringStep ==
  ASSUME IInv, NEW p \in Objects, NEW q \in Objects, p # q, AppendString(p, q)
  PROVE  IInv' /\ Values!Next
<1> DEFINE t == Value(p) \o Value(q)
<1>1. /\ Value(p) \in Seq(Cell) /\ Value(q) \in Seq(Cell)
      /\ Values!Value(p) = Value(p) /\ p \in Values!Object
      /\ Values!Value(q) = Value(q) /\ q \in Values!Object
  BY ValueIs
<1>2. t \in Seq(Cell) /\ "junk" \in Cell
  BY <1>1, TextsOf DEF Cell
<1>3. Refill(p, Append(t, "junk")) /\ UNCHANGED List
  BY DEF AppendString
<1>4. did' = <<"append", p>> \o <<"object", q>>
  BY PairsJoined DEF AppendString
<1> HIDE DEF t
<1>5. IInv' /\ Values!Become(Is(p, t))
  BY <1>2, <1>3, RefillBecomes
<1>6. Values!append(p, Values!Value(q), <<"object", q>>)
  BY <1>1, <1>4, <1>5 DEF Values!append, Is, t
<1> QED BY <1>1, <1>5, <1>6 DEF Values!Next

\* A step that changes nothing but the history.
LEMMA Unchanged ==
  ASSUME IInv, UNCHANGED <<string, node, buffer>>, UNCHANGED List
  PROVE  IInv' /\ Living' = Living /\ buffer' = buffer
<1>1. /\ string' = string /\ node' = node /\ buffer' = buffer
      /\ head' = head /\ tail' = tail /\ Length' = Length
  BY DEF List
<1>2. Living' = Living
  BY <1>1, LivingIs, Zenon
<1>3. TypeOK'
  BY <1>1 DEF IInv, TypeOK, Strings, Nodes
<1>4. Chained'
  BY <1>1 DEF IInv, Chained
<1>5. Owned(Living', buffer')
  BY <1>1, <1>2 DEF IInv
<1> QED BY <1>1, <1>2, <1>3, <1>4, <1>5 DEF IInv

LEMMA LiteralIsText ==
  ASSUME NEW t \in Literal
  PROVE  t \in Seq(Cell)
<1>1. t \in Seq(Character) /\ Character \subseteq Cell
  BY StringListAssumption DEF Cell
<1> QED BY <1>1, SeqMonotonic

LEMMA AppendLiteralStep ==
  ASSUME IInv, NEW p \in Objects, NEW t \in Literal, AppendLiteral(p, t)
  PROVE  IInv' /\ Values!Next
<1> DEFINE u == Value(p) \o t
<1>1. /\ Value(p) \in Seq(Cell) /\ Values!Value(p) = Value(p) /\ p \in Values!Object
      /\ t \in Seq(Cell)
  BY ValueIs, LiteralIsText
<1>2. u \in Seq(Cell) /\ "nul" \in Cell
  BY <1>1, TextsOf DEF Cell
<1>3. did' = <<"append", p>> \o <<"literal", t>> /\ UNCHANGED List
  BY PairsJoined DEF AppendLiteral
<1>4. IInv' /\ Values!Become(Is(p, u))
  <2>1. CASE t = <<>>
    <3>1. UNCHANGED <<string, node, buffer>>
      BY <2>1 DEF AppendLiteral
    <3>2. IInv' /\ Living' = Living /\ buffer' = buffer
      BY <1>3, <3>1, Unchanged
    <3>3. u = Value(p)
      BY <1>1, <2>1, ConcatEmptySeq
    <3> HIDE DEF u
    <3>4. Text(buffer', Living'[p]) = u
      BY <3>2, <3>3, ValuesAre DEF IInv
    <3>5. SameTextsBut({p}, Living, buffer, Living', buffer')
      BY <3>2 DEF SameTextsBut
    <3>6. TypeOK' /\ Length' = Length /\ DOMAIN string' = DOMAIN string
      BY <1>3, <3>1, <3>2 DEF IInv, List
    <3>7. Values!Become(Is(p, u))
      BY <3>4, <3>5, <3>6, OneBecomes
    <3> QED BY <3>2, <3>7
  <2>2. CASE t # <<>>
    <3>1. Refill(p, Append(u, "nul"))
      BY <2>2 DEF AppendLiteral, Terminated
    <3> HIDE DEF u
    <3> QED BY <1>2, <1>3, <3>1, RefillBecomes
  <2> QED BY <2>1, <2>2
<1>5. Values!append(p, t, <<"literal", t>>)
  BY <1>1, <1>3, <1>4 DEF Values!append, Is
<1> QED BY <1>1, <1>4, <1>5 DEF Values!Next

LEMMA CopyAssignStep ==
  ASSUME IInv, NEW p \in Objects, NEW q \in Objects, p # q, CopyAssign(p, q)
  PROVE  IInv' /\ Values!Next
<1> DEFINE freed == delete(buffer, Get(p).Buffer)
           t == Value(q)
           cells == Append(t, "nul")
<1>1. /\ t \in Seq(Cell) /\ Len(t) = Get(q).Length /\ Get(q).Length \in Nat
      /\ Values!Value(q) = t /\ q \in Values!Object /\ p \in Values!Object
      /\ "nul" \in Cell
  BY ValueIs DEF Cell
<1>2. Text(freed, Get(q)) = t
  <2>1. /\ Owned(Living, buffer) /\ p \in DOMAIN Living /\ q \in DOMAIN Living \ {p}
        /\ Living[p] = Get(p) /\ Living[q] = Get(q)
    BY DEF IInv, Living
  <2>2. SameTextsBut({p}, Living, buffer, delete(Living, p), freed)
    BY <2>1, Removed
  <2>3. delete(Living, p)[q] = Living[q]
    BY <2>1, deleteIs
  <2> QED BY <2>1, <2>2, <2>3 DEF SameTextsBut, Value
<1>3. PICK a \in Free(freed) :
         /\ Allocate(With(freed, a, Terminated(Text(freed, Get(q)))))
         /\ Set([o \in {p} |-> [Buffer |-> a, Length |-> Get(q).Length]])
  BY DEF CopyAssign
<1>4. buffer' = With(delete(buffer, Get(p).Buffer), a, cells)
  BY <1>2, <1>3 DEF Allocate, Terminated
<1>5. Set(Is(p, StringAt(a, Get(q).Length)))
  BY <1>3 DEF Is, StringAt
<1>6. a \in Address /\ a \notin DOMAIN buffer \ {Get(p).Buffer}
  BY deleteIs DEF Free
<1>7. UNCHANGED List /\ did' = <<"copy", p, q>>
  BY DEF CopyAssign
<1> HIDE DEF freed, t
<1>8. /\ cells \in Seq(Cell) /\ Len(cells) = Get(q).Length + 1
      /\ SubSeq(cells, 1, Get(q).Length) = t
  BY <1>1, CellsOf
<1> HIDE DEF cells
<1>9. GoesTo(buffer, Get(p).Buffer, a, cells, Get(q).Length)
  BY <1>1, <1>6, <1>8 DEF GoesTo
<1>10. IInv' /\ Values!Become(Is(p, SubSeq(cells, 1, Get(q).Length)))
  BY <1>4, <1>5, <1>7, <1>9, OneRefilled
<1>11. Values!Copy(p, q)
  BY <1>1, <1>7, <1>8, <1>10 DEF Values!Copy, Is
<1>12. q \in Values!Object \ {p}
  BY <1>1
<1> QED BY <1>1, <1>10, <1>11, <1>12 DEF Values!Next

\* Two objects change.
Both(p, q, x, y) == [o \in {p, q} |-> IF o = p THEN x ELSE y]

LEMMA MoveAssignStep ==
  ASSUME IInv, NEW p \in Objects, NEW q \in Objects, p # q, MoveAssign(p, q)
  PROVE  IInv' /\ Values!Next
<1> DEFINE new == Both(p, q, Get(q), NullString)
           says == Both(p, q, Value(q), <<>>)
<1>1. /\ TypeOK /\ Chained /\ Owned(Living, buffer)
      /\ DOMAIN Living = Objects /\ Living[p] = Get(p) /\ Living[q] = Get(q)
      /\ Get(q) \in StringObject
  BY ObjectTypes DEF IInv, Living
<1>2. Values!Value(q) = Value(q) /\ q \in Values!Object /\ p \in Values!Object
  BY ValueIs
<1>3. /\ DOMAIN new = {p, q} /\ new[p] = Get(q) /\ new[q] = NullString
      /\ DOMAIN says = {p, q} /\ says[p] = Value(q) /\ says[q] = <<>>
  BY DEF Both
<1>4. new \in [DOMAIN new -> StringObject] /\ DOMAIN new \subseteq Objects
  BY <1>1 DEF Both, NullString, StringObject
<1>5. Set(new) /\ UNCHANGED List /\ buffer' = delete(buffer, Get(p).Buffer)
  BY DEF MoveAssign, Both, NullString
<1> HIDE DEF new, says
<1>6. /\ Strings' /\ Nodes' /\ Chained'
      /\ DOMAIN string' = DOMAIN string
      /\ Living' = Changed(Living, new)
  BY <1>1, <1>4, <1>5, SetChanges
<1> DEFINE L2 == [o \in DOMAIN Living |-> IF o = p THEN Living[q]
                                          ELSE IF o = q THEN NullString ELSE Living[o]]
<1>7. Living' = L2
  BY <1>1, <1>3, <1>6 DEF Changed
<1>8. /\ Owned(L2, delete(buffer, Living[p].Buffer))
      /\ SameTextsBut({p, q}, Living, buffer, L2, delete(buffer, Living[p].Buffer))
      /\ Text(delete(buffer, Living[p].Buffer), L2[p]) = Text(buffer, Living[q])
      /\ Text(delete(buffer, Living[p].Buffer), L2[q]) = <<>>
  BY <1>1, Moved
<1> HIDE DEF L2
<1>9. /\ Owned(Living', buffer')
      /\ SameTextsBut({p, q}, Living, buffer, Living', buffer')
      /\ Text(buffer', Living'[p]) = Text(buffer, Living[q])
      /\ Text(buffer', Living'[q]) = <<>>
  BY <1>1, <1>5, <1>7, <1>8
<1>10. TypeOK'
  BY <1>1, <1>5, <1>6, <1>9 DEF TypeOK, List, Owned
<1>11. IInv'
  BY <1>6, <1>9, <1>10 DEF IInv
<1>12. Values!Become(says)
  <2>1. \A o \in DOMAIN says : Text(buffer', Living'[o]) = says[o]
    BY <1>1, <1>3, <1>9, ValuesAre
  <2>2. Length' = Length
    BY <1>5 DEF List
  <2> QED BY <1>3, <1>6, <1>9, <1>10, <2>1, <2>2, Becomes
<1>13. Values!Move(p, q)
  BY <1>2, <1>12 DEF Values!Move, Both, says, MoveAssign
<1>14. q \in Values!Object \ {p}
  BY <1>2
<1> QED BY <1>2, <1>11, <1>13, <1>14 DEF Values!Next

LEMMA ConstructStep ==
  ASSUME IInv, NEW n \in Name, NEW t \in Seq(Cell), NEW from, Construct(n, t, from)
  PROVE  IInv' /\ Values!Construct(n, t, from)
<1> DEFINE cells == Append(t, "nul")
<1>1. /\ cells \in Seq(Cell) /\ Len(cells) = Len(t) + 1
      /\ Len(t) \in Nat /\ SubSeq(cells, 1, Len(t)) = t
  BY CellsOf DEF Cell
<1>2. PICK a \in Free(buffer) :
         /\ Allocate(With(buffer, a, Terminated(t)))
         /\ string' = With(string, n, [Buffer |-> a, Length |-> Len(t)])
  BY DEF Construct
<1>3. /\ buffer' = With(buffer, a, cells)
      /\ string' = With(string, n, StringAt(a, Len(t)))
  BY <1>2 DEF Allocate, Terminated, StringAt
<1> HIDE DEF cells
<1>4. /\ UNCHANGED node /\ head' = head /\ tail' = tail /\ Length' = Length
      /\ n \notin DOMAIN string
  BY DEF Construct, List
<1>5. /\ TypeOK /\ Chained /\ Owned(Living, buffer)
      /\ DOMAIN Living = Objects /\ Objects = DOMAIN string \cup 1 .. Length
  BY DEF IInv, Living, Objects
<1>6. n \notin 1 .. Length /\ n \notin Nat
  <2>1. n \notin Nat /\ \A i \in 1 .. Length : i \in Nat
    BY StringListAssumption, <1>5 DEF TypeOK
  <2> QED BY <2>1
<1>7. Living' = With(Living, n, StringAt(a, Len(t)))
  <2>1. /\ DOMAIN string' = DOMAIN string \cup {n} /\ string'[n] = StringAt(a, Len(t))
        /\ \A m \in DOMAIN string : string'[m] = string[m]
    BY <1>3, <1>4 DEF With
  <2>2. Living' = ObjectsOf(string', head, node, Length)
    BY <1>4, LivingIs
  <2>3. Living = ObjectsOf(string, head, node, Length)
    BY LivingIs
  <2>4. DOMAIN string' \cup 1 .. Length = Objects \cup {n}
    BY <1>5, <2>1
  <2>5. \A p \in Objects \cup {n} :
           ObjectsOf(string', head, node, Length)[p] = With(Living, n, StringAt(a, Len(t)))[p]
    <3> TAKE p \in Objects \cup {n}
    <3>1. CASE p = n
      BY <2>1, <3>1 DEF ObjectsOf, With
    <3>2. CASE p # n
      <4>1. With(Living, n, StringAt(a, Len(t)))[p] = Living[p]
        BY <1>5, <3>2 DEF With
      <4>2. ObjectsOf(string', head, node, Length)[p] = ObjectsOf(string, head, node, Length)[p]
        BY <1>5, <2>1, <3>2 DEF ObjectsOf
      <4> QED BY <2>3, <4>1, <4>2
    <3> QED BY <3>1, <3>2
  <2>6. /\ DOMAIN ObjectsOf(string', head, node, Length) = Objects \cup {n}
        /\ DOMAIN With(Living, n, StringAt(a, Len(t))) = Objects \cup {n}
    BY <1>5, <2>4 DEF ObjectsOf, With
  <2>7. ObjectsOf(string', head, node, Length) = With(Living, n, StringAt(a, Len(t)))
    BY <2>5, <2>6 DEF ObjectsOf, With
  <2> QED BY <2>2, <2>7
<1>8. GoesTo(buffer, nullptr, a, cells, Len(t))
  BY <1>1 DEF GoesTo, Free
<1>9. n \notin DOMAIN Living
  BY <1>4, <1>5, <1>6
<1>10. Refilled(Living, buffer, {}, n, cells, Len(t), Living', buffer')
  BY <1>3, <1>5, <1>7, <1>8, <1>9, Added
<1>11. /\ Owned(Living', buffer')
       /\ \A q \in Objects : Text(buffer', Living'[q]) = Text(buffer, Living[q])
       /\ Text(buffer', Living'[n]) = t
  BY <1>1, <1>5, <1>10 DEF Refilled, SameTextsBut
<1>12. TypeOK'
  <2>1. StringAt(a, Len(t)) \in StringObject
    BY <1>1 DEF StringAt, StringObject, Free
  <2>2. Strings'
    BY <1>3, <1>5, <2>1 DEF TypeOK, Strings, With
  <2> QED BY <1>4, <1>5, <1>11, <2>2 DEF TypeOK, Owned, Nodes
<1>13. IInv'
  BY <1>4, <1>5, <1>11, <1>12 DEF IInv, Chained
<1>14. /\ DOMAIN text = DOMAIN string /\ DOMAIN items = 1 .. Length
       /\ \A m \in DOMAIN string : text[m] = Text(buffer, Living[m])
       /\ \A i \in 1 .. Length : items[i] = Text(buffer, Living[i])
  BY <1>5, TextsAre
<1>15. text' = [m \in DOMAIN text \cup {n} |-> IF m = n THEN t ELSE text[m]]
  <2>1. DOMAIN string' = DOMAIN text \cup {n}
    BY <1>3, <1>14 DEF With
  <2>2. \A m \in DOMAIN text \cup {n} :
           Text(buffer', Living'[m]) = IF m = n THEN t ELSE text[m]
    BY <1>5, <1>11, <1>14
  <2>3. text' = [m \in DOMAIN text \cup {n} |-> Text(buffer', Living'[m])]
    BY <1>12, <2>1, TextsWillBe
  <2> QED BY <2>2, <2>3
<1>16. items' = items
  <2>1. \A i \in 1 .. Length : Text(buffer', Living'[i]) = items[i]
    BY <1>5, <1>11, <1>14
  <2>2. items' = [i \in 1 .. Length |-> Text(buffer', Living'[i])]
    BY <1>4, <1>12, TextsWillBe
  <2>3. items = [i \in 1 .. Length |-> items[i]]
    BY DEF items
  <2> QED BY <2>1, <2>2, <2>3
<1> QED BY <1>4, <1>13, <1>14, <1>15, <1>16 DEF Values!Construct, Construct

LEMMA DestroyStep ==
  ASSUME IInv, NEW n \in Name, Destroy(n)
  PROVE  IInv' /\ Values!Next
<1>1. /\ n \in DOMAIN string /\ UNCHANGED node
      /\ buffer' = delete(buffer, string[n].Buffer) /\ string' = delete(string, n)
      /\ head' = head /\ tail' = tail /\ Length' = Length /\ did' = <<"destroy", n>>
  BY DEF Destroy, List
<1>2. /\ TypeOK /\ Chained /\ Owned(Living, buffer)
      /\ DOMAIN Living = Objects /\ Objects = DOMAIN string \cup 1 .. Length
      /\ n \in DOMAIN Living /\ Living[n] = string[n]
  BY <1>1 DEF IInv, Living, Objects, Get
<1>3. n \notin 1 .. Length /\ n \notin Nat
  BY <1>1, <1>2, NamesApart DEF TypeOK
<1>4. /\ DOMAIN string' = DOMAIN string \ {n}
      /\ \A m \in DOMAIN string' : string'[m] = string[m]
  BY <1>1 DEF delete, Restrict
<1>5. Living' = delete(Living, n)
  <2>1. Living' = ObjectsOf(string', head, node, Length)
    BY <1>1, LivingIs
  <2>2. Living = ObjectsOf(string, head, node, Length)
    BY LivingIs
  <2>3. DOMAIN string' \cup 1 .. Length = Objects \ {n}
    BY <1>2, <1>3, <1>4
  <2>4. \A p \in Objects \ {n} : ObjectsOf(string', head, node, Length)[p] = Living[p]
    <3> TAKE p \in Objects \ {n}
    <3>1. ObjectsOf(string', head, node, Length)[p] = ObjectsOf(string, head, node, Length)[p]
      BY <1>2, <1>4 DEF ObjectsOf
    <3> QED BY <2>2, <3>1
  <2>5. ObjectsOf(string', head, node, Length) = [p \in Objects \ {n} |-> Living[p]]
    BY <2>3, <2>4 DEF ObjectsOf
  <2> QED BY <1>2, <2>1, <2>5 DEF delete, Restrict
<1>6. /\ Owned(Living', buffer')
      /\ SameTextsBut({n}, Living, buffer, Living', buffer')
  <2>1. /\ Owned(delete(Living, n), delete(buffer, Living[n].Buffer))
        /\ SameTextsBut({n}, Living, buffer, delete(Living, n), delete(buffer, Living[n].Buffer))
    BY <1>2, Removed
  <2> QED BY <1>1, <1>2, <1>5, <2>1
<1>7. TypeOK'
  <2>1. Strings'
    BY <1>1, <1>2, <1>4 DEF TypeOK, Strings, delete, Restrict
  <2> QED BY <1>1, <1>2, <1>6, <2>1 DEF TypeOK, Owned, Nodes
<1>8. IInv'
  BY <1>1, <1>2, <1>6, <1>7 DEF IInv, Chained
<1>9. /\ DOMAIN text = DOMAIN string /\ DOMAIN items = 1 .. Length
      /\ \A m \in DOMAIN string : text[m] = Text(buffer, Living[m])
      /\ \A i \in 1 .. Length : items[i] = Text(buffer, Living[i])
  BY <1>2, TextsAre
<1>10. \A q \in Objects \ {n} : Text(buffer', Living'[q]) = Text(buffer, Living[q])
  BY <1>2, <1>6 DEF SameTextsBut
<1>11. text' = [m \in DOMAIN text \ {n} |-> text[m]]
  <2>1. \A m \in DOMAIN text \ {n} : Text(buffer', Living'[m]) = text[m]
    BY <1>2, <1>9, <1>10
  <2>2. text' = [m \in DOMAIN text \ {n} |-> Text(buffer', Living'[m])]
    BY <1>4, <1>7, <1>9, TextsWillBe
  <2> QED BY <2>1, <2>2
<1>12. items' = items
  <2>1. \A i \in 1 .. Length : Text(buffer', Living'[i]) = items[i]
    BY <1>2, <1>3, <1>9, <1>10
  <2>2. items' = [i \in 1 .. Length |-> Text(buffer', Living'[i])]
    BY <1>1, <1>7, TextsWillBe
  <2>3. items = [i \in 1 .. Length |-> items[i]]
    BY DEF items
  <2> QED BY <2>1, <2>2, <2>3
<1>13. Values!Destroy(n) /\ n \in DOMAIN text
  BY <1>1, <1>9, <1>11, <1>12 DEF Values!Destroy
<1> QED BY <1>8, <1>13 DEF Values!Next

\* No nodes are a chain.
LEMMA EmptyChain == Chain(nullptr, <<>>, 0)
<1> DEFINE w == Walk(nullptr, <<>>)
<1>1. w[0] = nullptr
  BY WalkIs
<1> HIDE DEF w
<1>2. DOMAIN <<>> = {} /\ 0 .. -1 = {} /\ 1 .. 0 = {}
  OBVIOUS
<1>3. 0 .. 0 - 1 = {}
  OBVIOUS
<1>4. Links(w, nullptr, <<>>, 0)
  BY <1>1, <1>2, <1>3 DEF Links
<1> QED BY <1>4 DEF Chain, w

LEMMA DestroyListStep ==
  ASSUME IInv, DestroyList
  PROVE  IInv' /\ Values!Next
<1> DEFINE D == DOMAIN string
           L2 == Restrict(Living, D)
           h2 == BuffersBut(Living, buffer, D)
<1>1. /\ TypeOK /\ Chained /\ Owned(Living, buffer) /\ MaxNodes \in Nat
      /\ DOMAIN Living = Objects /\ Objects = DOMAIN string \cup 1 .. Length
  BY StringListAssumption DEF IInv, Living, Objects
<1>2. /\ string' = string /\ node' = <<>> /\ head' = 0 /\ tail' = 0 /\ Length' = 0
      /\ did' = <<"clear">>
  BY DEF DestroyList, nullptr
<1>3. \A n \in D : n \notin 1 .. Length
  BY <1>1, NamesApart DEF TypeOK
<1>4. buffer' = h2
  <2>1. DOMAIN Living \ D = 1 .. Length
    BY <1>1, <1>3
  <2>2. \A i \in 1 .. Length : Living[i] = node[NodeAt[i - 1]].Data
    BY <1>3 DEF Living, Objects, Get
  <2>3. {Living[p].Buffer : p \in DOMAIN Living \ D} = {node[NodeAt[i - 1]].Data.Buffer : i \in 1 .. Length}
    BY <2>1, <2>2
  <2> QED BY <2>3 DEF DestroyList, BuffersBut
<1>5. Owned(L2, h2) /\ \A q \in D : Text(h2, L2[q]) = Text(buffer, Living[q])
  <2>1. D \in SUBSET DOMAIN Living
    BY <1>1
  <2> HIDE DEF D
  <2> QED BY <1>1, <2>1, Cleared
<1>6. Living' = L2
  <2>1. Living' = [p \in D |-> string[p]]
    BY <1>2 DEF Living, Objects, Get
  <2>2. \A p \in D : Living[p] = string[p]
    BY DEF Living, Objects, Get
  <2>3. L2 = [q \in D |-> Living[q]]
    BY DEF Restrict
  <2> QED BY <2>1, <2>2, <2>3
<1> HIDE DEF L2, h2
<1>7. Owned(Living', buffer') /\ \A q \in D : Text(buffer', Living'[q]) = Text(buffer, Living[q])
  BY <1>4, <1>5, <1>6
<1>8. TypeOK'
  <2>1. Nodes'
    BY <1>2 DEF Nodes
  <2> QED BY <1>1, <1>2, <1>7, <2>1 DEF TypeOK, Owned, Strings
<1>9. Chained'
  BY <1>2, EmptyChain DEF Chained, nullptr
<1>10. IInv'
  BY <1>7, <1>8, <1>9 DEF IInv
<1>11. text' = text
  <2>1. text' = [n \in D |-> Text(buffer', Living'[n])]
    BY <1>2, <1>8, TextsWillBe
  <2>2. \A n \in D : text[n] = Text(buffer, Living[n])
    BY <1>1, TextsAre
  <2>3. text = [n \in D |-> text[n]]
    BY DEF text
  <2> QED BY <1>7, <2>1, <2>2, <2>3
<1>12. items' = <<>>
  <2>1. items' = [i \in 1 .. 0 |-> Text(buffer', Living'[i])]
    BY <1>2, <1>8, TextsWillBe
  <2> QED BY <2>1
<1>13. Values!Clear
  BY <1>2, <1>11, <1>12 DEF Values!Clear
<1> QED BY <1>10, <1>13 DEF Values!Next

-----------------------------------------------------------------------------
(* Items come and go.                                                      *)

LEMMA FunctionIsSeq ==
  ASSUME NEW n \in Nat, NEW S, NEW f \in [1 .. n -> S]
  PROVE  f \in Seq(S) /\ Len(f) = n
<1>1. f \in Seq(S)
  BY SeqDef
<1>2. Len(f) \in Nat /\ DOMAIN f = 1 .. Len(f)
  BY <1>1, LenProperties
<1>3. Len(f) = n
  BY <1>2
<1> QED BY <1>1, <1>3

LEMMA ItemsAre ==
  ASSUME IInv
  PROVE  items \in Seq(Seq(Cell)) /\ Len(items) = Length
<1>1. /\ DOMAIN items = 1 .. Length /\ Length \in Nat
      /\ \A i \in 1 .. Length : items[i] = Text(buffer, Living[i]) /\ i \in DOMAIN Living
  BY StringListAssumption, TextsAre DEF IInv, TypeOK
<1>2. \A i \in 1 .. Length : items[i] \in Seq(Cell)
  BY <1>1, TextType DEF IInv
<1>3. items \in [1 .. Length -> Seq(Cell)]
  <2>1. items = [i \in 1 .. Length |-> items[i]]
    BY DEF items
  <2> QED BY <1>2, <2>1
<1> QED BY <1>1, <1>3, FunctionIsSeq

\* An item is new at the front: who was what, when it was last instead.
AfterAdd(S, len) ==
    [x \in S \cup 1 .. len + 1 |-> IF x \in S THEN x ELSE IF x = 1 THEN len + 1 ELSE x - 1]

LEMMA AddNames ==
  ASSUME NEW S, NEW len \in Nat, S \cap Nat = {}, NEW L, DOMAIN L = S \cup 1 .. len + 1
  PROVE  Renames(AfterAdd(S, len), L)
<1> DEFINE r == AfterAdd(S, len)
<1>0. /\ \A x \in S : x \notin 1 .. len + 1
      /\ \A i \in 1 .. len + 1 : i \notin S /\ i \in Nat
      /\ len + 1 \in 1 .. len + 1 /\ 1 \in 1 .. len + 1
      /\ \A i \in 2 .. len + 1 : i - 1 \in 1 .. len + 1 /\ i - 1 # len + 1 /\ i - 1 \in Int
      /\ \A i \in 1 .. len : i + 1 \in 2 .. len + 1 /\ i + 1 - 1 = i
      /\ \A i \in 1 .. len + 1 : i = 1 \/ i \in 2 .. len + 1
      /\ \A i \in 1 .. len + 1 : i = len + 1 \/ i \in 1 .. len
      /\ \A i \in 2 .. len + 1 : i # 1 /\ i \in 1 .. len + 1
  OBVIOUS
<1>1. /\ DOMAIN r = S \cup 1 .. len + 1
      /\ \A x \in S : r[x] = x
      /\ r[1] = len + 1
      /\ \A i \in 2 .. len + 1 : r[i] = i - 1
  BY <1>0 DEF AfterAdd
<1> HIDE DEF r
<1>2. \A x \in DOMAIN r : r[x] \in DOMAIN L
  BY <1>0, <1>1
<1>3. ASSUME NEW x \in DOMAIN r, NEW y \in DOMAIN r, r[x] = r[y] PROVE x = y
  <2>1. CASE x \in S
    BY <1>0, <1>1, <1>3, <2>1
  <2>2. CASE y \in S
    BY <1>0, <1>1, <1>3, <2>2
  <2>3. CASE x \in 1 .. len + 1 /\ y \in 1 .. len + 1
    <3>1. x \in Int /\ y \in Int
      BY <2>3
    <3>2. CASE x = 1 \/ y = 1
      BY <1>0, <1>1, <1>3, <2>3, <3>2
    <3>3. CASE x \in 2 .. len + 1 /\ y \in 2 .. len + 1
      <4>1. x - 1 = y - 1
        BY <1>1, <1>3, <3>3
      <4> QED BY <3>1, <4>1
    <3> QED BY <1>0, <2>3, <3>2, <3>3
  <2> QED BY <1>1, <2>1, <2>2, <2>3
<1>4. ASSUME NEW p \in DOMAIN L PROVE \E x \in DOMAIN r : r[x] = p
  <2>1. CASE p \in S
    BY <1>1, <2>1
  <2>2. CASE p = len + 1
    BY <1>0, <1>1, <2>2
  <2>3. CASE p \in 1 .. len
    <3>1. p + 1 \in DOMAIN r /\ r[p + 1] = p
      BY <1>0, <1>1, <2>3
    <3> QED BY <3>1
  <2> QED BY <1>0, <2>1, <2>2, <2>3
<1>5. Renames(r, L)
  BY <1>2, <1>3, <1>4, Zenon DEF Renames
<1> QED BY <1>5 DEF r

LEMMA AddStep ==
  ASSUME IInv, NEW p \in Objects, Add(p)
  PROVE  IInv' /\ Values!Next
<1> DEFINE t == Value(p)
           cells == Append(t, "nul")
           new == FreeNode
           next == Length + 1
           names == AfterAdd(DOMAIN string, Length)
<1>1. /\ TypeOK /\ Chained /\ Owned(Living, buffer) /\ MaxNodes \in Nat
      /\ DOMAIN Living = Objects /\ Objects = DOMAIN string \cup 1 .. Length
      /\ Length \in Nat /\ Length \in 0 .. MaxNodes /\ Length < MaxNodes
      /\ next \in 0 .. MaxNodes /\ next \in Nat /\ next <= MaxNodes
      /\ DOMAIN string \cap Nat = {}
  BY NamesApart, StringListAssumption DEF IInv, Living, Objects, TypeOK, Add
<1>2. /\ t \in Seq(Cell) /\ Len(t) = Get(p).Length /\ Get(p).Length \in Nat
      /\ Values!Value(p) = t /\ p \in Values!Object
      /\ "nul" \in Cell
  BY ValueIs DEF Cell
<1>3. /\ cells \in Seq(Cell) /\ Len(cells) = Len(t) + 1
      /\ SubSeq(cells, 1, Len(t)) = t
  BY <1>2, CellsOf
<1>4. new \in 1 .. MaxNodes /\ new \notin DOMAIN node
  <2>1. \E a \in 1 .. MaxNodes : a \notin DOMAIN node
    BY <1>1, NodeIsFree DEF Chained
  <2> QED BY <2>1 DEF FreeNode
<1>5. PICK a \in Free(buffer) :
         /\ Allocate(With(buffer, a, Terminated(t)))
         /\ node' = With(node, new, [Data |-> [Buffer |-> a, Length |-> Get(p).Length], Next |-> head])
  BY DEF Add
<1> DEFINE object == StringAt(a, Get(p).Length)
           item == [Data |-> object, Next |-> head]
           L1 == With(Living, next, object)
<1>6. buffer' = With(buffer, a, cells) /\ node' = With(node, new, item)
  BY <1>5 DEF Allocate, Terminated, StringAt
<1>7. /\ head' = new /\ tail' = (IF tail = nullptr THEN new ELSE tail)
      /\ Length' = next /\ string' = string /\ did' = <<"add", p>>
  BY DEF Add
<1> HIDE DEF t, new, next, cells, names
<1>8. /\ object \in StringObject /\ a \in Address /\ a \notin DOMAIN buffer
      /\ object.Buffer = a /\ object.Length = Get(p).Length
      /\ item \in [Data : StringObject, Next : 0 .. MaxNodes]
      /\ item.Data = object /\ item.Next = head
  BY <1>1, <1>2 DEF StringAt, StringObject, Free, TypeOK
<1> HIDE DEF object, item
<1>9. /\ DOMAIN node' = DOMAIN node \cup {new} /\ node'[new] = item
      /\ \A x \in DOMAIN node : node'[x] = node[x]
  BY <1>4, <1>6 DEF With
<1>10. /\ Chain(new, node', next)
       /\ Walk(new, node')[0] = new
       /\ \A i \in 1 .. next : Walk(new, node')[i] = Walk(head, node)[i - 1]
  BY <1>1, <1>4, <1>8, <1>9, ChainAdded DEF Chained, next
<1>11. GoesTo(buffer, nullptr, a, cells, Get(p).Length)
  BY <1>2, <1>3, <1>8 DEF GoesTo
<1>12. next \notin DOMAIN Living
  BY <1>1 DEF next
<1>13. Refilled(Living, buffer, {}, next, cells, Get(p).Length, L1, buffer')
  BY <1>1, <1>6, <1>11, <1>12, Added DEF object
<1>14. /\ Owned(L1, buffer') /\ DOMAIN L1 = Objects \cup {next}
       /\ L1[next] = object /\ \A q \in Objects : L1[q] = Living[q]
       /\ \A q \in Objects : Text(buffer', L1[q]) = Text(buffer, Living[q])
       /\ Text(buffer', L1[next]) = t
  BY <1>1, <1>2, <1>3, <1>12, <1>13 DEF Refilled, SameTextsBut, With
<1> HIDE DEF L1
<1>15. Living' = By(L1, names)
  <2>1. Living' = ObjectsOf(string, new, node', next)
    BY <1>7, LivingIs
  <2>2. DOMAIN names = DOMAIN string \cup 1 .. next
    BY DEF names, AfterAdd, next
  <2>3. ASSUME NEW x \in DOMAIN string \cup 1 .. next
        PROVE  ObjectsOf(string, new, node', next)[x] = L1[names[x]]
    <3>1. CASE x \in DOMAIN string
      <4>1. names[x] = x
        BY <3>1 DEF names, AfterAdd
      <4>2. Living[x] = string[x]
        BY <3>1 DEF Living, Objects, Get
      <4> QED BY <1>1, <1>14, <3>1, <4>1, <4>2 DEF ObjectsOf
    <3>2. CASE x \in 1 .. next
      <4>1. x \notin DOMAIN string /\ x \in Int
        BY <1>1, <3>2
      <4>2. ObjectsOf(string, new, node', next)[x] = node'[Walk(new, node')[x - 1]].Data
        BY <3>2, <4>1 DEF ObjectsOf
      <4>3. CASE x = 1
        <5>1. names[x] = next
          BY <3>2, <4>1, <4>3 DEF names, AfterAdd, next
        <5>2. Walk(new, node')[x - 1] = new
          BY <1>10, <4>3
        <5> QED BY <1>8, <1>9, <1>14, <4>2, <5>1, <5>2
      <4>4. CASE x # 1
        <5>1. names[x] = x - 1
          BY <3>2, <4>1, <4>4 DEF names, AfterAdd, next
        <5>2. /\ x - 1 \in 1 .. Length /\ x - 1 \in 1 .. next /\ x - 1 \in Nat
              /\ x - 1 \in Objects /\ x - 1 \notin DOMAIN string
          BY <1>1, <3>2, <4>1, <4>4 DEF next
        <5>3. Walk(new, node')[x - 1] = NodeAt[x - 1 - 1]
          BY <1>10, <5>2, NodeAtIsWalk
        <5>4. NodeAt[x - 1 - 1] \in DOMAIN node
          BY <1>1, <5>2, ItemNode
        <5>5. Living[x - 1] = node[NodeAt[x - 1 - 1]].Data
          BY <5>2 DEF Living, Get
        <5> QED BY <1>9, <1>14, <4>2, <5>1, <5>2, <5>3, <5>4, <5>5
      <4> QED BY <4>3, <4>4
    <3> QED BY <3>1, <3>2
  <2>4. ObjectsOf(string, new, node', next)
           = [x \in DOMAIN string \cup 1 .. next |-> ObjectsOf(string, new, node', next)[x]]
    BY DEF ObjectsOf
  <2>5. By(L1, names) = [x \in DOMAIN string \cup 1 .. next |-> L1[names[x]]]
    BY <2>2 DEF By
  <2> QED BY <2>1, <2>3, <2>4, <2>5
<1>16. Owned(Living', buffer')
  <2>1. DOMAIN L1 = DOMAIN string \cup 1 .. Length + 1
    BY <1>1, <1>14 DEF next
  <2>2. Renames(names, L1)
    BY <1>1, <2>1, AddNames DEF names
  <2> QED BY <1>14, <1>15, <2>2, Renamed
<1>17. TypeOK'
  <2>1. Nodes'
    BY <1>1, <1>4, <1>6, <1>8 DEF TypeOK, Nodes, With
  <2>2. head' \in 0 .. MaxNodes /\ tail' \in 0 .. MaxNodes
    BY <1>1, <1>4, <1>7 DEF TypeOK
  <2> QED BY <1>1, <1>7, <1>16, <2>1, <2>2 DEF TypeOK, Owned, Strings
<1>18. IInv'
  BY <1>7, <1>10, <1>16, <1>17 DEF IInv, Chained
<1>19. text' = text
  <2>1. text' = [n \in DOMAIN string |-> Text(buffer', Living'[n])]
    BY <1>7, <1>17, TextsWillBe
  <2>2. \A n \in DOMAIN string : Living'[n] = L1[n]
    BY <1>15 DEF By, names, AfterAdd
  <2>3. \A n \in DOMAIN string : Text(buffer', Living'[n]) = text[n]
    BY <1>1, <1>14, <2>2, TextsAre
  <2>4. text = [n \in DOMAIN string |-> text[n]]
    BY DEF text
  <2> QED BY <2>1, <2>3, <2>4
<1>20. items' = <<t>> \o items
  <2> DEFINE longer == <<t>> \o items
  <2>1. items \in Seq(Seq(Cell)) /\ Len(items) = Length
    BY ItemsAre
  <2>2. <<t>> \in Seq(Seq(Cell)) /\ Len(<<t>>) = 1 /\ <<t>>[1] = t
    BY <1>2
  <2>3. /\ longer \in Seq(Seq(Cell)) /\ Len(longer) = next
        /\ \A i \in 1 .. next : longer[i] = IF i <= 1 THEN t ELSE items[i - 1]
    <3>1. /\ longer \in Seq(Seq(Cell)) /\ Len(longer) = Len(<<t>>) + Len(items)
          /\ \A i \in 1 .. Len(<<t>>) + Len(items) :
                longer[i] = IF i <= Len(<<t>>) THEN <<t>>[i] ELSE items[i - Len(<<t>>)]
      BY <2>1, <2>2, ConcatProperties
    <3>2. Len(<<t>>) + Len(items) = next
      BY <1>1, <2>1, <2>2 DEF next
    <3> HIDE DEF longer
    <3> QED BY <1>1, <2>2, <3>1, <3>2
  <2> HIDE DEF longer
  <2>4. items' = [i \in 1 .. next |-> Text(buffer', Living'[i])]
    BY <1>7, <1>17, TextsWillBe
  <2>5. ASSUME NEW i \in 1 .. next PROVE Text(buffer', Living'[i]) = longer[i]
    <3>1. i \notin DOMAIN string /\ i \in Int
      BY <1>1
    <3>2. Living'[i] = L1[IF i = 1 THEN next ELSE i - 1]
      BY <1>15, <3>1 DEF By, names, AfterAdd, next
    <3>3. CASE i = 1
      BY <1>14, <2>3, <3>2, <3>3
    <3>4. CASE i # 1
      <4>1. i - 1 \in 1 .. Length /\ ~(i <= 1)
        BY <1>1, <3>1, <3>4 DEF next
      <4>2. items[i - 1] = Text(buffer, Living[i - 1])
        BY <1>1, <4>1, TextsAre
      <4> QED BY <1>1, <1>14, <2>3, <3>2, <3>4, <4>1, <4>2
    <3> QED BY <3>3, <3>4
  <2>6. longer = [i \in 1 .. next |-> longer[i]]
    BY <2>3, LenProperties
  <2>7. items' = longer
    BY <2>4, <2>5, <2>6
  <2> QED BY <2>7 DEF longer
<1>21. Values!Add(p)
  BY <1>2, <1>7, <1>19, <1>20 DEF Values!Add
<1> QED BY <1>2, <1>18, <1>21 DEF Values!Next

\* The item after k others is gone: who was what.
AfterRemove(S, len, k) ==
    [x \in S \cup 1 .. len - 1 |-> IF x \in S THEN x ELSE IF x <= k THEN x ELSE x + 1]

LEMMA RemoveNames ==
  ASSUME NEW S, NEW len \in Nat, NEW k \in 0 .. len - 1, S \cap Nat = {},
         NEW L, DOMAIN L = (S \cup 1 .. len) \ {k + 1}
  PROVE  Renames(AfterRemove(S, len, k), L)
<1> DEFINE r == AfterRemove(S, len, k)
<1>0. /\ \A x \in S : x \notin 1 .. len /\ x \notin 1 .. len - 1 /\ x # k + 1
      /\ \A i \in 1 .. len - 1 : i \notin S /\ i \in Int /\ i + 1 \in 1 .. len /\ i \in 1 .. len
      /\ k \in Int /\ len \in Int
  OBVIOUS
<1>1. /\ DOMAIN r = S \cup 1 .. len - 1
      /\ \A x \in S : r[x] = x
      /\ \A i \in 1 .. len - 1 : r[i] = IF i <= k THEN i ELSE i + 1
  BY <1>0 DEF AfterRemove
<1> HIDE DEF r
<1>2. ASSUME NEW x \in DOMAIN r PROVE r[x] \in DOMAIN L
  <2>1. CASE x \in S
    BY <1>0, <1>1, <2>1
  <2>2. CASE x \in 1 .. len - 1
    BY <1>0, <1>1, <2>2
  <2> QED BY <1>1, <2>1, <2>2
<1>3. ASSUME NEW x \in DOMAIN r, NEW y \in DOMAIN r, r[x] = r[y] PROVE x = y
  <2>1. CASE x \in S /\ y \in S
    BY <1>1, <1>3, <2>1
  <2>2. CASE x \in S /\ y \in 1 .. len - 1
    BY <1>0, <1>1, <1>3, <2>2
  <2>3. CASE y \in S /\ x \in 1 .. len - 1
    BY <1>0, <1>1, <1>3, <2>3
  <2>4. CASE x \in 1 .. len - 1 /\ y \in 1 .. len - 1
    BY <1>0, <1>1, <1>3, <2>4
  <2> QED BY <1>1, <2>1, <2>2, <2>3, <2>4
<1>4. ASSUME NEW p \in DOMAIN L PROVE \E x \in DOMAIN r : r[x] = p
  <2>1. CASE p \in S
    BY <1>1, <2>1
  <2>2. CASE p \in 1 .. len
    <3>1. p # k + 1 /\ p \in Int
      BY <2>2
    <3>2. CASE p <= k
      <4>1. p \in 1 .. len - 1
        BY <2>2, <3>2
      <4> QED BY <1>1, <3>2, <4>1
    <3>3. CASE p > k
      <4>1. p - 1 \in 1 .. len - 1 /\ ~(p - 1 <= k) /\ p - 1 + 1 = p
        BY <2>2, <3>1, <3>3
      <4>2. r[p - 1] = p /\ p - 1 \in DOMAIN r
        BY <1>1, <4>1
      <4> QED BY <4>2
    <3> QED BY <1>0, <3>1, <3>2, <3>3
  <2> QED BY <2>1, <2>2
<1>5. Renames(r, L)
  BY <1>2, <1>3, <1>4, Zenon DEF Renames
<1> QED BY <1>5 DEF r

\* What removing an item does to a sequence.
LEMMA RemoveAtIs ==
  ASSUME NEW S, NEW s \in Seq(S), NEW j \in 1 .. Len(s)
  PROVE  /\ RemoveAt(s, j) \in Seq(S) /\ Len(RemoveAt(s, j)) = Len(s) - 1
         /\ \A i \in 1 .. Len(s) - 1 :
               RemoveAt(s, j)[i] = s[IF i < j THEN i ELSE i + 1]
<1> DEFINE u == SubSeq(s, 1, j - 1)
           v == SubSeq(s, j + 1, Len(s))
<1>1. Len(s) \in Nat /\ j \in Nat /\ j >= 1 /\ j <= Len(s)
  BY LenProperties
<1>2. u \in Seq(S) /\ Len(u) = j - 1 /\ \A i \in 1 .. j - 1 : u[i] = s[i]
  <2>1. 1 \in Int /\ j - 1 \in Int /\ \A i \in 1 .. j - 1 : i \in 1 .. Len(s)
    BY <1>1
  <2>2. \A i \in 1 .. j - 1 : s[i] \in S
    BY <2>1, ElementOfSeq
  <2>3. /\ u \in Seq(S)
        /\ Len(u) = IF 1 <= j - 1 THEN j - 1 - 1 + 1 ELSE 0
        /\ \A i \in 1 .. j - 1 - 1 + 1 : u[i] = s[1 + i - 1]
    BY <2>1, <2>2, SubSeqProperties
  <2> HIDE DEF u
  <2> QED BY <1>1, <2>3
<1>3. /\ v \in Seq(S) /\ Len(v) = Len(s) - j
      /\ \A i \in 1 .. Len(s) - j : v[i] = s[i + j]
  <2>1. /\ j + 1 \in Int /\ Len(s) \in Int
        /\ \A i \in j + 1 .. Len(s) : i \in 1 .. Len(s)
    BY <1>1
  <2>2. \A i \in j + 1 .. Len(s) : s[i] \in S
    BY <2>1, ElementOfSeq
  <2>3. /\ v \in Seq(S)
        /\ Len(v) = IF j + 1 <= Len(s) THEN Len(s) - (j + 1) + 1 ELSE 0
        /\ \A i \in 1 .. Len(s) - (j + 1) + 1 : v[i] = s[j + 1 + i - 1]
    BY <2>1, <2>2, SubSeqProperties
  <2> HIDE DEF v
  <2>4. Len(v) = Len(s) - j
    BY <1>1, <2>3
  <2>5. \A i \in 1 .. Len(s) - j : /\ i \in 1 .. Len(s) - (j + 1) + 1
                                       /\ j + 1 + i - 1 = i + j
    BY <1>1
  <2> QED BY <2>3, <2>4, <2>5
<1>4. RemoveAt(s, j) = u \o v
  BY DEF RemoveAt
<1> HIDE DEF u, v
<1>5. /\ u \o v \in Seq(S) /\ Len(u \o v) = Len(u) + Len(v)
      /\ \A i \in 1 .. Len(u) + Len(v) : (u \o v)[i] = IF i <= Len(u) THEN u[i] ELSE v[i - Len(u)]
  <2>1. u \in Seq(S) /\ v \in Seq(S)
    BY <1>2, <1>3
  <2> QED BY <2>1, ConcatProperties
<1>6. Len(u) + Len(v) = Len(s) - 1
  BY <1>1, <1>2, <1>3
<1>7. ASSUME NEW i \in 1 .. Len(s) - 1 PROVE (u \o v)[i] = s[IF i < j THEN i ELSE i + 1]
  <2>1. (u \o v)[i] = IF i < j THEN u[i] ELSE v[i - (j - 1)]
    BY <1>2, <1>5, <1>6
  <2>2. CASE i < j
    <3>1. i \in 1 .. j - 1
      BY <1>1, <2>2
    <3> QED BY <1>2, <2>1, <2>2, <3>1
  <2>3. CASE ~(i < j)
    <3>1. i - (j - 1) \in 1 .. Len(s) - j /\ i - (j - 1) + j = i + 1
      BY <1>1, <2>3
    <3> QED BY <1>3, <2>1, <2>3, <3>1
  <2> QED BY <2>2, <2>3
<1> QED BY <1>4, <1>5, <1>6, <1>7

\* The node after k others is freed, with its String; the rest are linked.
Unlinked(k) ==
    /\ string' = string /\ Length' = Length - 1
    /\ buffer' = delete(buffer, node[NodeAt[k]].Data.Buffer)
    /\ Nodes' /\ head' \in 0 .. MaxNodes /\ tail' \in 0 .. MaxNodes
    /\ \A a \in DOMAIN node \ {NodeAt[k]} : node'[a].Data = node[a].Data
    /\ Chained'
    /\ \A i \in 0 .. Length - 1 : Walk(head', node')[i] = IF i < k THEN NodeAt[i] ELSE NodeAt[i + 1]

LEMMA UnlinkedStep ==
  ASSUME IInv, NEW k \in 0 .. Length - 1, Unlinked(k)
  PROVE  /\ IInv'
         /\ k \in 0 .. Len(items) - 1
         /\ items' = RemoveAt(items, k + 1) /\ text' = text
<1> DEFINE gone == k + 1
           names == AfterRemove(DOMAIN string, Length, k)
           L1 == delete(Living, gone)
<1>1. /\ TypeOK /\ Chained /\ Owned(Living, buffer) /\ MaxNodes \in Nat
      /\ DOMAIN Living = Objects /\ Objects = DOMAIN string \cup 1 .. Length
      /\ Length \in Nat /\ Length - 1 \in Nat /\ Length \in 0 .. MaxNodes
      /\ Length - 1 \in 0 .. MaxNodes
      /\ k \in Nat /\ gone \in 1 .. Length /\ gone - 1 = k /\ gone \in Nat
      /\ DOMAIN string \cap Nat = {}
  BY NamesApart, StringListAssumption DEF IInv, Living, Objects, TypeOK
<1>2. gone \notin DOMAIN string /\ gone \in DOMAIN Living
  BY <1>1
<1>3. Living[gone] = node[NodeAt[k]].Data
  BY <1>1, <1>2 DEF Living, Get
<1>4. /\ string' = string /\ Length' = Length - 1
      /\ buffer' = delete(buffer, Living[gone].Buffer)
  BY <1>3 DEF Unlinked
<1>5. /\ Owned(L1, buffer') /\ SameTextsBut({gone}, Living, buffer, L1, buffer')
  BY <1>1, <1>2, <1>4, Removed
<1>6. /\ DOMAIN L1 = (DOMAIN string \cup 1 .. Length) \ {gone}
      /\ \A q \in DOMAIN Living \ {gone} : L1[q] = Living[q]
      /\ \A q \in DOMAIN Living \ {gone} : Text(buffer', L1[q]) = Text(buffer, Living[q])
  BY <1>1, <1>5, deleteIs DEF SameTextsBut
<1> HIDE DEF L1
<1>7. ASSUME NEW x \in 1 .. Length - 1
      PROVE  /\ x \notin DOMAIN string
             /\ names[x] = (IF x < gone THEN x ELSE x + 1)
             /\ names[x] \in DOMAIN Living \ {gone}
  <2>1. x \notin DOMAIN string /\ x \in Int /\ (x < gone <=> x <= k)
    BY <1>1
  <2>2. names[x] = IF x < gone THEN x ELSE x + 1
    BY <2>1 DEF names, AfterRemove
  <2>3. (IF x < gone THEN x ELSE x + 1) \in DOMAIN Living \ {gone}
    BY <1>1, <2>1
  <2> HIDE DEF names, gone
  <2> QED BY <2>1, <2>2, <2>3
<1>8. Living' = By(L1, names)
  <2> DEFINE objects == ObjectsOf(string, head', node', Length - 1)
  <2>1. Living' = objects
    BY <1>4, LivingIs
  <2>2. DOMAIN names = DOMAIN string \cup 1 .. Length - 1
    BY DEF names, AfterRemove
  <2>3. ASSUME NEW x \in DOMAIN string \cup 1 .. Length - 1
        PROVE  objects[x] = L1[names[x]]
    <3>1. CASE x \in DOMAIN string
      <4>1. names[x] = x
        BY <3>1 DEF names, AfterRemove
      <4>2. Living[x] = string[x] /\ x \in DOMAIN Living \ {gone}
        BY <1>2, <3>1 DEF Living, Objects, Get
      <4>3. objects[x] = string[x]
        BY <3>1 DEF ObjectsOf
      <4> QED BY <1>6, <4>1, <4>2, <4>3
    <3>2. CASE x \in 1 .. Length - 1
      <4> DEFINE y == IF x < gone THEN x ELSE x + 1
      <4>1. /\ x \notin DOMAIN string /\ names[x] = y
            /\ y \in DOMAIN Living \ {gone}
        BY <1>7, <3>2
      <4>2. x - 1 \in 0 .. Length - 1 /\ x \in Int /\ (x - 1 < k <=> x < gone)
        BY <1>1, <3>2
      <4>3. y \in 1 .. Length /\ y - 1 \in 0 .. Length - 1
        BY <1>1, <3>2, <4>2
      <4>4. y - 1 = (IF x - 1 < k THEN x - 1 ELSE x - 1 + 1)
        BY <4>2
      <4>5. Walk(head', node')[x - 1] = NodeAt[y - 1]
        <5>1. Walk(head', node')[x - 1]
                 = IF x - 1 < k THEN NodeAt[x - 1] ELSE NodeAt[x - 1 + 1]
          BY <4>2 DEF Unlinked
        <5> HIDE DEF y
        <5> QED BY <4>4, <5>1
      <4>6. objects[x] = node'[Walk(head', node')[x - 1]].Data
        BY <3>2, <4>1 DEF ObjectsOf
      <4> HIDE DEF y, objects
      <4>7. NodeAt[y - 1] \in DOMAIN node
        BY <1>1, <4>3, ItemNode
      <4>8. NodeAt[y - 1] # NodeAt[k]
        <5>1. y # gone /\ gone - 1 = k
          BY <1>1, <4>1
        <5> HIDE DEF gone
        <5> QED BY <1>1, <4>3, <5>1, SameItem
      <4>9. objects[x] = node[NodeAt[y - 1]].Data
        BY <4>5, <4>6, <4>7, <4>8 DEF Unlinked
      <4>10. Living[y] = node[NodeAt[y - 1]].Data
        <5>1. y \notin DOMAIN string
          BY <1>1, <4>3
        <5> QED BY <4>3, <5>1 DEF Living, Objects, Get
      <4> QED BY <1>6, <4>1, <4>9, <4>10
    <3> QED BY <3>1, <3>2
  <2>4. objects = [x \in DOMAIN string \cup 1 .. Length - 1 |-> objects[x]]
    BY DEF ObjectsOf
  <2>5. By(L1, names) = [x \in DOMAIN string \cup 1 .. Length - 1 |-> L1[names[x]]]
    BY <2>2 DEF By
  <2> HIDE DEF objects, names
  <2> QED BY <2>1, <2>3, <2>4, <2>5
<1>9. Renames(names, L1)
  BY <1>1, <1>6, RemoveNames
<1>10. Owned(Living', buffer')
  <2> HIDE DEF names
  <2> QED BY <1>5, <1>8, <1>9, Renamed
<1>11. TypeOK'
  BY <1>1, <1>4, <1>10 DEF TypeOK, Owned, Strings, Unlinked
<1>12. IInv'
  BY <1>10, <1>11 DEF IInv, Unlinked
<1>13. text' = text
  <2>1. text' = [n \in DOMAIN string |-> Text(buffer', Living'[n])]
    BY <1>4, <1>11, TextsWillBe
  <2>2. ASSUME NEW n \in DOMAIN string PROVE Text(buffer', Living'[n]) = text[n]
    <3>1. Living'[n] = L1[n]
      BY <1>8 DEF By, names, AfterRemove
    <3>2. n \in DOMAIN Living \ {gone}
      BY <1>1, <1>2
    <3> QED BY <1>1, <1>6, <3>1, <3>2, TextsAre
  <2>3. text = [n \in DOMAIN string |-> text[n]]
    BY DEF text
  <2> QED BY <2>1, <2>2, <2>3
<1>14. items \in Seq(Seq(Cell)) /\ Len(items) = Length
  BY ItemsAre
<1>15. items' = RemoveAt(items, k + 1)
  <2> DEFINE shorter == RemoveAt(items, gone)
  <2>1. gone \in 1 .. Len(items)
    BY <1>1, <1>14
  <2>2. /\ shorter \in Seq(Seq(Cell)) /\ Len(shorter) = Length - 1
        /\ \A i \in 1 .. Length - 1 : shorter[i] = items[IF i < gone THEN i ELSE i + 1]
    <3> HIDE DEF gone
    <3> QED BY <1>14, <2>1, RemoveAtIs
  <2> HIDE DEF shorter
  <2>3. items' = [i \in 1 .. Length - 1 |-> Text(buffer', Living'[i])]
    BY <1>4, <1>11, TextsWillBe
  <2>4. ASSUME NEW i \in 1 .. Length - 1 PROVE Text(buffer', Living'[i]) = shorter[i]
    <3> DEFINE j == IF i < gone THEN i ELSE i + 1
    <3>1. names[i] = j /\ j \in DOMAIN Living \ {gone}
      BY <1>7
    <3>2. j \in 1 .. Length
      BY <1>1
    <3>3. i \in DOMAIN names
      BY DEF names, AfterRemove
    <3>4. shorter[i] = items[j]
      BY <2>2
    <3> HIDE DEF j, names, gone
    <3>5. Living'[i] = L1[j]
      BY <1>8, <3>1, <3>3 DEF By
    <3>6. items[j] = Text(buffer, Living[j])
      BY <1>1, <3>2, TextsAre
    <3> QED BY <1>6, <3>1, <3>4, <3>5, <3>6
  <2>5. shorter = [i \in 1 .. Length - 1 |-> shorter[i]]
    BY <2>2, LenProperties
  <2>6. items' = shorter
    BY <2>3, <2>4, <2>5
  <2> QED BY <2>6 DEF shorter
<1> QED BY <1>12, <1>13, <1>14, <1>15

LEMMA SameRemoveAt ==
  ASSUME NEW s, NEW j
  PROVE  Values!RemoveAt(s, j) = RemoveAt(s, j)
BY DEF RemoveAt, Values!RemoveAt

LEMMA RemoveHeadStep ==
  ASSUME IInv, RemoveHead
  PROVE  IInv' /\ Values!Next
<1>1. /\ TypeOK /\ Chained /\ MaxNodes \in Nat
      /\ Length \in 1 .. MaxNodes /\ 0 \in 0 .. Length - 1
      /\ head' = node[head].Next /\ tail' = tail /\ Length' = Length - 1 /\ string' = string
      /\ node' = delete(node, head) /\ buffer' = delete(buffer, node[head].Data.Buffer)
      /\ did' = <<"remove", 0>>
  BY StringListAssumption DEF IInv, TypeOK, RemoveHead, DeleteNode
<1>2. Walk(head, node)[0] = head /\ NodeAt[0] = head /\ head \in DOMAIN node
  BY <1>1, NodeAtIsWalk DEF Chained, Chain, Links
<1>3. DOMAIN node' = DOMAIN node \ {head} /\ \A a \in DOMAIN node' : node'[a] = node[a]
  BY <1>1, deleteIs
<1>4. /\ Chain(head', node', Length - 1)
      /\ \A i \in 0 .. Length - 1 :
            Walk(head', node')[i] = IF i < 0 THEN Walk(head, node)[i] ELSE Walk(head, node)[i + 1]
  <2>1. Chain(head, node, Length)
    BY <1>1 DEF Chained
  <2> QED BY <1>1, <1>2, <1>3, <2>1, ChainCut
<1>5. Nodes' /\ head' \in 0 .. MaxNodes /\ tail' \in 0 .. MaxNodes
  BY <1>1, <1>2 DEF TypeOK, Nodes, delete, Restrict
<1>6. Unlinked(0)
  BY <1>1, <1>2, <1>3, <1>4, <1>5, NodeAtIsWalk DEF Unlinked, Chained
<1>7. /\ IInv' /\ 0 \in 0 .. Len(items) - 1
      /\ items' = RemoveAt(items, 0 + 1) /\ text' = text
  BY <1>1, <1>6, UnlinkedStep
<1>8. Values!remove(0)
  BY <1>1, <1>7, SameRemoveAt DEF Values!remove
<1> QED BY <1>7, <1>8 DEF Values!Next

LEMMA removeStep ==
  ASSUME IInv, NEW index \in 1 .. MaxNodes - 1, remove(index)
  PROVE  IInv' /\ Values!Next
<1> DEFINE prev == NodeAt[index - 1]
           current == NodeAt[index]
           next == node[current].Next
           linked == [node EXCEPT ![prev].Next = next]
<1>1. /\ TypeOK /\ Chained /\ MaxNodes \in Nat
      /\ Length \in 1 .. MaxNodes /\ index \in 0 .. Length - 1 /\ index - 1 \in 0 .. Length - 1
      /\ index # 0 /\ index \in Int /\ index # index - 1 /\ Length \in 0 .. MaxNodes
  BY StringListAssumption DEF IInv, TypeOK, remove
<1>2. /\ head' = head /\ tail' = (IF next = nullptr THEN prev ELSE tail)
      /\ Length' = Length - 1 /\ string' = string
      /\ node' = delete(linked, current) /\ buffer' = delete(buffer, node[current].Data.Buffer)
      /\ did' = <<"remove", index>>
  BY DEF remove, DeleteNode
<1>3. /\ prev \in DOMAIN node /\ current \in DOMAIN node /\ prev # current
      /\ prev = Walk(head, node)[index - 1] /\ current = Walk(head, node)[index]
  BY <1>1, NodeAtIsWalk DEF Chained, Chain, Links
<1> HIDE DEF prev, current
<1>4. next \in 0 .. MaxNodes /\ prev \in 0 .. MaxNodes
  BY <1>1, <1>3 DEF TypeOK, Nodes
<1>5. /\ linked \in [DOMAIN node -> [Data : StringObject, Next : 0 .. MaxNodes]]
      /\ DOMAIN linked = DOMAIN node
      /\ \A a \in DOMAIN node : linked[a].Data = node[a].Data
      /\ linked[prev].Next = next
      /\ \A a \in DOMAIN node : a # prev => linked[a].Next = node[a].Next
  <2>1. node \in [DOMAIN node -> [Data : StringObject, Next : 0 .. MaxNodes]]
    BY <1>1 DEF TypeOK, Nodes
  <2> HIDE DEF next
  <2> QED BY <1>3, <1>4, <2>1
<1> HIDE DEF linked
<1>6. /\ DOMAIN node' = DOMAIN node \ {current}
      /\ \A a \in DOMAIN node \ {current} : node'[a] = linked[a]
      /\ node' \in [DOMAIN node' -> [Data : StringObject, Next : 0 .. MaxNodes]]
  BY <1>2, <1>5 DEF delete, Restrict
<1>7. /\ node'[prev].Next = next
      /\ \A a \in DOMAIN node' : a # prev => node'[a].Next = node[a].Next
      /\ \A a \in DOMAIN node \ {current} : node'[a].Data = node[a].Data
  BY <1>3, <1>5, <1>6
<1>8. /\ Chain(head', node', Length - 1)
      /\ \A i \in 0 .. Length - 1 :
            Walk(head', node')[i] = IF i < index THEN Walk(head, node)[i] ELSE Walk(head, node)[i + 1]
  <2>1. Chain(head, node, Length)
    BY <1>1 DEF Chained
  <2>2. DOMAIN node' = DOMAIN node \ {Walk(head, node)[index]}
    BY <1>3, <1>6
  <2>3. head' = head /\ node'[Walk(head, node)[index - 1]].Next = node[Walk(head, node)[index]].Next
    BY <1>2, <1>3, <1>7
  <2>4. \A a \in DOMAIN node' :
           index = 0 \/ a # Walk(head, node)[index - 1] => node'[a].Next = node[a].Next
    BY <1>1, <1>3, <1>7
  <2> QED BY <1>1, <2>1, <2>2, <2>3, <2>4, ChainCut
<1>9. Nodes' /\ head' \in 0 .. MaxNodes /\ tail' \in 0 .. MaxNodes
  BY <1>1, <1>2, <1>4, <1>6 DEF TypeOK, Nodes
<1>10. Unlinked(index)
  BY <1>1, <1>2, <1>3, <1>7, <1>8, <1>9, NodeAtIsWalk DEF Unlinked, Chained, current
<1>11. /\ IInv' /\ index \in 0 .. Len(items) - 1
       /\ items' = RemoveAt(items, index + 1) /\ text' = text
  BY <1>1, <1>10, UnlinkedStep
<1>12. Values!remove(index)
  BY <1>2, <1>11, SameRemoveAt DEF Values!remove
<1> QED BY <1>11, <1>12 DEF Values!Next

-----------------------------------------------------------------------------
(* Every step, and what follows for every behaviour.                       *)

LEMMA InitHolds ==
  ASSUME Init
  PROVE  IInv /\ Values!Init
<1>1. /\ string = <<>> /\ buffer = <<>> /\ node = <<>> /\ head = 0 /\ tail = 0 /\ Length = 0
      /\ did = <<>> /\ nullptr = 0 /\ MaxNodes \in Nat
  BY StringListAssumption DEF Init, nullptr
<1>2. DOMAIN <<>> = {} /\ 1 .. 0 = {}
  OBVIOUS
<1>3. DOMAIN Living = {}
  BY <1>1, <1>2 DEF Living, Objects
<1>4. \A S, f : f = <<>> => f \in [DOMAIN f -> S]
  BY <1>2
<1>5. TypeOK
  BY <1>1, <1>2, <1>4 DEF TypeOK, Strings, Nodes, HeapType
<1>6. Chained
  BY <1>1, EmptyChain DEF Chained
<1>7. Living \in [DOMAIN Living -> StringObject]
  BY <1>3 DEF Living
<1>8. Owned(Living, buffer)
  BY <1>1, <1>2, <1>3, <1>5, <1>7 DEF Owned, TypeOK
<1>9. text = <<>> /\ items = <<>>
  BY <1>1, <1>2 DEF text, items
<1> QED BY <1>1, <1>5, <1>6, <1>8, <1>9 DEF IInv, Values!Init

LEMMA StepHolds ==
  ASSUME IInv, Next
  PROVE  IInv' /\ Values!Next
<1>1. CASE \E n \in Name, t \in Literal : Construct(n, t, <<"literal", t>>)
  <2>1. PICK n \in Name, t \in Literal : Construct(n, t, <<"literal", t>>)
    BY <1>1
  <2>2. IInv' /\ Values!Construct(n, t, <<"literal", t>>)
    BY <2>1, LiteralIsText, ConstructStep
  <2> QED BY <2>2 DEF Values!Next
<1>2. CASE \E n \in Name, q \in Objects : Construct(n, Value(q), <<"object", q>>)
  <2>1. PICK n \in Name, q \in Objects : Construct(n, Value(q), <<"object", q>>)
    BY <1>2
  <2>2. Value(q) \in Seq(Cell) /\ Values!Value(q) = Value(q) /\ q \in Values!Object
    BY ValueIs
  <2>3. IInv' /\ Values!Construct(n, Value(q), <<"object", q>>)
    BY <2>1, <2>2, ConstructStep
  <2> QED BY <2>2, <2>3 DEF Values!Next
<1>3. CASE \E n \in Name : Destroy(n)
  BY <1>3, DestroyStep
<1>4. CASE \E p \in Objects, q \in Objects : p # q /\ CopyAssign(p, q)
  BY <1>4, CopyAssignStep
<1>5. CASE \E p \in Objects, q \in Objects : p # q /\ MoveAssign(p, q)
  BY <1>5, MoveAssignStep
<1>6. CASE \E p \in Objects, q \in Objects : p # q /\ AppendString(p, q)
  BY <1>6, AppendStringStep
<1>7. CASE \E p \in Objects, t \in Literal : AppendLiteral(p, t)
  BY <1>7, AppendLiteralStep
<1>8. CASE \E p \in Objects, index \in 0 .. MaxLength - 1 : ChopLeft(p, index)
  BY <1>8, ChopLeftStep
<1>9. CASE \E p \in Objects, index \in 0 .. MaxLength - 1 : ChopRight(p, index)
  BY <1>9, ChopRightStep
<1>10. CASE \E p \in Objects : Add(p)
  BY <1>10, AddStep
<1>11. CASE RemoveHead
  BY <1>11, RemoveHeadStep
<1>12. CASE \E index \in 1 .. MaxNodes - 1 : remove(index)
  BY <1>12, removeStep
<1>13. CASE DestroyList
  BY <1>13, DestroyListStep
<1> QED BY <1>1, <1>2, <1>3, <1>4, <1>5, <1>6, <1>7, <1>8, <1>9, <1>10, <1>11, <1>12, <1>13 DEF Next

LEMMA StutterHolds ==
  ASSUME IInv, UNCHANGED vars
  PROVE  IInv' /\ UNCHANGED Values!vars
<1>1. UNCHANGED <<string, node, buffer>> /\ UNCHANGED List /\ did' = did
  BY DEF vars, List
<1>2. IInv'
  BY <1>1, Unchanged
<1>3. string' = string /\ node' = node /\ buffer' = buffer /\ Length' = Length /\ head' = head
  BY <1>1 DEF List
<1>4. NodeAt' = NodeAt
  BY <1>3, NodeAtIsWalk
<1>5. text' = text /\ items' = items
  BY <1>3, <1>4 DEF text, items
<1> QED BY <1>1, <1>2, <1>5 DEF Values!vars

\* In every reachable state the variables have their types, the list's nodes
\* are a chain from head that ends after Length of them and misses none, and
\* each buffer on the heap is exactly one living String's and as long as it
\* says: what add, the removals, the two assignments and the appends and
\* chops, which free one buffer and keep another, leave behind.
THEOREM Invariant == Spec => []IInv
<1>1. Init => IInv
  BY InitHolds
<1>2. IInv /\ [Next]_vars => IInv'
  BY StepHolds, StutterHolds
<1> QED BY <1>1, <1>2, PTL DEF Spec

LEMMA OwnersFollow == IInv => EveryBufferHasOneOwner
<1> SUFFICES ASSUME IInv PROVE EveryBufferHasOneOwner
  OBVIOUS
<1>1. /\ Owned(Living, buffer) /\ DOMAIN Living = Objects
      /\ Links(NodeAt, head, node, Length) /\ Length \in Nat
  BY NodeAtIsWalk, StringListAssumption DEF IInv, Living, Chained, Chain, TypeOK
<1>2. \A p, q \in Objects :
         p # q /\ Living[p].Buffer = Living[q].Buffer => Living[p].Buffer = nullptr
  BY <1>1 DEF Owned
<1>3. \A p \in Objects : Living[p].Buffer # nullptr =>
         /\ Living[p].Buffer \in DOMAIN buffer
         /\ Len(buffer[Living[p].Buffer]) = Living[p].Length + 1
  BY <1>1 DEF Owned
<1>4. DOMAIN buffer = {Living[p].Buffer : p \in Objects} \ {nullptr}
  <2>1. \A a \in DOMAIN buffer : a # nullptr /\ \E p \in Objects : Living[p].Buffer = a
    BY <1>1, StringListAssumption DEF Owned, HeapType
  <2> QED BY <1>3, <2>1
<1>5. DOMAIN node = {NodeAt[i - 1] : i \in 1 .. Length}
  <2>1. ASSUME NEW a \in DOMAIN node PROVE a \in {NodeAt[i - 1] : i \in 1 .. Length}
    <3>1. PICK j \in 0 .. Length - 1 : NodeAt[j] = a
      BY <1>1 DEF Links
    <3>2. j + 1 \in 1 .. Length /\ j + 1 - 1 = j
      BY <1>1
    <3> QED BY <3>1, <3>2
  <2>2. ASSUME NEW i \in 1 .. Length PROVE NodeAt[i - 1] \in DOMAIN node
    <3>1. i - 1 \in 0 .. Length - 1
      BY <1>1
    <3> QED BY <1>1, <3>1 DEF Links
  <2> QED BY <2>1, <2>2
<1>6. Length > 0 => node[NodeAt[Length - 1]].Next = nullptr
  <2>1. Length > 0 => Length \in 1 .. Length
    BY <1>1
  <2> QED BY <1>1, <2>1 DEF Links
<1> QED BY <1>2, <1>3, <1>4, <1>5, <1>6 DEF EveryBufferHasOneOwner

\* No operation of String or of the list leaks a buffer or a node, frees one
\* twice, or leaves an object with one that was freed.
THEOREM OneOwner == Spec => []EveryBufferHasOneOwner
BY Invariant, OwnersFollow, PTL

\* Strings are values: an operation changes the object it is called on and no
\* other (a move empties its source), though all of them share one heap.
THEOREM Implements == Spec => StringsAreValues
<1>1. Init => Values!Init
  BY InitHolds
<1>2. IInv /\ [Next]_vars => [Values!Next]_(Values!vars)
  BY StepHolds, StutterHolds
<1> QED BY <1>1, <1>2, Invariant, PTL DEF Spec, StringsAreValues, Values!Spec

-----------------------------------------------------------------------------
(* Texts.  What a character is does not matter: a number that is out of    *)
(* range would be written with whatever Digit gives.                       *)

IsText(s) == Len(s) \in Nat /\ s = [k \in 1 .. Len(s) |-> s[k]]

LEMMA TextIsSeq ==
  ASSUME NEW s, IsText(s), NEW S, \A k \in 1 .. Len(s) : s[k] \in S
  PROVE  s \in Seq(S)
<1>1. s \in [1 .. Len(s) -> S] /\ Len(s) \in Nat
  BY DEF IsText
<1> QED BY <1>1, SeqDef

LEMMA SeqIsText ==
  ASSUME NEW S, NEW s \in Seq(S)
  PROVE  IsText(s)
<1>1. Len(s) \in Nat /\ s \in [1 .. Len(s) -> S]
  BY LenProperties
<1> QED BY <1>1 DEF IsText

LEMMA EmptyText == IsText(<<>>) /\ Len(<<>>) = 0
<1>1. <<>> \in Seq({})
  OBVIOUS
<1> QED BY <1>1, SeqIsText

LEMMA CharacterText ==
  ASSUME NEW e
  PROVE  IsText(<<e>>) /\ Len(<<e>>) = 1 /\ <<e>>[1] = e
<1>1. <<e>> \in Seq({e})
  OBVIOUS
<1> QED BY <1>1, SeqIsText

LEMMA Concatenation ==
  ASSUME NEW s, NEW t, IsText(s), IsText(t)
  PROVE  /\ IsText(s \o t)
         /\ Len(s \o t) = Len(s) + Len(t)
         /\ \A k \in 1 .. Len(s) : (s \o t)[k] = s[k]
         /\ \A k \in 1 .. Len(t) : (s \o t)[Len(s) + k] = t[k]
<1> DEFINE S == {s[k] : k \in 1 .. Len(s)} \cup {t[k] : k \in 1 .. Len(t)}
<1>1. s \in Seq(S) /\ t \in Seq(S)
  BY TextIsSeq
<1>2. Len(s) \in Nat /\ Len(t) \in Nat
  BY DEF IsText
<1> HIDE DEF S
<1>3. s \o t \in Seq(S) /\ Len(s \o t) = Len(s) + Len(t)
  BY <1>1, ConcatProperties
<1>4. \A k \in 1 .. Len(s) + Len(t) :
         (s \o t)[k] = IF k <= Len(s) THEN s[k] ELSE t[k - Len(s)]
  BY <1>1, ConcatProperties
<1>5. ASSUME NEW k \in 1 .. Len(t) PROVE (s \o t)[Len(s) + k] = t[k]
  <2>1. Len(s) + k \in 1 .. Len(s) + Len(t) /\ ~(Len(s) + k <= Len(s))
    BY <1>2
  <2>2. Len(s) + k - Len(s) = k
    BY <1>2
  <2> QED BY <1>4, <2>1, <2>2
<1>6. ASSUME NEW k \in 1 .. Len(s) PROVE (s \o t)[k] = s[k]
  BY <1>2, <1>4
<1> QED BY <1>1, <1>3, <1>5, <1>6, SeqIsText

LEMMA EmptyConcatenation ==
  ASSUME NEW s, IsText(s)
  PROVE  s \o <<>> = s
<1> DEFINE S == {s[k] : k \in 1 .. Len(s)}
<1>1. s \in Seq(S)
  BY TextIsSeq
<1> HIDE DEF S
<1> QED BY <1>1, ConcatEmptySeq

LEMMA ConcatenationAssociative ==
  ASSUME NEW s, NEW t, NEW u, IsText(s), IsText(t), IsText(u)
  PROVE  (s \o t) \o u = s \o (t \o u)
<1> DEFINE S == {s[k] : k \in 1 .. Len(s)} \cup {t[k] : k \in 1 .. Len(t)}
                  \cup {u[k] : k \in 1 .. Len(u)}
<1>1. s \in Seq(S) /\ t \in Seq(S) /\ u \in Seq(S)
  BY TextIsSeq
<1> HIDE DEF S
<1> QED BY <1>1, ConcatAssociative

LEMMA Remainder ==
  ASSUME NEW s, IsText(s), s # <<>>
  PROVE  /\ Len(s) > 0
         /\ IsText(Tail(s)) /\ Len(Tail(s)) = Len(s) - 1
         /\ \A k \in 1 .. Len(s) - 1 : Tail(s)[k] = s[k + 1]
<1> DEFINE S == {s[k] : k \in 1 .. Len(s)}
<1>1. s \in Seq(S)
  BY TextIsSeq
<1> HIDE DEF S
<1>2. Len(s) > 0
  BY <1>1, EmptySeq
<1>3. Tail(s) \in Seq(S) /\ Len(Tail(s)) = Len(s) - 1
  BY <1>1, HeadTailProperties
<1>4. \A k \in 1 .. Len(s) - 1 : Tail(s)[k] = s[k + 1]
  BY <1>1, HeadTailProperties
<1> QED BY <1>2, <1>3, <1>4, SeqIsText

-----------------------------------------------------------------------------
(* What is said is a text: a buffer up to its terminator, and what         *)
(* UART::out sends of one.                                                 *)

Cells == 0 .. BufferSize - 1

LEMMA CStringIsText ==
  ASSUME NEW buf, DOMAIN buf = Cells
  PROVE  IsText(CString(buf))
<1>0. BufferSize \in Nat \ {0}
  BY ConsoleAssumption
<1> DEFINE Ends(i) == /\ buf[i] = "nul" \/ i = BufferSize - 1
                      /\ \A j \in 0 .. i - 1 : buf[j] # "nul"
           Stops == {i \in Cells : buf[i] = "nul" \/ i = BufferSize - 1}
<1>1. \E i \in DOMAIN buf : Ends(i)
  <2>1. BufferSize - 1 \in Stops /\ Stops \in SUBSET Nat
    BY <1>0 DEF Cells
  <2>2. PICK least \in Stops : \A j \in Stops : least <= j
    <3> HIDE DEF Stops
    <3> QED BY <2>1, LeastExists
  <2>3. ASSUME NEW j \in 0 .. least - 1 PROVE buf[j] # "nul"
    BY <1>0, <2>2 DEF Cells
  <2> QED BY <2>2, <2>3
<1> DEFINE end == CHOOSE i \in DOMAIN buf : Ends(i)
<1>2. end \in Cells
  <2> HIDE DEF Ends
  <2> QED BY <1>1
<1>3. CString(buf) = [i \in 1 .. end |-> buf[i - 1]]
  BY DEF CString
<1> HIDE DEF end
<1>4. end \in Nat
  BY <1>0, <1>2 DEF Cells
<1> DEFINE S == {buf[i - 1] : i \in 1 .. end}
<1>5. CString(buf) \in [1 .. end -> S]
  BY <1>3
<1> HIDE DEF S
<1>6. CString(buf) \in Seq(S)
  BY <1>4, <1>5, SeqDef
<1> QED BY <1>6, SeqIsText

LEMMA WritingKeepsCells ==
  ASSUME NEW buf, DOMAIN buf = Cells, NEW v
  PROVE  /\ \A first : DOMAIN WriteDigits(buf, first, v) = Cells
         /\ DOMAIN int_to_string(buf, v) = Cells
<1>1. ASSUME NEW b, DOMAIN b = Cells, NEW first, NEW n
      PROVE  DOMAIN WriteDigits(b, first, n) = Cells
  BY <1>1 DEF WriteDigits
<1>2. DOMAIN [buf EXCEPT ![0] = "-"] = Cells
  OBVIOUS
<1>3. DOMAIN WriteDigits([buf EXCEPT ![0] = "-"], 1, -v) = Cells
  BY <1>1, <1>2
<1>4. DOMAIN WriteDigits(buf, 0, v) = Cells
  BY <1>1
<1> QED BY <1>1, <1>3, <1>4 DEF int_to_string

\* Reading goes forwards.
LEMMA SkipForward ==
  ASSUME NEW s \in Seq(STRING), NEW k \in 1 .. Len(s)
  PROVE  Skip(s, k) \in {0} \cup (k .. Len(s))
<1>0. Len(s) \in Nat
  BY LenProperties
<1> DEFINE ends == {j \in k + 1 .. Len(s) : s[j] = "m"}
           Least(j) == \A l \in ends : j <= l
           first == CHOOSE j \in ends : Least(j)
<1>1. CASE ends = {} \/ first = Len(s)
  <2>1. AfterCode(s, k) = 0
    BY <1>1 DEF AfterCode
  <2> QED BY <1>0, <2>1 DEF Skip
<1>2. CASE ends # {} /\ first # Len(s)
  <2>1. ends \in SUBSET Nat
    BY <1>0
  <2>2. \E j \in ends : Least(j)
    <3> HIDE DEF ends
    <3> QED BY <1>2, <2>1, LeastExists
  <2>3. first \in ends
    <3> HIDE DEF ends, Least
    <3> QED BY <2>2
  <2>4. AfterCode(s, k) = first + 1
    BY <1>2 DEF AfterCode
  <2>5. first \in k + 1 .. Len(s)
    BY <2>3
  <2>6. first + 1 \in k .. Len(s)
    <3> HIDE DEF first
    <3> QED BY <1>0, <1>2, <2>5
  <2> QED BY <1>0, <2>4, <2>6 DEF Skip
<1> QED BY <1>1, <1>2

\* What is sent of a buffer from each index on, with the function that says
\* what is sent of the rest as a parameter.
Piece(s, f, i) ==
    IF i = 0 \/ i > Len(s) THEN <<>>
    ELSE LET j == Skip(s, i) IN IF j = 0 THEN <<>> ELSE <<s[j]>> \o f[j + 1]

Pieces(s) ==
    LET Rest[i \in 0 .. Len(s) + 1] ==
          IF i = 0 \/ i > Len(s) THEN <<>>
          ELSE LET j == Skip(s, i)
               IN  IF j = 0 THEN <<>> ELSE <<s[j]>> \o Rest[j + 1]
    IN  Rest

\* A function that is right for the last k + 1 indexes.
From(s, k) == Len(s) + 1 - k .. Len(s) + 1
PiecesFrom(s, k) == \E f : f = [i \in From(s, k) |-> Piece(s, f, i)]

LEMMA OnePieceMore ==
  ASSUME NEW s \in Seq(STRING), NEW k \in 1 .. Len(s) + 1, PiecesFrom(s, k - 1)
  PROVE  PiecesFrom(s, k)
<1>0. Len(s) \in Nat
  BY LenProperties
<1>1. PICK f : f = [i \in From(s, k - 1) |-> Piece(s, f, i)]
  BY DEF PiecesFrom
<1> DEFINE at == Len(s) + 1 - k
           g == [i \in From(s, k) |-> IF i = at THEN Piece(s, f, at) ELSE f[i]]
<1>2. /\ at \in 0 .. Len(s)
      /\ at \in From(s, k) /\ at \notin From(s, k - 1)
      /\ From(s, k) = From(s, k - 1) \cup {at}
  BY <1>0 DEF From
<1>3. ASSUME NEW i \in From(s, k - 1) PROVE g[i] = f[i]
  BY <1>2
<1>4. ASSUME NEW i \in From(s, k) PROVE Piece(s, g, i) = Piece(s, f, i)
  <2>1. CASE i = 0 \/ i > Len(s)
    BY <2>1 DEF Piece
  <2>2. CASE i \in 1 .. Len(s)
    <3>1. Skip(s, i) \in {0} \cup (i .. Len(s))
      BY <2>2, SkipForward
    <3>2. ASSUME Skip(s, i) # 0 PROVE Skip(s, i) + 1 \in From(s, k - 1)
      BY <1>0, <1>4, <3>1, <3>2 DEF From
    <3>3. ASSUME Skip(s, i) # 0 PROVE g[Skip(s, i) + 1] = f[Skip(s, i) + 1]
      BY <1>3, <3>2, <3>3
    <3> HIDE DEF g
    <3> QED BY <3>3 DEF Piece
  <2> QED BY <1>0, <1>4, <2>1, <2>2 DEF From
<1>5. ASSUME NEW i \in From(s, k) PROVE g[i] = Piece(s, g, i)
  <2>1. CASE i = at
    <3>1. g[i] = Piece(s, f, i)
      BY <1>2, <2>1
    <3> HIDE DEF g
    <3> QED BY <1>4, <3>1
  <2>2. CASE i # at
    <3>1. i \in From(s, k - 1)
      BY <1>2, <2>2
    <3>2. f[i] = Piece(s, f, i)
      BY <1>1, <3>1
    <3> HIDE DEF g
    <3> QED BY <1>3, <1>4, <3>1, <3>2
  <2> QED BY <2>1, <2>2
<1>6. g = [i \in From(s, k) |-> g[i]]
  OBVIOUS
<1> HIDE DEF g
<1>7. g = [i \in From(s, k) |-> Piece(s, g, i)]
  BY <1>5, <1>6
<1> QED BY <1>7 DEF PiecesFrom

LEMMA PiecesAre ==
  ASSUME NEW s \in Seq(STRING)
  PROVE  \A i \in 0 .. Len(s) + 1 : Pieces(s)[i] = Piece(s, Pieces(s), i)
<1>0. Len(s) \in Nat
  BY LenProperties
<1> DEFINE S == {k \in 0 .. Len(s) + 1 : PiecesFrom(s, k)}
<1>1. 0 \in S
  <2> DEFINE f == [i \in From(s, 0) |-> <<>>]
  <2>1. \A i \in From(s, 0) : i > Len(s)
    BY <1>0 DEF From
  <2>2. f = [i \in From(s, 0) |-> Piece(s, f, i)]
    BY <2>1 DEF Piece
  <2> HIDE DEF f
  <2> QED BY <1>0, <2>2 DEF PiecesFrom
<1>2. ASSUME NEW k \in 1 .. Len(s) + 1, k - 1 \in S PROVE k \in S
  BY <1>0, <1>2, OnePieceMore
<1>3. 0 .. Len(s) + 1 \subseteq S
  <2>1. Len(s) + 1 \in Nat /\ 0 \in S
    BY <1>0, <1>1
  <2>2. \A k \in 1 .. Len(s) + 1 : k - 1 \in S => k \in S
    BY <1>2
  <2> HIDE DEF S
  <2> QED BY <2>1, <2>2, AllIndexes
<1>4. PiecesFrom(s, Len(s) + 1) /\ From(s, Len(s) + 1) = 0 .. Len(s) + 1
  BY <1>0, <1>3 DEF From
<1>5. \E f : f = [i \in 0 .. Len(s) + 1 |->
                   IF i = 0 \/ i > Len(s) THEN <<>>
                   ELSE LET j == Skip(s, i) IN IF j = 0 THEN <<>> ELSE <<s[j]>> \o f[j + 1]]
  BY <1>4 DEF PiecesFrom, Piece
<1>6. Pieces(s) = [i \in 0 .. Len(s) + 1 |->
                   IF i = 0 \/ i > Len(s) THEN <<>>
                   ELSE LET j == Skip(s, i)
                        IN  IF j = 0 THEN <<>> ELSE <<s[j]>> \o Pieces(s)[j + 1]]
  BY <1>5 DEF Pieces
<1> DEFINE p == Pieces(s)
<1>7. p = [i \in 0 .. Len(s) + 1 |->
                   IF i = 0 \/ i > Len(s) THEN <<>>
                   ELSE LET j == Skip(s, i)
                        IN  IF j = 0 THEN <<>> ELSE <<s[j]>> \o p[j + 1]]
  BY <1>6
<1> HIDE DEF p
<1>8. \A i \in 0 .. Len(s) + 1 : p[i] = Piece(s, p, i)
  BY <1>7 DEF Piece
<1> QED BY <1>8 DEF p

LEMMA OutBufferIsText ==
  ASSUME NEW s \in Seq(STRING)
  PROVE  IsText(OutBuffer(s))
<1>0. Len(s) \in Nat
  BY LenProperties
<1> DEFINE p == Pieces(s)
           S == {k \in 0 .. Len(s) + 1 : \A i \in From(s, k) : IsText(p[i])}
<1>1. \A i \in 0 .. Len(s) + 1 : p[i] = Piece(s, p, i)
  BY PiecesAre
<1> HIDE DEF p
<1>2. 0 \in S
  <2>1. \A i \in From(s, 0) : i \in 0 .. Len(s) + 1 /\ i > Len(s)
    BY <1>0 DEF From
  <2>2. \A i \in From(s, 0) : p[i] = <<>>
    BY <1>1, <2>1 DEF Piece
  <2> QED BY <1>0, <2>2, EmptyText
<1>3. ASSUME NEW k \in 1 .. Len(s) + 1, k - 1 \in S PROVE k \in S
  <2> DEFINE at == Len(s) + 1 - k
  <2>1. at \in 0 .. Len(s) /\ at \in 0 .. Len(s) + 1 /\ From(s, k) = From(s, k - 1) \cup {at}
    BY <1>0 DEF From
  <2>2. p[at] = Piece(s, p, at)
    BY <1>1, <2>1
  <2>3. CASE at = 0
    <3>1. p[at] = <<>>
      BY <2>2, <2>3 DEF Piece
    <3> QED BY <1>3, <2>1, <3>1, EmptyText
  <2>4. CASE at \in 1 .. Len(s)
    <3> DEFINE j == Skip(s, at)
    <3>1. j \in {0} \cup (at .. Len(s))
      BY <2>4, SkipForward
    <3>2. CASE j = 0
      <4>1. p[at] = <<>>
        BY <1>0, <2>2, <2>4, <3>2 DEF Piece
      <4> QED BY <1>3, <2>1, <4>1, EmptyText
    <3>3. CASE j # 0
      <4>1. p[at] = <<s[j]>> \o p[j + 1]
        BY <1>0, <2>2, <2>4, <3>3 DEF Piece
      <4>2. j + 1 \in From(s, k - 1)
        BY <1>0, <3>1, <3>3 DEF From
      <4>3. IsText(p[j + 1])
        BY <1>3, <4>2
      <4>4. IsText(p[at])
        BY <4>1, <4>3, CharacterText, Concatenation
      <4> QED BY <1>3, <2>1, <4>4
    <3> QED BY <3>2, <3>3
  <2> QED BY <1>0, <2>1, <2>3, <2>4
<1>4. 0 .. Len(s) + 1 \subseteq S
  <2>1. Len(s) + 1 \in Nat /\ 0 \in S
    BY <1>0, <1>2
  <2>2. \A k \in 1 .. Len(s) + 1 : k - 1 \in S => k \in S
    BY <1>3
  <2> HIDE DEF S
  <2> QED BY <2>1, <2>2, AllIndexes
<1>5. Len(s) + 1 \in S /\ 1 \in From(s, Len(s) + 1)
  BY <1>0, <1>4 DEF From
<1>6. IsText(p[1])
  BY <1>5
<1>7. OutBuffer(s) = p[1]
  BY DEF OutBuffer, Pieces, p
<1> QED BY <1>6, <1>7

-----------------------------------------------------------------------------
(* The line.  Of what UART::out was called for (said), the rest is still   *)
(* to be sent; what was before it has gone out in order, except what it    *)
(* gave up.                                                                *)

Passed(rest, said) == Len(said) - Len(rest)
Place(gone, i) == i - Cardinality({d \in gone : d < i})

LineIs(out, rest, said, gone) ==
    /\ IsText(out) /\ IsText(rest) /\ IsText(said)
    /\ Passed(rest, said) \in Nat
    /\ \A k \in 1 .. Len(rest) : rest[k] = said[Passed(rest, said) + k]
    /\ gone \in SUBSET (1 .. Passed(rest, said))
    /\ Len(out) = Passed(rest, said) - Cardinality(gone)
    /\ \A i \in (1 .. Passed(rest, said)) \ gone :
          /\ Place(gone, i) \in 1 .. Len(out)
          /\ out[Place(gone, i)] = said[i]

LEMMA FinitelyGone ==
  ASSUME NEW n \in Nat, NEW gone \in SUBSET (1 .. n)
  PROVE  IsFiniteSet(gone) /\ Cardinality(gone) \in Nat
<1>1. IsFiniteSet(1 .. n)
  BY FS_Interval
<1>2. IsFiniteSet(gone)
  BY <1>1, FS_Subset
<1> QED BY <1>2, FS_CardinalityType

LEMMA Saying ==
  ASSUME NEW out, NEW said, NEW gone, NEW s, IsText(s), LineIs(out, <<>>, said, gone)
  PROVE  LineIs(out, s, said \o s, gone)
<1>1. IsText(said) /\ Len(said) \in Nat /\ Len(s) \in Nat
  BY DEF LineIs, IsText
<1>2. /\ IsText(said \o s)
      /\ Len(said \o s) = Len(said) + Len(s)
      /\ \A k \in 1 .. Len(said) : (said \o s)[k] = said[k]
      /\ \A k \in 1 .. Len(s) : (said \o s)[Len(said) + k] = s[k]
  BY <1>1, Concatenation
<1>3. Passed(<<>>, said) = Len(said) /\ Passed(s, said \o s) = Len(said)
  BY <1>1, <1>2, EmptyText DEF Passed
<1>4. \A i \in (1 .. Len(said)) \ gone :
         /\ Place(gone, i) \in 1 .. Len(out)
         /\ out[Place(gone, i)] = (said \o s)[i]
  BY <1>2, <1>3 DEF LineIs
<1> QED BY <1>1, <1>2, <1>3, <1>4 DEF LineIs

\* What a byte leaves that has been dealt with.
LEMMA NextOfRest ==
  ASSUME NEW out, NEW rest, NEW said, NEW gone, LineIs(out, rest, said, gone), rest # <<>>
  PROVE  /\ Passed(rest, said) \in Nat
         /\ Passed(Tail(rest), said) = Passed(rest, said) + 1
         /\ IsText(Tail(rest))
         /\ \A k \in 1 .. Len(Tail(rest)) : Tail(rest)[k] = said[Passed(Tail(rest), said) + k]
         /\ rest[1] = said[Passed(rest, said) + 1]
         /\ IsFiniteSet(gone) /\ Cardinality(gone) \in Nat
         /\ Passed(rest, said) + 1 \notin gone
<1>1. Len(said) \in Nat /\ Len(rest) \in Nat /\ Passed(rest, said) \in Nat
  BY DEF LineIs, IsText
<1>2. /\ Len(rest) > 0 /\ IsText(Tail(rest)) /\ Len(Tail(rest)) = Len(rest) - 1
      /\ \A k \in 1 .. Len(rest) - 1 : Tail(rest)[k] = rest[k + 1]
  BY Remainder DEF LineIs
<1>3. Passed(Tail(rest), said) = Passed(rest, said) + 1
  BY <1>1, <1>2 DEF Passed
<1>4. ASSUME NEW k \in 1 .. Len(Tail(rest))
      PROVE  Tail(rest)[k] = said[Passed(Tail(rest), said) + k]
  <2>1. k \in 1 .. Len(rest) - 1 /\ k + 1 \in 1 .. Len(rest)
    BY <1>1, <1>2
  <2>2. rest[k + 1] = said[Passed(rest, said) + (k + 1)]
    BY <2>1 DEF LineIs
  <2>3. Passed(rest, said) + (k + 1) = Passed(Tail(rest), said) + k
    BY <1>1, <1>3
  <2> QED BY <1>2, <2>1, <2>2, <2>3
<1>5. rest[1] = said[Passed(rest, said) + 1]
  BY <1>1, <1>2 DEF LineIs
<1>6. gone \in SUBSET (1 .. Passed(rest, said))
  BY DEF LineIs
<1>7. IsFiniteSet(gone) /\ Cardinality(gone) \in Nat
  BY <1>1, <1>6, FinitelyGone
<1>8. Passed(rest, said) + 1 \notin gone
  BY <1>1, <1>6
<1> QED BY <1>1, <1>2, <1>3, <1>4, <1>5, <1>7, <1>8

\* Giving a byte up moves no other.
LEMMA GivingUp ==
  ASSUME NEW out, NEW rest, NEW said, NEW gone, LineIs(out, rest, said, gone), rest # <<>>
  PROVE  LineIs(out, Tail(rest), said, gone \cup {Passed(rest, said) + 1})
<1> DEFINE n == Passed(rest, said)
           gone2 == gone \cup {n + 1}
<1>1. /\ n \in Nat /\ Passed(Tail(rest), said) = n + 1 /\ IsText(Tail(rest))
      /\ \A k \in 1 .. Len(Tail(rest)) : Tail(rest)[k] = said[Passed(Tail(rest), said) + k]
      /\ IsFiniteSet(gone) /\ Cardinality(gone) \in Nat /\ n + 1 \notin gone
  BY NextOfRest
<1>2. /\ IsText(out) /\ IsText(said) /\ gone \in SUBSET (1 .. n)
      /\ Len(out) = n - Cardinality(gone)
      /\ \A i \in (1 .. n) \ gone : /\ Place(gone, i) \in 1 .. Len(out)
                                    /\ out[Place(gone, i)] = said[i]
  BY DEF LineIs
<1>3. Cardinality(gone2) = Cardinality(gone) + 1
  BY <1>1, FS_AddElement
<1> HIDE DEF n
<1>4. Len(out) = n + 1 - Cardinality(gone2)
  <2> HIDE DEF gone2
  <2> QED BY <1>1, <1>2, <1>3
<1>5. gone2 \in SUBSET (1 .. n + 1)
  BY <1>1, <1>2
<1>6. ASSUME NEW i \in (1 .. n + 1) \ gone2
      PROVE  Place(gone2, i) \in 1 .. Len(out) /\ out[Place(gone2, i)] = said[i]
  <2>1. i \in (1 .. n) \ gone
    BY <1>1
  <2>2. {d \in gone2 : d < i} = {d \in gone : d < i}
    BY <1>1, <2>1
  <2>3. Place(gone2, i) = Place(gone, i)
    BY <2>2 DEF Place
  <2> QED BY <1>2, <2>1, <2>3
<1> HIDE DEF gone2
<1>7. LineIs(out, Tail(rest), said, gone2)
  <2> SUFFICES /\ Passed(Tail(rest), said) \in Nat
               /\ gone2 \in SUBSET (1 .. Passed(Tail(rest), said))
               /\ Len(out) = Passed(Tail(rest), said) - Cardinality(gone2)
               /\ \A i \in (1 .. Passed(Tail(rest), said)) \ gone2 :
                     /\ Place(gone2, i) \in 1 .. Len(out)
                     /\ out[Place(gone2, i)] = said[i]
    BY <1>1, <1>2 DEF LineIs
  <2>1. Passed(Tail(rest), said) = n + 1 /\ n + 1 \in Nat
    BY <1>1
  <2>2. \A i \in (1 .. n + 1) \ gone2 : /\ Place(gone2, i) \in 1 .. Len(out)
                                        /\ out[Place(gone2, i)] = said[i]
    BY <1>6
  <2>3. gone2 \in SUBSET (1 .. Passed(Tail(rest), said))
    BY <1>5, <2>1
  <2>4. Len(out) = Passed(Tail(rest), said) - Cardinality(gone2)
    <3>1. Cardinality(gone2) \in Nat /\ n \in Nat
      BY <1>1, <1>3
    <3> QED BY <1>4, <2>1, <3>1
  <2>5. \A i \in (1 .. Passed(Tail(rest), said)) \ gone2 :
           Place(gone2, i) \in 1 .. Len(out) /\ out[Place(gone2, i)] = said[i]
    BY <2>1, <2>2
  <2> QED BY <2>1, <2>3, <2>4, <2>5
<1> QED BY <1>7 DEF gone2, n

\* A byte that is written comes behind all that went out before.
LEMMA Writing ==
  ASSUME NEW out, NEW rest, NEW said, NEW gone, LineIs(out, rest, said, gone), rest # <<>>
  PROVE  LineIs(out \o <<rest[1]>>, Tail(rest), said, gone)
<1> DEFINE n == Passed(rest, said)
           out2 == out \o <<rest[1]>>
<1>1. /\ n \in Nat /\ Passed(Tail(rest), said) = n + 1 /\ IsText(Tail(rest))
      /\ \A k \in 1 .. Len(Tail(rest)) : Tail(rest)[k] = said[Passed(Tail(rest), said) + k]
      /\ rest[1] = said[n + 1]
      /\ IsFiniteSet(gone) /\ Cardinality(gone) \in Nat /\ n + 1 \notin gone
  BY NextOfRest
<1>2. /\ IsText(out) /\ IsText(said) /\ gone \in SUBSET (1 .. n)
      /\ Len(out) = n - Cardinality(gone)
      /\ \A i \in (1 .. n) \ gone : /\ Place(gone, i) \in 1 .. Len(out)
                                    /\ out[Place(gone, i)] = said[i]
  BY DEF LineIs
<1> HIDE DEF n
<1>3. Len(out) \in Nat
  BY <1>2 DEF IsText
<1>4. /\ IsText(out2) /\ Len(out2) = Len(out) + 1
      /\ \A k \in 1 .. Len(out) : out2[k] = out[k]
      /\ out2[Len(out) + 1] = rest[1]
  <2>1. IsText(<<rest[1]>>) /\ Len(<<rest[1]>>) = 1 /\ <<rest[1]>>[1] = rest[1] /\ 1 \in 1 .. 1
    BY CharacterText
  <2> QED BY <1>2, <2>1, Concatenation
<1> HIDE DEF out2
<1>5. Len(out2) = n + 1 - Cardinality(gone)
  BY <1>1, <1>2, <1>4
<1>6. ASSUME NEW i \in (1 .. n + 1) \ gone
      PROVE  Place(gone, i) \in 1 .. Len(out2) /\ out2[Place(gone, i)] = said[i]
  <2>1. CASE i \in 1 .. n
    BY <1>2, <1>3, <1>4, <2>1
  <2>2. CASE i = n + 1
    <3>0. \A d \in gone : d < i
      BY <1>1, <1>2, <2>2
    <3>1. {d \in gone : d < i} = gone
      BY <3>0
    <3>2. Place(gone, i) = Len(out) + 1
      <4>1. Place(gone, i) = i - Cardinality(gone)
        BY <3>1 DEF Place
      <4>2. Len(out) = n - Cardinality(gone) /\ n \in Nat /\ Cardinality(gone) \in Nat
        BY <1>1, <1>2
      <4> QED BY <2>2, <4>1, <4>2
    <3> QED BY <1>1, <1>3, <1>4, <2>2, <3>2
  <2> QED BY <1>1, <2>1, <2>2
<1>7. gone \in SUBSET (1 .. n + 1)
  BY <1>1, <1>2
<1>8. LineIs(out2, Tail(rest), said, gone)
  BY <1>1, <1>2, <1>4, <1>5, <1>6, <1>7 DEF LineIs
<1> QED BY <1>8 DEF out2, n

\* Such a line, with the rest behind it, is all that was said, in order.
LEMMA LineIsInOrder ==
  ASSUME LineIs(wire \o holding, todo, sent, dropped)
  PROVE  LineInOrder
<1> DEFINE out == wire \o holding
           n == Passed(todo, sent)
<1>1. /\ IsText(out) /\ IsText(todo) /\ IsText(sent) /\ n \in Nat
      /\ \A k \in 1 .. Len(todo) : todo[k] = sent[n + k]
      /\ dropped \in SUBSET (1 .. n)
      /\ Len(out) = n - Cardinality(dropped)
      /\ \A i \in (1 .. n) \ dropped : /\ Place(dropped, i) \in 1 .. Len(out)
                                       /\ out[Place(dropped, i)] = sent[i]
  BY DEF LineIs
<1>2. /\ Len(out) \in Nat /\ Len(todo) \in Nat /\ Len(sent) \in Nat
      /\ Len(sent) = n + Len(todo)
  BY <1>1 DEF IsText, Passed
<1> HIDE DEF out, n
<1>3. Cardinality(dropped) \in Nat
  BY <1>1, FinitelyGone
<1>4. /\ Len(out \o todo) = Len(out) + Len(todo)
      /\ \A k \in 1 .. Len(out) : (out \o todo)[k] = out[k]
      /\ \A k \in 1 .. Len(todo) : (out \o todo)[Len(out) + k] = todo[k]
  <2>1. IsText(out) /\ IsText(todo)
    BY <1>1
  <2> QED BY <2>1, Concatenation
<1>5. Len(out \o todo) = Len(sent) - Cardinality(dropped)
  BY <1>1, <1>2, <1>3, <1>4
<1>6. ASSUME NEW i \in (1 .. Len(sent)) \ dropped
      PROVE  (out \o todo)[Place(dropped, i)] = sent[i]
  <2>1. CASE i \in 1 .. n
    BY <1>1, <1>4, <2>1
  <2>2. CASE i \in n + 1 .. Len(sent)
    <3>0. \A d \in dropped : d < i
      BY <1>1, <1>2, <2>2
    <3>1. {d \in dropped : d < i} = dropped
      BY <3>0
    <3>2. Place(dropped, i) = Len(out) + (i - n)
      <4>1. Place(dropped, i) = i - Cardinality(dropped)
        BY <3>1 DEF Place
      <4>2. Len(out) = n - Cardinality(dropped) /\ n \in Nat /\ i \in Int
        BY <1>1, <1>2, <2>2
      <4> QED BY <1>3, <4>1, <4>2
    <3>3. i - n \in 1 .. Len(todo) /\ n + (i - n) = i
      BY <1>1, <1>2, <2>2
    <3> QED BY <1>1, <1>4, <3>2, <3>3
  <2>3. i \in 1 .. n \/ i \in n + 1 .. Len(sent)
    <3>1. n \in Nat /\ Len(sent) \in Nat /\ i \in 1 .. Len(sent)
      BY <1>1, <1>2
    <3> QED BY <3>1
  <2> QED BY <2>1, <2>2, <2>3
<1> QED BY <1>5, <1>6 DEF LineInOrder, Place, out

-----------------------------------------------------------------------------
(* The inductive invariant.                                                *)

CIInv ==
    /\ DOMAIN uint_to_str_buf = Cells
    /\ DOMAIN int_to_str_buf = Cells
    /\ IsText(wire) /\ IsText(holding)
    /\ LineIs(wire \o holding, todo, sent, dropped)

LEMMA ConsoleInit == CInit => CIInv
<1> SUFFICES ASSUME CInit PROVE CIInv
  OBVIOUS
<1>1. /\ wire = <<>> /\ holding = <<>> /\ todo = <<>> /\ sent = <<>> /\ dropped = {}
      /\ DOMAIN uint_to_str_buf = Cells /\ DOMAIN int_to_str_buf = Cells
  BY DEF CInit, Cells
<1>2. wire \o holding = <<>>
  BY <1>1, EmptyText, EmptyConcatenation
<1>3. Passed(todo, sent) = 0 /\ 1 .. 0 = {}
  BY <1>1, EmptyText DEF Passed
<1>4. Cardinality({}) = 0
  BY FS_EmptySet
<1>5. LineIs(wire \o holding, todo, sent, dropped)
  BY <1>1, <1>2, <1>3, <1>4, EmptyText DEF LineIs
<1> QED BY <1>1, <1>5, EmptyText DEF CIInv

\* Steps that say something say texts.
LEMMA SayingInv ==
  ASSUME CIInv, todo = <<>>, NEW s, IsText(s), Say(s), UNCHANGED <<wire, holding, dropped>>
  PROVE  LineIs(wire \o holding, todo, sent, dropped)' /\ IsText(wire)' /\ IsText(holding)'
<1>1. LineIs(wire \o holding, s, sent \o s, dropped)
  BY Saying DEF CIInv
<1> QED BY <1>1 DEF Say, CIInv

LEMMA FormattingInv ==
  ASSUME CIInv, TextsArePassed,
         dbgmsg \/ AtEnd \/ PlainCharacter \/ PercentAtEnd \/ Unrecognized
           \/ FormatText \/ FormatPiece \/ FormatNatural \/ FormatInteger
  PROVE  CIInv'
<1>1. CASE dbgmsg \/ AtEnd \/ FormatText
  <2>1. UNCHANGED <<wire, holding, dropped, todo, sent, uint_to_str_buf, int_to_str_buf>>
    BY <1>1 DEF dbgmsg, AtEnd, FormatText, Uart, SayNothing
  <2> QED BY <2>1 DEF CIInv
<1>2. CASE PlainCharacter
  <2>1. /\ todo = <<>> /\ Say(<<frame.text[here]>>) /\ UNCHANGED <<wire, holding, dropped>>
        /\ UNCHANGED <<uint_to_str_buf, int_to_str_buf>>
    BY <1>2 DEF PlainCharacter, Running, Uart
  <2>2. IsText(<<frame.text[here]>>)
    BY CharacterText
  <2> QED BY <2>1, <2>2, SayingInv DEF CIInv
<1>3. CASE PercentAtEnd
  <2>1. /\ todo = <<>> /\ Say(<<"%">>) /\ UNCHANGED <<wire, holding, dropped>>
        /\ UNCHANGED <<uint_to_str_buf, int_to_str_buf>>
    BY <1>3 DEF PercentAtEnd, AtFormat, Running, Uart
  <2>2. IsText(<<"%">>)
    BY CharacterText
  <2> QED BY <2>1, <2>2, SayingInv DEF CIInv
<1>4. CASE Unrecognized
  <2> DEFINE s == IF found.kind = "percent" THEN <<"%">> ELSE <<>>
  <2>1. /\ todo = <<>> /\ Say(s) /\ UNCHANGED <<wire, holding, dropped>>
        /\ UNCHANGED <<uint_to_str_buf, int_to_str_buf>>
    BY <1>4 DEF Unrecognized, AtFormat, Running, Uart
  <2>2. IsText(s)
    BY CharacterText, EmptyText
  <2> HIDE DEF s
  <2> QED BY <2>1, <2>2, SayingInv DEF CIInv
<1>5. CASE FormatPiece
  <2> DEFINE s == CASE found.kind = "sl" -> OutBuffer(arg)
                    [] found.kind = "x" -> Hexadecimal
                    [] found.kind = "c" -> <<arg>>
                    [] found.kind = "b" -> Boolean(arg)
  <2>1. /\ todo = <<>> /\ Say(s) /\ UNCHANGED <<wire, holding, dropped>>
        /\ UNCHANGED <<uint_to_str_buf, int_to_str_buf>>
        /\ found.kind \in {"sl", "x", "c", "b"}
    BY <1>5 DEF FormatPiece, AtFormat, Running, Uart
  <2>2. /\ found.kind = "sl" => s = OutBuffer(arg)
        /\ found.kind = "x" => s = Hexadecimal
        /\ found.kind = "c" => s = <<arg>>
        /\ found.kind = "b" => s = Boolean(arg)
    OBVIOUS
  <2> HIDE DEF s
  <2>3. ASSUME found.kind = "sl" PROVE IsText(s)
    <3>1. AtFormat({"sl"})
      BY <1>5, <2>3 DEF FormatPiece, AtFormat
    <3>2. arg \in Seq(STRING)
      BY <3>1 DEF TextsArePassed
    <3> QED BY <2>2, <2>3, <3>2, OutBufferIsText
  <2>4. IsText(Hexadecimal)
    <3>1. Hexadecimal \in Seq({"0", "x", "H"})
      BY DEF Hexadecimal
    <3> QED BY <3>1, SeqIsText
  <2>5. IsText(Boolean(arg))
    <3> DEFINE S == {"T", "F", "ESC", "m"}
               shown == IF arg THEN <<"T">> ELSE <<"F">>
    <3>1. <<"T">> \in Seq(S) /\ <<"F">> \in Seq(S) /\ <<"ESC", "m">> \in Seq(S)
      OBVIOUS
    <3> HIDE DEF S
    <3>2. shown \in Seq(S)
      BY <3>1
    <3>3. Boolean(arg) = IF HideColors THEN shown ELSE <<"ESC", "m">> \o shown \o <<"ESC", "m">>
      BY DEF Boolean
    <3> HIDE DEF shown
    <3>4. <<"ESC", "m">> \o shown \in Seq(S)
      BY <3>1, <3>2, ConcatProperties
    <3>5. <<"ESC", "m">> \o shown \o <<"ESC", "m">> \in Seq(S)
      BY <3>1, <3>4, ConcatProperties
    <3>6. Boolean(arg) \in Seq(S)
      BY <3>2, <3>3, <3>5
    <3> QED BY <3>6, SeqIsText
  <2>6. IsText(s)
    BY <2>1, <2>2, <2>3, <2>4, <2>5, CharacterText
  <2> QED BY <2>1, <2>6, SayingInv DEF CIInv
<1>6. CASE FormatNatural
  <2> DEFINE v == Unsigned(arg, Bits(found.kind))
  <2>1. /\ todo = <<>> /\ UNCHANGED <<wire, holding, dropped>>
        /\ uint_to_str_buf' = WriteDigits(uint_to_str_buf, 0, v)
        /\ Say(CString(uint_to_str_buf'))
        /\ UNCHANGED int_to_str_buf
    BY <1>6 DEF FormatNatural, AtFormat, Running, Uart
  <2> HIDE DEF v
  <2>2. DOMAIN uint_to_str_buf' = Cells
    BY <2>1, WritingKeepsCells DEF CIInv
  <2>3. IsText(CString(uint_to_str_buf'))
    BY <2>2, CStringIsText
  <2> QED BY <2>1, <2>2, <2>3, SayingInv DEF CIInv, Cells
<1>7. CASE FormatInteger
  <2> DEFINE v == Signed(arg, Bits(found.kind))
  <2>1. /\ todo = <<>> /\ UNCHANGED <<wire, holding, dropped>>
        /\ int_to_str_buf' = int_to_string(int_to_str_buf, v)
        /\ Say(CString(int_to_str_buf'))
        /\ UNCHANGED uint_to_str_buf
    BY <1>7 DEF FormatInteger, AtFormat, Running, Uart
  <2> HIDE DEF v
  <2>2. DOMAIN int_to_str_buf' = Cells
    BY <2>1, WritingKeepsCells DEF CIInv
  <2>3. IsText(CString(int_to_str_buf'))
    BY <2>2, CStringIsText
  <2> QED BY <2>1, <2>2, <2>3, SayingInv DEF CIInv, Cells
<1> QED BY <1>1, <1>2, <1>3, <1>4, <1>5, <1>6, <1>7

LEMMA SendingInv ==
  ASSUME CIInv, OutUninitialized \/ Spin \/ GiveUp \/ WriteByte \/ Transmit
  PROVE  CIInv'
<1>0. /\ IsText(wire) /\ IsText(holding) /\ LineIs(wire \o holding, todo, sent, dropped)
      /\ Len(sent) \in Nat /\ Len(todo) \in Nat
  BY DEF CIInv, LineIs, IsText
<1>1. CASE OutUninitialized \/ GiveUp
  <2>1. /\ todo # <<>> /\ todo' = Tail(todo)
        /\ dropped' = dropped \cup {Passed(todo, sent) + 1}
        /\ UNCHANGED <<wire, holding, sent, uint_to_str_buf, int_to_str_buf>>
    BY <1>1 DEF OutUninitialized, GiveUp, Sending, NextByte, Formatting, Index, Passed
  <2>2. LineIs(wire \o holding, Tail(todo), sent, dropped \cup {Passed(todo, sent) + 1})
    BY <1>0, <2>1, GivingUp
  <2> QED BY <2>1, <2>2 DEF CIInv
<1>2. CASE Spin
  BY <1>2 DEF Spin, Formatting, CIInv
<1>3. CASE WriteByte
  <2>1. /\ todo # <<>> /\ todo' = Tail(todo) /\ holding = <<>> /\ holding' = <<todo[1]>>
        /\ UNCHANGED <<wire, dropped, sent, uint_to_str_buf, int_to_str_buf>>
    BY <1>3 DEF WriteByte, Sending, NextByte, Formatting
  <2>2. wire \o holding = wire
    BY <1>0, <2>1, EmptyConcatenation
  <2>3. LineIs(wire \o <<todo[1]>>, Tail(todo), sent, dropped)
    BY <1>0, <2>1, <2>2, Writing
  <2>4. IsText(holding')
    BY <2>1, CharacterText
  <2> QED BY <1>0, <2>1, <2>3, <2>4 DEF CIInv
<1>4. CASE Transmit
  <2>1. /\ wire' = wire \o holding /\ holding' = <<>>
        /\ UNCHANGED <<todo, dropped, sent, uint_to_str_buf, int_to_str_buf>>
    BY <1>4 DEF Transmit, Formatting
  <2>2. IsText(wire')
    BY <1>0, <2>1, Concatenation
  <2>3. wire' \o holding' = wire \o holding
    BY <2>1, <2>2, EmptyConcatenation
  <2>4. IsText(holding')
    BY <2>1, EmptyText
  <2> QED BY <1>0, <2>1, <2>2, <2>3, <2>4 DEF CIInv
<1> QED BY <1>1, <1>2, <1>3, <1>4

\* Nothing that dbgmsg or the transmitter does breaks the order of the line.
LEMMA ConsoleStep == CIInv /\ TextsArePassed /\ [CNext]_cvars => CIInv'
<1> SUFFICES ASSUME CIInv, TextsArePassed, [CNext]_cvars PROVE CIInv'
  OBVIOUS
<1>1. CASE UNCHANGED cvars
  BY <1>1 DEF cvars, CIInv
<1>2. CASE CNext
  BY <1>2, FormattingInv, SendingInv DEF CNext, Kernel
<1> QED BY <1>1, <1>2

(* If callers pass a text for each %sl, the line carries what UART::out    *)
(* was asked for, in order, without what it gave up: however slow the      *)
(* transmitter is, out never overwrites the byte in it (uart.cc).          *)
THEOREM LineStaysInOrder == CSpec => ([]TextsArePassed => []LineInOrder)
<1>1. CInit => CIInv
  BY ConsoleInit
<1>2. CIInv /\ TextsArePassed /\ [CNext]_cvars => CIInv'
  BY ConsoleStep
<1>3. CIInv => LineInOrder
  BY LineIsInOrder DEF CIInv
<1> QED BY <1>1, <1>2, <1>3, PTL DEF CSpec

=============================================================================
