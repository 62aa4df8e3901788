----------------------------- MODULE StringList -----------------------------
(***************************************************************************)
(* String (include/string.hpp) and SinglyLinkedList<String>                *)
(* (include/linked_list.hpp) over the heap they allocate from: who holds   *)
(* which buffer, and what the nodes are linked to.                         *)
(*                                                                         *)
(* A buffer is the sequence of its characters, "nul" the terminator and    *)
(* "junk" a byte that was never written.  new takes any free address, and  *)
(* does not fail, as malloc does not.  An object p is one of the caller's  *)
(* strings, or the item at(p - 1) of the list.  The default constructor,   *)
(* whose ten characters are terminators, and texts with a terminator in    *)
(* them are left out; so is add_end, which calls a function there is not.  *)
(***************************************************************************)
EXTENDS Integers, Sequences, SequencesExt, Functions

CONSTANTS
    Name,         \* the caller's strings
    Character,    \* what a C string consists of
    Literal,      \* C strings that the caller passes
    MaxLength,    \* bound: no string gets longer
    MaxBytes,     \* bound: no step leaves more bytes allocated
    MaxNodes,     \* bound: no list gets longer
    Address       \* where buffers may lie; as many at once, besides, a bound

VARIABLES
    string,       \* the caller's: name -> [Buffer, Length]
    buffer,       \* the heap's arrays of bytes: address -> characters
    node,         \* the heap's list nodes: address -> [Data, Next]
    head, tail, Length,
    did           \* history: the last operation

vars == <<string, buffer, node, head, tail, Length, did>>

nullptr == 0

\* A caller's string is not an index of the list, and no buffer is at nullptr.
ASSUME StringListAssumption ==
    /\ Literal \subseteq Seq(Character)
    /\ MaxLength \in Nat /\ MaxNodes \in Nat
    /\ nullptr \notin Address
    /\ \A n \in Name : n \notin Nat

-----------------------------------------------------------------------------
(* The heap.                                                               *)

Free(h) == Address \ DOMAIN h
Allocate(h) ==
    /\ FoldFunction(LAMBDA cells, sum : Len(cells) + sum, 0, h) <= MaxBytes
    /\ buffer' = h
FreeNode == CHOOSE a \in 1 .. MaxNodes : a \notin DOMAIN node
With(h, a, v) == [x \in DOMAIN h \cup {a} |-> IF x = a THEN v ELSE h[x]]
\* delete of nullptr does nothing.
delete(h, a) == Restrict(h, DOMAIN h \ {a})

-----------------------------------------------------------------------------
(* Strings.                                                                *)

Text(h, s) == IF s.Buffer = nullptr THEN <<>> ELSE SubSeq(h[s.Buffer], 1, s.Length)
Terminated(t) == Append(t, "nul")

\* The list's nodes in order, as at() and remove() walk them.
NodeAt[index \in 0 .. MaxNodes] == IF index = 0 THEN head ELSE node[NodeAt[index - 1]].Next

Objects == DOMAIN string \cup 1 .. Length
Get(p) == IF p \in DOMAIN string THEN string[p] ELSE node[NodeAt[p - 1]].Data
Value(p) == Text(buffer, Get(p))

\* The String objects that new gives a value become it.
Set(new) ==
    /\ string' = [n \in DOMAIN string |-> IF n \in DOMAIN new THEN new[n] ELSE string[n]]
    /\ node' = [a \in DOMAIN node |->
                   IF \E i \in 1 .. Length : NodeAt[i - 1] = a /\ i \in DOMAIN new
                   THEN [node[a] EXCEPT !.Data = new[CHOOSE i \in 1 .. Length : NodeAt[i - 1] = a]]
                   ELSE node[a]]

\* p gets a new buffer with these cells, and the old one is freed once the new
\* one is filled.
Refill(p, cells) ==
    \E a \in Free(buffer) :
        /\ Allocate(delete(With(buffer, a, cells), Get(p).Buffer))
        /\ Set([o \in {p} |-> [Buffer |-> a, Length |-> Len(cells) - 1]])

List == <<head, tail, Length>>

Construct(n, t, from) ==
    /\ n \in Name \ DOMAIN string
    /\ \E a \in Free(buffer) :
           /\ Allocate(With(buffer, a, Terminated(t)))
           /\ string' = With(string, n, [Buffer |-> a, Length |-> Len(t)])
    /\ did' = <<"construct", n>> \o from
    /\ UNCHANGED <<List, node>>

Destroy(n) ==
    /\ n \in DOMAIN string
    /\ buffer' = delete(buffer, string[n].Buffer)
    /\ string' = delete(string, n)
    /\ did' = <<"destroy", n>>
    /\ UNCHANGED <<List, node>>

\* The old buffer is freed before the new one is allocated.
CopyAssign(p, q) ==
    /\ LET freed == delete(buffer, Get(p).Buffer)
       IN  \E a \in Free(freed) :
              /\ Allocate(With(freed, a, Terminated(Text(freed, Get(q)))))
              /\ Set([o \in {p} |-> [Buffer |-> a, Length |-> Get(q).Length]])
    /\ did' = <<"copy", p, q>>
    /\ UNCHANGED List

MoveAssign(p, q) ==
    /\ buffer' = delete(buffer, Get(p).Buffer)
    /\ Set([o \in {p, q} |-> IF o = p THEN Get(q) ELSE [Buffer |-> nullptr, Length |-> 0]])
    /\ did' = <<"move", p, q>>
    /\ UNCHANGED List

\* Mutant: the other string goes first.
AppendString_Swapped(p, q) ==
    /\ Get(p).Length + Get(q).Length <= MaxLength
    /\ Refill(p, Append(Value(q) \o Value(p), "junk"))
    /\ did' = <<"append", p, "object", q>>
    /\ UNCHANGED List

\* operator+ on a String leaves the terminator unwritten; it changes the
\* string it is called on.
AppendString(p, q) ==
    /\ Get(p).Length + Get(q).Length <= MaxLength
    /\ Refill(p, Append(Value(p) \o Value(q), "junk"))
    /\ did' = <<"append", p, "object", q>>
    /\ UNCHANGED List

AppendLiteral(p, t) ==
    /\ Get(p).Length + Len(t) <= MaxLength
    /\ IF t = <<>> THEN UNCHANGED <<string, node, buffer>> ELSE Refill(p, Terminated(Value(p) \o t))
    /\ did' = <<"append", p, "literal", t>>
    /\ UNCHANGED List

ChopLeft(p, index) ==
    /\ index < Get(p).Length
    /\ Refill(p, Terminated(SubSeq(Value(p), 1, index)))
    /\ did' = <<"chop", p, index, "left">>
    /\ UNCHANGED List

\* The right side is measured with strlen: the buffer has its terminator.
ChopRight(p, index) ==
    /\ index < Get(p).Length
    /\ buffer[Get(p).Buffer][Get(p).Length + 1] = "nul"
    /\ Refill(p, Terminated(SubSeq(Value(p), index + 1, Get(p).Length)))
    /\ did' = <<"chop", p, index, "right">>
    /\ UNCHANGED List

-----------------------------------------------------------------------------
(* The list.                                                               *)

\* The node's Data is a copy.
Add(p) ==
    /\ Length < MaxNodes
    /\ \E a \in Free(buffer) :
           /\ Allocate(With(buffer, a, Terminated(Value(p))))
           /\ node' = With(node, FreeNode,
                           [Data |-> [Buffer |-> a, Length |-> Get(p).Length], Next |-> head])
    /\ head' = FreeNode
    /\ tail' = IF tail = nullptr THEN FreeNode ELSE tail
    /\ Length' = Length + 1
    /\ did' = <<"add", p>>
    /\ UNCHANGED string

\* delete of a node destroys its String.
DeleteNode(linked, a) ==
    /\ node' = delete(linked, a)
    /\ buffer' = delete(buffer, node[a].Data.Buffer)

RemoveHead ==
    /\ Length > 0
    /\ DeleteNode(node, head)
    /\ head' = node[head].Next
    /\ Length' = Length - 1
    /\ did' = <<"remove", 0>>
    /\ UNCHANGED <<string, tail>>

\* Mutant: prev is the node that is removed.
remove_Unlinked(index) ==
    /\ index \in 1 .. Length - 1
    /\ LET current == NodeAt[index]
       IN  /\ DeleteNode(node, current)
           /\ tail' = IF node[current].Next = nullptr THEN current ELSE tail
    /\ Length' = Length - 1
    /\ did' = <<"remove", index>>
    /\ UNCHANGED <<string, head>>

remove(index) ==
    /\ index \in 1 .. Length - 1
    /\ LET prev == NodeAt[index - 1]
           current == NodeAt[index]
           next == node[current].Next
       IN  /\ DeleteNode([node EXCEPT ![prev].Next = next], current)
           /\ tail' = IF next = nullptr THEN prev ELSE tail
    /\ Length' = Length - 1
    /\ did' = <<"remove", index>>
    /\ UNCHANGED <<string, head>>

\* ~SinglyLinkedList, and a new list.
DestroyList ==
    /\ node' = <<>>
    /\ buffer' = Restrict(buffer, DOMAIN buffer \ {node[NodeAt[i - 1]].Data.Buffer : i \in 1 .. Length})
    /\ head' = nullptr /\ tail' = nullptr /\ Length' = 0
    /\ did' = <<"clear">>
    /\ UNCHANGED string

Init ==
    /\ string = <<>> /\ buffer = <<>> /\ node = <<>>
    /\ head = nullptr /\ tail = nullptr /\ Length = 0
    /\ did = <<>>

\* An assignment of an object to itself does nothing, nor does adding it.
Next ==
    \/ \E n \in Name, t \in Literal : Construct(n, t, <<"literal", t>>)
    \/ \E n \in Name, q \in Objects : Construct(n, Value(q), <<"object", q>>)
    \/ \E n \in Name : Destroy(n)
    \/ \E p \in Objects, q \in Objects : p # q /\ CopyAssign(p, q)
    \/ \E p \in Objects, q \in Objects : p # q /\ MoveAssign(p, q)
    \/ \E p \in Objects, q \in Objects : p # q /\ AppendString(p, q)
    \/ \E p \in Objects, t \in Literal : AppendLiteral(p, t)
    \/ \E p \in Objects, index \in 0 .. MaxLength - 1 : ChopLeft(p, index)
    \/ \E p \in Objects, index \in 0 .. MaxLength - 1 : ChopRight(p, index)
    \/ \E p \in Objects : Add(p)
    \/ RemoveHead
    \/ \E index \in 1 .. MaxNodes - 1 : remove(index)
    \/ DestroyList

Spec == Init /\ [][Next]_vars

-----------------------------------------------------------------------------
\* The Strings that are alive.
Living == [p \in Objects |-> Get(p)]

\* Every buffer on the heap is one living String's, and a String's buffer is
\* on the heap and long enough; every node is in the list: no operation leaks,
\* frees twice or leaves an object with what it freed.
EveryBufferHasOneOwner ==
    /\ \A p, q \in Objects :
          p # q /\ Living[p].Buffer = Living[q].Buffer => Living[p].Buffer = nullptr
    /\ DOMAIN buffer = {Living[p].Buffer : p \in Objects} \ {nullptr}
    /\ \A p \in Objects : Living[p].Buffer # nullptr => Len(buffer[Living[p].Buffer]) = Living[p].Length + 1
    /\ DOMAIN node = {NodeAt[i - 1] : i \in 1 .. Length}
    /\ Length > 0 => node[NodeAt[Length - 1]].Next = nullptr

text == [n \in DOMAIN string |-> Text(buffer, string[n])]
items == [i \in 1 .. Length |-> Text(buffer, node[NodeAt[i - 1]].Data)]

\* An operation on one string or item changes no other, and the list's items
\* are the copies that were put there, in their order.
Values == INSTANCE StringValues
StringsAreValues == Values!Spec
=============================================================================
