---------------------------- MODULE StringValues ----------------------------
(***************************************************************************)
(* What String and SinglyLinkedList<String> promise: strings are values.   *)
(* An object is one of the caller's strings or an item of the list; an     *)
(* operation changes the one it is called on and no other, except that a   *)
(* move empties its source.                                                *)
(***************************************************************************)
EXTENDS Integers, Sequences, SequencesExt

CONSTANTS
    Name,       \* the caller's strings
    Literal     \* C strings that the caller passes

VARIABLES
    text,     \* the strings there are: a function on some of the names
    items,    \* the list
    did       \* history: the last operation

vars == <<text, items, did>>

Init == text = <<>> /\ items = <<>> /\ did = <<>>

Object == DOMAIN text \cup DOMAIN items
Value(p) == IF p \in DOMAIN items THEN items[p] ELSE text[p]

\* Some objects get the values new gives them.
Become(new) ==
    /\ text' = [n \in DOMAIN text |-> IF n \in DOMAIN new THEN new[n] ELSE text[n]]
    /\ items' = [i \in DOMAIN items |-> IF i \in DOMAIN new THEN new[i] ELSE items[i]]

Construct(n, t, from) ==
    /\ did' = <<"construct", n>> \o from
    /\ n \in Name \ DOMAIN text
    /\ text' = [m \in DOMAIN text \cup {n} |-> IF m = n THEN t ELSE text[m]]
    /\ UNCHANGED items

Destroy(n) ==
    /\ did' = <<"destroy", n>>
    /\ text' = [m \in DOMAIN text \ {n} |-> text[m]]
    /\ UNCHANGED items

Copy(p, q) == did' = <<"copy", p, q>> /\ Become([o \in {p} |-> Value(q)])
Move(p, q) ==
    /\ did' = <<"move", p, q>>
    /\ Become([o \in {p, q} |-> IF o = p THEN Value(q) ELSE <<>>])

append(p, t, from) ==
    /\ did' = <<"append", p>> \o from
    /\ Become([o \in {p} |-> Value(p) \o t])

\* The character at index belongs to the right side.
Chop(p, index, side) ==
    /\ did' = <<"chop", p, index, side>>
    /\ Become([o \in {p} |-> IF side = "left" THEN SubSeq(Value(p), 1, index)
                             ELSE SubSeq(Value(p), index + 1, Len(Value(p)))])

Add(p) == did' = <<"add", p>> /\ items' = <<Value(p)>> \o items /\ UNCHANGED text

remove(index) ==
    /\ did' = <<"remove", index>>
    /\ items' = RemoveAt(items, index + 1)
    /\ UNCHANGED text

Clear == did' = <<"clear">> /\ items' = <<>> /\ UNCHANGED text

Next ==
    \/ \E n \in Name :
          \/ \E t \in Literal : Construct(n, t, <<"literal", t>>)
          \/ \E q \in Object : Construct(n, Value(q), <<"object", q>>)
    \/ \E n \in DOMAIN text : Destroy(n)
    \/ \E p \in Object :
          \/ \E q \in Object \ {p} : Copy(p, q) \/ Move(p, q) \/ append(p, Value(q), <<"object", q>>)
          \/ \E t \in Literal : append(p, t, <<"literal", t>>)
          \/ \E index \in 0 .. Len(Value(p)) - 1, side \in {"left", "right"} : Chop(p, index, side)
          \/ Add(p)
    \/ \E index \in 0 .. Len(items) - 1 : remove(index)
    \/ Clear

Spec == Init /\ [][Next]_vars
=============================================================================
