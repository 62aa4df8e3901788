------------------------------- MODULE Bitmap -------------------------------
(***************************************************************************)
(* The bit set of include/bitmap.hpp and kernel/bitmap.cc.                 *)
(*                                                                         *)
(* A bitmap is a record: Size (in BYTES, as in the class), Buffer (the     *)
(* page the buffer starts at) and bits, the set of indexes whose bit is 1. *)
(* The order of the bits within a byte is not visible through get and set. *)
(***************************************************************************)
EXTENDS Integers

InBounds(b, index) == index \div 8 < b.Size

\* The indexes a bitmap of `size' bytes has a bit for.
Indexes(size) == 0 .. 8 * size - 1

init(size, bufferAddress) ==
    [Size |-> size, Buffer |-> bufferAddress, bits |-> {}]

length(b) == b.Size
base(b) == b.Buffer

\* An index past the end reads as 0.
get(b, index) == InBounds(b, index) /\ index \in b.bits

\* set(index, value), and what it returns: an index past the end changes
\* nothing and returns false.
setReturns(b, index) == InBounds(b, index)
set(b, index, value) ==
    IF InBounds(b, index)
    THEN [b EXCEPT !.bits = IF value THEN @ \cup {index} ELSE @ \ {index}]
    ELSE b

BitmapType(b) ==
    /\ b \in [Size : Nat, Buffer : Nat, bits : SUBSET Nat]
    /\ b.bits \subseteq Indexes(b.Size)
=============================================================================
