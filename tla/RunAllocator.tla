---------------------------- MODULE RunAllocator ----------------------------
(***************************************************************************)
(* What an allocator of contiguous runs promises its owners, independent   *)
(* of how it searches: every grant is one unbroken run of units of the     *)
(* arena, none of which anybody holds, and only the holder gives units     *)
(* back.  The page allocator (units are page frames) and the heap (units   *)
(* are bytes) both implement it.                                           *)
(***************************************************************************)
EXTENDS Integers

CONSTANT Owner

VARIABLES
    arena,   \* the units the allocator has to give
    held     \* the units each owner has been granted and not given back

vars == <<arena, held>>

Held == UNION {held[o] : o \in Owner}

Contiguous(S) ==
    \E a \in S, b \in S : S = a .. b

Init ==
    /\ arena \subseteq Int
    /\ held = [o \in Owner |-> {}]

\* The arena is handed its memory, or grows.
Grow ==
    /\ arena \subseteq arena'
    /\ UNCHANGED held

Alloc(o) ==
    LET run == held'[o] \ held[o] IN
    /\ Contiguous(run)
    /\ run \subseteq arena
    /\ run \cap Held = {}
    /\ held' = [held EXCEPT ![o] = @ \cup run]
    /\ UNCHANGED arena

Release(o) ==
    /\ held'[o] \subseteq held[o]
    /\ held' = [held EXCEPT ![o] = held'[o]]
    /\ UNCHANGED arena

Next ==
    \/ Grow
    \/ \E o \in Owner : Alloc(o) \/ Release(o)

Spec == Init /\ [][Next]_vars
=============================================================================
