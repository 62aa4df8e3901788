------------------------------ MODULE PageLoops ------------------------------
(***************************************************************************)
(* The loops of lock_pages, free_pages, request_page and request_pages,    *)
(* one iteration per step, run from an arbitrary state of the allocator.   *)
(* PageFrames gives each of them as one function; here the two meet.       *)
(***************************************************************************)
EXTENDS PageFrames

CONSTANTS
    Starts,     \* the allocator states the loops start from
    Addresses,  \* first frames of the ranges that are locked or freed
    Counts      \* numbers of pages asked for, 0 and 1 among them

\* The globals a call finds have their types, and the number of pages is a
\* uint64_t.
ASSUME PageLoopsAssumption ==
    /\ Word \in Nat /\ 1 < Word
    /\ \A s \in Starts : PageFramesType(s)
    /\ Addresses \subseteq Nat
    /\ Counts \subseteq Counter

VARIABLES
    call,    \* the running call: function, first frame, number of pages
    start,   \* the globals it started from
    m,       \* the globals now
    i,       \* lock_pages, free_pages, request_pages: the loop counter
    index,   \* request_pages: the end of the run being measured
    run,     \* request_pages: its length
    pc,      \* "for", "while" or "done"
    out      \* the frame returned, and whether panic() was called

vars == <<call, start, m, i, index, run, pc, out>>
locals == <<call, start, i, index, run>>

Return(frame, panics) ==
    /\ pc' = "done"
    /\ out' = [frame |-> frame, panics |-> panics]
    /\ UNCHANGED locals

Calls ==
    [function : {"lock_pages", "free_pages"}, first : Addresses, n : Counts]
      \cup [function : {"request_page"}, first : {0}, n : {1}]
      \cup [function : {"request_pages"}, first : {0}, n : Counts]

Init ==
    /\ start \in Starts
    /\ call \in Calls
    /\ m = start
    /\ i = IF call.function = "request_pages" THEN start.FirstFreePage ELSE 0
    /\ index = 0
    /\ run = 0
    /\ pc = "for"
    /\ out = [frame |-> nullptr, panics |-> FALSE]

In(function, label) == call.function = function /\ pc = label

-----------------------------------------------------------------------------
(* for (i = 0; i < numberOfPages; ++i) lock_page(...) or free_page(...)    *)

PageLoop(function, Page(_, _)) ==
    /\ In(function, "for")
    /\ \/ /\ i < call.n
          /\ m' = Page(m, call.first + i)
          /\ i' = i + 1
          /\ UNCHANGED <<call, start, index, run, pc, out>>
       \/ /\ i = call.n
          /\ Return(nullptr, FALSE)
          /\ UNCHANGED m

LockPages == PageLoop("lock_pages", lock_page)
FreePages == PageLoop("free_pages", free_page)

-----------------------------------------------------------------------------
(* request_page: the loop variable is the global FirstFreePage.            *)

SkipLocked ==
    /\ In("request_page", "for")
    /\ m.FirstFreePage < m.TotalPages
    /\ locked(m, m.FirstFreePage)
    /\ m' = [m EXCEPT !.FirstFreePage = @ + 1]
    /\ UNCHANGED <<call, start, i, index, run, pc, out>>

EatPage ==
    /\ In("request_page", "for")
    /\ m.FirstFreePage < m.TotalPages
    /\ ~locked(m, m.FirstFreePage)
    /\ m' = [lock_page(m, m.FirstFreePage) EXCEPT !.FirstFreePage = @ + 1]
    /\ Return(m.FirstFreePage, FALSE)

RanOut ==
    /\ In("request_page", "for")
    /\ m.FirstFreePage >= m.TotalPages
    /\ Return(nullptr, TRUE)
    /\ UNCHANGED m

-----------------------------------------------------------------------------
(* request_pages                                                           *)

Reject ==
    /\ In("request_pages", "for")
    /\ i = start.FirstFreePage
    /\ \/ call.n = 0
       \/ call.n > 1 /\ (call.n > m.TotalFreePages \/ call.n > m.MaxFreePagesInARow)
    /\ Return(nullptr, FALSE)
    /\ UNCHANGED m

OnePage ==
    /\ In("request_pages", "for")
    /\ call.n = 1
    /\ call' = [call EXCEPT !.function = "request_page"]
    /\ UNCHANGED <<start, m, i, index, run, pc, out>>

Searching(label) ==
    /\ In("request_pages", label)
    /\ call.n \in 2 .. m.TotalFreePages
    /\ call.n <= m.MaxFreePagesInARow

\* Mutant: a locked frame is skipped without moving on.
SkipLockedRun_Stuck ==
    /\ Searching("for")
    /\ i < B!length(m.PageMap)
    /\ locked(m, i)
    /\ UNCHANGED vars

SkipLockedRun ==
    /\ Searching("for")
    /\ i < B!length(m.PageMap)
    /\ locked(m, i)
    /\ i' = i + 1
    /\ UNCHANGED <<call, start, m, index, run, pc, out>>

StartRun ==
    /\ Searching("for")
    /\ i < B!length(m.PageMap)
    /\ ~locked(m, i)
    /\ index' = i
    /\ run' = 0
    /\ pc' = "while"
    /\ UNCHANGED <<call, start, m, i, out>>

NoRun ==
    /\ Searching("for")
    /\ i >= B!length(m.PageMap)
    /\ Return(nullptr, FALSE)
    /\ UNCHANGED m

\* One turn of the while loop: the end of the map is looked at before the
\* length of the run.
GrowRun ==
    /\ Searching("while")
    /\ ~locked(m, index)
    /\ \/ /\ index + 1 >= B!length(m.PageMap)
          /\ Return(nullptr, TRUE)
          /\ UNCHANGED m
       \/ /\ index + 1 < B!length(m.PageMap)
          /\ run + 1 >= call.n
          /\ m' = lock_pages(m, Frames(i, call.n))
          /\ Return(i, FALSE)
       \/ /\ index + 1 < B!length(m.PageMap)
          /\ run + 1 < call.n
          /\ run' = run + 1
          /\ index' = index + 1
          /\ UNCHANGED <<call, start, m, i, pc, out>>

\* The run was too short: i = index, and the for loop adds one.
EndRun ==
    /\ Searching("while")
    /\ locked(m, index)
    /\ i' = index + 1
    /\ pc' = "for"
    /\ UNCHANGED <<call, start, m, index, run, out>>

Done == pc = "done" /\ UNCHANGED vars

Step ==
    \/ LockPages \/ FreePages
    \/ SkipLocked \/ EatPage \/ RanOut
    \/ Reject \/ OnePage \/ SkipLockedRun \/ StartRun \/ NoRun
    \/ GrowRun \/ EndRun

Next == Step \/ Done

Spec == Init /\ [][Next]_vars /\ WF_vars(Step)

-----------------------------------------------------------------------------
Expected ==
    CASE call.function = "lock_pages" ->
            Answer(lock_pages(start, Frames(call.first, call.n)), nullptr, FALSE)
      [] call.function = "free_pages" ->
            Answer(free_pages(start, Frames(call.first, call.n)), nullptr, FALSE)
      [] call.function = "request_page" -> request_page(start)
      [] call.function = "request_pages" -> request_pages(start, call.n)

\* What the loops compute is what the one-step functions of PageFrames say:
\* the same bits, the same counters with their wrap-around, the same search
\* cursor, the same frame, and a panic in the same cases.  In particular
\* skipping a run that is too short never skips a run that would have fitted.
LoopsAgree ==
    pc = "done" => Expected = Answer(m, out.frame, out.panics)

\* No loop runs for ever, whatever the bitmap holds: the search in
\* request_pages ends even where short runs and locked pages alternate up to
\* the last index it looks at.
LoopsEnd == <>(pc = "done")
=============================================================================
