-------------------------------- MODULE Screen --------------------------------
(***************************************************************************)
(* What the kernel draws once gRend is there: kernel/renderer/renderer.cc, *)
(* and its callers draw_boot_gfx, kmain and panic().  The renderer draws   *)
(* to Target, a copy in memory that swap brings to the framebuffer Render, *)
(* or to Render itself when there was no memory for a copy.                *)
(*                                                                         *)
(* A program is a sequence of calls of the renderer; puts goes character   *)
(* by character, and panic() may come between any two of them.  A pixel is *)
(* the character (or shape) it was drawn for: colours are left out, and a  *)
(* character is the same at each of its pixels.                            *)
(***************************************************************************)
EXTENDS Integers, Sequences

CONSTANTS
    CharWidth,     \* 8
    CharacterSize, \* height of the font's characters
    PanicStart,    \* PanicStartX, PanicStartY
    PanelWidth,    \* 300: the memory information is that far from the right
    PanelHeight,   \* 400
    AddressArea,   \* {1024, 128}: what page_fault_handler swaps
    Word,          \* 2^32
    Far,           \* 80000
    Blank,         \* a pixel nothing was drawn to
    Shape,         \* calls of drawRect on the boot screen: [at, size, pixel]
    BootLine, MIT, Roll, Panel, PanicMode, Message, FrameLines, ErrorLines, Address,
    Framebuffers,  \* what may be the framebuffer
    MaxPanics      \* bound: panics before the machine halts

Point == [x : Nat, y : Nat]
Framebuffer == [PixelWidth : Nat, PixelHeight : Nat, PixelsPerScanLine : Nat,
                deferred : BOOLEAN]

ASSUME ScreenAssumption ==
    /\ CharWidth \in Nat \ {0} /\ CharacterSize \in Nat \ {0}
    /\ PanicStart \in Point /\ AddressArea \in Point
    /\ PanelWidth \in Nat /\ PanelHeight \in Nat /\ Word \in Nat \ {0} /\ Far \in Nat
    /\ Shape \in Seq([at : Point, size : Point, pixel : Nat])
    /\ Framebuffers \subseteq Framebuffer
    /\ \A f \in Framebuffers :
          /\ f.PixelWidth <= f.PixelsPerScanLine
          /\ f.PixelWidth < Word /\ f.PixelHeight < Word
    /\ {BootLine, MIT, Roll, PanicMode, Message, Address} \subseteq Seq(Nat)
    /\ {Panel, FrameLines, ErrorLines} \subseteq Seq(Seq(Nat))
    /\ MaxPanics \in Nat

VARIABLES
    fb,            \* the framebuffer, and whether Target is a copy of it
    buffer,        \* pixels of Render and of Target
    written,       \* history: pixels the last step wrote
    running,       \* "kernel", a kind of panic, or "halted"
    pc, char, pos, \* of the kernel and of panic: call, character of puts, position
    began,         \* history: PanicLocation when the panic began
    reported,      \* history: panics whose text is on the screen
    turned,        \* history: kmain has been through its loop
    panics

vars == <<fb, buffer, written, running, pc, char, pos, began, reported, turned, panics>>

Kinds == {"panic", "frame", "error", "stack_fault", "page_fault"}

\* panic(message) itself and stack_segment_fault_handler return to the kernel,
\* every other handler halts.
Returning == {"panic", "stack_fault"}
Origin == [x |-> 0, y |-> 0]
At(x, y) == [x |-> x, y |-> y]
Lesser(a, b) == IF a < b THEN a ELSE b

-----------------------------------------------------------------------------
(* The renderer's geometry.  Pixels are counted from the base address.     *)

Offset(f, x, y) == x + y * f.PixelsPerScanLine
Offsets(f) == 0 .. f.PixelHeight * f.PixelsPerScanLine - 1

\* Mutant: positions below the screen are left as they are.
clamp_draw_position_OnlyX(f, p) == [p EXCEPT !.x = Lesser(p.x, f.PixelWidth)]

clamp_draw_position(f, p) == At(Lesser(p.x, f.PixelWidth), Lesser(p.y, f.PixelHeight))

\* How much of an area is on the screen, in 32 bits.
Clip(f, p, size) ==
    At(Lesser(size.x, (f.PixelWidth - p.x) % Word), Lesser(size.y, (f.PixelHeight - p.y) % Word))

Area(f, p, size) ==
    {Offset(f, x, y) : x \in p.x .. p.x + Clip(f, p, size).x - 1,
                       y \in p.y .. p.y + Clip(f, p, size).y - 1}

\* Mutant: the caller's column is forgotten.
crlf_NoOffset(p, offset) == At(0, p.y + CharacterSize)

crlf(p, offset) == At(offset, p.y + CharacterSize)

\* Where putChar leaves the position of a character drawn at p.
NextChar(f, p) ==
    IF p.x + CharWidth + CharWidth > f.PixelWidth
    THEN At(0, p.y + CharacterSize)
    ELSE At(p.x + CharWidth, p.y)

-----------------------------------------------------------------------------
(* The programs.                                                           *)

Call(op, text, at, size) == [op |-> op, text |-> text, at |-> at, size |-> size]
Move(at) == Call("move", <<>>, at, Origin)
Puts(text) == Call("puts", text, Origin, Origin)
Crlf(offset) == Call("crlf", <<>>, At(offset, 0), Origin)
SwapAll == Call("swap_all", <<>>, Origin, Origin)
Swap(at, size) == Call("swap", <<>>, at, size)

draw_boot_gfx ==
    << Move(Origin), Puts(BootLine) >>
    \o [i \in 1 .. 2 * Len(Shape) |->
          LET s == Shape[(i + 1) \div 2]
          IN  IF i % 2 = 1 THEN Move(s.at) ELSE Call("rect", <<s.pixel>>, Origin, s.size)]
    \o << SwapAll >>

Opening ==
    << Call("clear", <<>>, Origin, Origin), SwapAll, Move(Origin), Puts(MIT), Crlf(0),
       Puts(Roll), Crlf(0), Swap(Origin, At(Far, 2 * CharacterSize)) >>

\* One turn of kmain's loop, with print_memory_info.  debugInfoX has 32 bits.
debugInfoX(f) == (f.PixelWidth - PanelWidth) % Word
Turn(f) ==
    << Move(At(debugInfoX(f), 0)), Crlf(debugInfoX(f)) >>
    \o [i \in 1 .. 2 * Len(Panel) |->
          IF i % 2 = 1 THEN Puts(Panel[(i + 1) \div 2]) ELSE Crlf(debugInfoX(f))]
    \o << Swap(At(debugInfoX(f), 0), At(Far, PanelHeight)) >>

LoopStart == Len(draw_boot_gfx) + Len(Opening) + 1
Kernel(f) == draw_boot_gfx \o Opening \o Turn(f)

Lines(texts) ==
    [i \in 1 .. 2 * Len(texts) |->
        IF i % 2 = 1 THEN Puts(texts[(i + 1) \div 2]) ELSE Crlf(PanicStart.x)]
Update == << Swap(PanicStart, At(Far, Far)) >>

\* panic(), panic(InterruptFrame), panic(InterruptFrameError), and what
\* page_fault_handler draws after it, at a position of its own.
Texts(kind) ==
    CASE kind = "panic" -> <<>>
      [] kind = "frame" -> FrameLines
      [] OTHER -> ErrorLines
PanicLines(kind) == <<PanicMode, Message>> \o Texts(kind)
Panic(kind) ==
    Lines(<<PanicMode, Message>>) \o Update
    \o (IF Texts(kind) = <<>> THEN <<>> ELSE Lines(Texts(kind)) \o Update)
    \o (IF kind = "page_fault"
        THEN << Move(PanicStart), Puts(Address), Swap(PanicStart, AddressArea) >>
        ELSE <<>>)

\* Where the code puts things: screens end before Far; the panel, a line below
\* the top, ends before PanelHeight, and even with each of its lines broken in
\* two before PanicStart; on a screen as wide as the panic's first line, kmain's
\* lines fit side by side and each on two; and the address is no longer than
\* some line of each panic.
PanicRoom == PanicStart.x + (Len(PanicMode) + 1) * CharWidth
ASSUME LayoutAssumption ==
    /\ \A f \in Framebuffers : f.PixelWidth <= Far /\ f.PixelHeight <= Far
    /\ (Len(Panel) + 1) * CharacterSize <= PanelHeight
    /\ \A n \in {2, 2 * Len(Panel) + 1} : n * CharacterSize <= PanicStart.y
    /\ PanelWidth + Len(Roll) * CharWidth <= PanicRoom
    /\ \A text \in {MIT, Roll} \cup {Panel[i] : i \in DOMAIN Panel} :
          (Len(text) + 1) * CharWidth <= PanicRoom
    /\ \A kind \in Returning \cup {"page_fault"} :
          \E i \in DOMAIN PanicLines(kind) : Len(Address) <= Len(PanicLines(kind)[i])

-----------------------------------------------------------------------------
Target == IF fb.deferred THEN "target" ELSE "render"
Context == IF running = "kernel" THEN "kernel" ELSE "panic"
Program == IF running = "kernel" THEN Kernel(fb) ELSE Panic(running)
here == pc[Context]
call == Program[here]

\* gRend as its constructor leaves it.
Init ==
    /\ fb \in Framebuffers
    /\ buffer = [b \in {"render", "target"} |-> [o \in Offsets(fb) |-> Blank]]
    /\ written = {}
    /\ running = "kernel"
    /\ pc = [c \in {"kernel", "panic"} |-> 1]
    /\ char = [c \in {"kernel", "panic"} |-> 1]
    /\ pos = [kernel |-> Origin, panic |-> PanicStart]
    /\ began = PanicStart
    /\ reported = {}
    /\ turned = FALSE
    /\ panics = 0

Write(O, base, pixel) ==
    /\ written' = O
    /\ buffer' = [buffer EXCEPT ![base] = [o \in Offsets(fb) |-> IF o \in O THEN pixel ELSE @[o]]]

\* Mutant: the arguments of memcpy in their usual order.
Copy_Reversed(O) ==
    /\ written' = O
    /\ buffer' = [buffer EXCEPT ![Target] =
                     [o \in Offsets(fb) |-> IF o \in O THEN buffer["render"][o] ELSE @[o]]]

Copy(O) ==
    /\ written' = O
    /\ buffer' = [buffer EXCEPT !["render"] =
                     [o \in Offsets(fb) |-> IF o \in O THEN buffer[Target][o] ELSE @[o]]]

Calls(op) == running # "halted" /\ here <= Len(Program) /\ call.op = op
Position(p) == pos' = [pos EXCEPT ![Context] = p]
Advance == pc' = [pc EXCEPT ![Context] = here + 1]

move ==
    /\ Calls("move")
    /\ Position(call.at)
    /\ Advance
    /\ UNCHANGED <<fb, buffer, written, running, char, began, reported, turned, panics>>

putChar ==
    /\ Calls("puts")
    /\ char[Context] <= Len(call.text)
    /\ LET p == clamp_draw_position(fb, pos[Context])
       IN  /\ Write(Area(fb, p, At(CharWidth, CharacterSize)), Target, call.text[char[Context]])
           /\ Position(NextChar(fb, p))
    /\ char' = [char EXCEPT ![Context] = @ + 1]
    /\ UNCHANGED <<fb, running, pc, began, reported, turned, panics>>

putsReturns ==
    /\ Calls("puts")
    /\ char[Context] > Len(call.text)
    /\ char' = [char EXCEPT ![Context] = 1]
    /\ Advance
    /\ UNCHANGED <<fb, buffer, written, running, pos, began, reported, turned, panics>>

newLine ==
    /\ Calls("crlf")
    /\ Position(crlf(pos[Context], call.at.x))
    /\ Advance
    /\ UNCHANGED <<fb, buffer, written, running, char, began, reported, turned, panics>>

drawRect ==
    /\ Calls("rect")
    /\ LET p == clamp_draw_position(fb, pos[Context])
       IN  Write(Area(fb, p, call.size), Target, call.text[1]) /\ Position(p)
    /\ Advance
    /\ UNCHANGED <<fb, running, char, began, reported, turned, panics>>

clear ==
    /\ Calls("clear")
    /\ Write(Area(fb, Origin, At(fb.PixelWidth, fb.PixelHeight)), Target, Blank)
    /\ reported' = {}
    /\ Advance
    /\ UNCHANGED <<fb, running, char, pos, began, turned, panics>>

\* swap() copies BufferSize bytes, which is as many as there are.
swapAll ==
    /\ Calls("swap_all")
    /\ Copy(Offsets(fb))
    /\ Advance
    /\ UNCHANGED <<fb, running, char, pos, began, reported, turned, panics>>

OffScreen(p) == p.x > fb.PixelWidth \/ p.y > fb.PixelHeight

swap ==
    /\ Calls("swap")
    /\ IF Target = "render" \/ OffScreen(call.at)
       THEN UNCHANGED <<buffer, written>>
       ELSE Copy(Area(fb, call.at, call.size))
    /\ Advance
    /\ UNCHANGED <<fb, running, char, pos, began, reported, turned, panics>>

kmainLoops ==
    /\ running = "kernel"
    /\ here > Len(Program)
    /\ pc' = [pc EXCEPT !["kernel"] = LoopStart]
    /\ turned' = TRUE
    /\ UNCHANGED <<fb, buffer, written, running, char, pos, began, reported, panics>>

\* An exception, or a panic() of the code that runs.
panic(kind) ==
    /\ running = "kernel"
    /\ panics < MaxPanics
    /\ running' = kind
    /\ began' = pos["panic"]
    /\ pc' = [pc EXCEPT !["panic"] = 1]
    /\ char' = [char EXCEPT !["panic"] = 1]
    /\ panics' = panics + 1
    /\ UNCHANGED <<fb, buffer, written, pos, reported, turned>>

panicReturns ==
    /\ running \in Kinds
    /\ here > Len(Program)
    /\ reported' = reported \cup {[kind |-> running, at |-> began]}
    /\ running' = IF running \in Returning THEN "kernel" ELSE "halted"
    /\ UNCHANGED <<fb, buffer, written, pc, char, pos, began, turned, panics>>

Next ==
    \/ move \/ putChar \/ putsReturns \/ newLine \/ drawRect \/ clear \/ swapAll \/ swap
    \/ kmainLoops \/ panicReturns
    \/ \E kind \in Kinds : panic(kind)

Spec == Init /\ [][Next]_vars

-----------------------------------------------------------------------------
(* Properties.                                                             *)

\* Whatever is drawn or copied, at any position, stays in the framebuffer,
\* however small that is: on a screen that ends before the panel or the panic
\* message begins, too.
WritesInBounds == written \subseteq Offsets(fb)

\* The text is on the screen at p: on the framebuffer, not only in the copy.
Readable(text, p) ==
    \A i \in DOMAIN text :
        \A o \in Area(fb, At(p.x + (i - 1) * CharWidth, p.y), At(CharWidth, CharacterSize)) :
            buffer["render"][o] = text[i]

\* There is room for the lines from p on without a line break of putChar's.
Fits(texts, p) ==
    /\ p.y + Len(texts) * CharacterSize <= fb.PixelHeight
    /\ \A i \in DOMAIN texts : p.x + (Len(texts[i]) + 1) * CharWidth <= fb.PixelWidth

LinesReadable(texts, p) ==
    \A i \in DOMAIN texts : Readable(texts[i], At(p.x, p.y + (i - 1) * CharacterSize))

\* panic() leaves its message on the screen, wherever it interrupted the
\* kernel's own drawing, below that of the panics before it: for whoever looks
\* at the halted machine, and, once the boot screen is cleared, through all
\* that the kernel draws when the panic has returned.  (The mouth of the boot
\* screen is drawn where the message is.)  Only the line at PanicStart is lost
\* to page_fault_handler, which draws the address there.
BootScreen == pc["kernel"] <= Len(draw_boot_gfx) + 1
LineLost == running = "page_fault" \/ \E r \in reported : r.kind = "page_fault"
PanicReadable ==
    \A r \in reported :
        LET shown == PanicLines(r.kind)
        IN  Fits(shown, r.at) /\ ~(BootScreen /\ r.kind \in Returning) =>
              IF r.at = PanicStart /\ LineLost
              THEN LinesReadable(Tail(shown), At(r.at.x, r.at.y + CharacterSize))
              ELSE LinesReadable(shown, r.at)

\* Once kmain loops its lines stay on the screen, and the panel does from its
\* first turn on, through every redrawing and panic, if the second line ends
\* where the panel begins.
Room == /\ Fits(<<MIT, Roll>>, Origin)
        /\ fb.PixelWidth >= PanelWidth + Len(Roll) * CharWidth
KmainReadable ==
    Room => /\ pc["kernel"] >= LoopStart => LinesReadable(<<MIT, Roll>>, Origin)
            /\ turned /\ Fits(Panel, At(debugInfoX(fb), CharacterSize)) =>
                 LinesReadable(Panel, At(debugInfoX(fb), CharacterSize))
=============================================================================
