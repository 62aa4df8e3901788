----------------------------- MODULE ScreenProofs -----------------------------
(***************************************************************************)
(* Screen, for every framebuffer, font, text and position: nothing is ever *)
(* drawn or copied outside of the framebuffer; what kmain has drawn, and   *)
(* what panic() has written, can be read on the screen and stays so.       *)
(***************************************************************************)
EXTENDS Screen, SequenceTheorems, TLAPS

(***************************************************************************)
(* The inductive invariant: positions are natural numbers, on the screen   *)
(* or not, and so is what the programs ask for.                            *)
(***************************************************************************)
Ops == {"move", "puts", "crlf", "rect", "clear", "swap_all", "swap"}
CallSet == [op : Ops, text : Seq(Nat), at : Point, size : Point]

TypeOK ==
    /\ fb \in Framebuffers
    /\ running \in {"kernel", "halted"} \cup Kinds
    /\ pc \in [{"kernel", "panic"} -> Nat \ {0}]
    /\ pos \in [{"kernel", "panic"} -> Point]

IInv == TypeOK /\ WritesInBounds

-----------------------------------------------------------------------------
(* Areas.                                                                  *)

\* A pixel of a visible row and column lies in the framebuffer.
LEMMA OffsetInBounds ==
  ASSUME NEW f \in Framebuffers, NEW x \in Nat, NEW y \in Nat,
         x < f.PixelWidth, y < f.PixelHeight
  PROVE  Offset(f, x, y) \in Offsets(f)
<1> DEFINE pitch == f.PixelsPerScanLine
           height == f.PixelHeight
<1>1. /\ pitch \in Nat /\ height \in Nat /\ x < pitch /\ y < height
  BY ScreenAssumption DEF Framebuffer
<1>2. y * pitch + pitch <= height * pitch
  <2> HIDE DEF pitch, height
  <2>1. height - 1 \in Nat /\ y <= height - 1
    BY <1>1
  <2>2. y * pitch <= (height - 1) * pitch
    BY <1>1, <2>1
  <2>3. (height - 1) * pitch = height * pitch - pitch
    BY <1>1
  <2> QED BY <1>1, <2>2, <2>3
<1>3. y * pitch \in Nat /\ height * pitch \in Nat
  BY <1>1
<1> HIDE DEF pitch, height
<1>4. x + y * pitch \in 0 .. height * pitch - 1
  BY <1>1, <1>2, <1>3
<1> QED BY <1>4 DEF Offset, Offsets, pitch, height

\* The 32-bit difference of what is not larger.
LEMMA Difference ==
  ASSUME NEW a \in Nat, NEW b \in Nat, a <= b, b < Word
  PROVE  (b - a) % Word = b - a
<1>1. Word \in Nat \ {0}
  BY ScreenAssumption
<1> QED BY <1>1

\* An area that begins on the screen, or on its edge, is clipped to it.
LEMMA AreaInBounds ==
  ASSUME NEW f \in Framebuffers, NEW p \in Point, NEW size \in Point,
         p.x <= f.PixelWidth, p.y <= f.PixelHeight
  PROVE  Area(f, p, size) \subseteq Offsets(f)
<1>1. /\ p.x \in Nat /\ p.y \in Nat /\ size.x \in Nat /\ size.y \in Nat
      /\ f.PixelWidth \in Nat /\ f.PixelHeight \in Nat
      /\ f.PixelWidth < Word /\ f.PixelHeight < Word
  BY ScreenAssumption DEF Point, Framebuffer
<1>2. /\ (f.PixelWidth - p.x) % Word = f.PixelWidth - p.x
      /\ (f.PixelHeight - p.y) % Word = f.PixelHeight - p.y
  BY <1>1, Difference
<1>3. /\ Clip(f, p, size).x = Lesser(size.x, f.PixelWidth - p.x)
      /\ Clip(f, p, size).y = Lesser(size.y, f.PixelHeight - p.y)
  BY <1>2 DEF Clip, At
<1>4. /\ Lesser(size.x, f.PixelWidth - p.x) <= f.PixelWidth - p.x
      /\ Lesser(size.y, f.PixelHeight - p.y) <= f.PixelHeight - p.y
      /\ Lesser(size.x, f.PixelWidth - p.x) \in Int
      /\ Lesser(size.y, f.PixelHeight - p.y) \in Int
  BY <1>1 DEF Lesser
<1>5. ASSUME NEW x \in p.x .. p.x + Clip(f, p, size).x - 1,
             NEW y \in p.y .. p.y + Clip(f, p, size).y - 1
      PROVE  Offset(f, x, y) \in Offsets(f)
  <2>1. x \in Nat /\ y \in Nat /\ x < f.PixelWidth /\ y < f.PixelHeight
    BY <1>1, <1>3, <1>4, <1>5
  <2> QED BY <2>1, OffsetInBounds
<1> QED BY <1>5 DEF Area

\* Clamped, a position is on the screen or on its edge.
LEMMA Clamped ==
  ASSUME NEW f \in Framebuffers, NEW p \in Point
  PROVE  /\ clamp_draw_position(f, p) \in Point
         /\ clamp_draw_position(f, p).x <= f.PixelWidth
         /\ clamp_draw_position(f, p).y <= f.PixelHeight
BY ScreenAssumption DEF clamp_draw_position, Point, Framebuffer, At, Lesser

-----------------------------------------------------------------------------
(* The programs.                                                           *)

LEMMA PointTyped == ASSUME NEW x \in Nat, NEW y \in Nat PROVE At(x, y) \in Point
BY DEF At, Point

\* The constants one by one.
LEMMA ConstantsTyped ==
  /\ Origin \in Point /\ PanicStart \in Point /\ AddressArea \in Point
  /\ BootLine \in Seq(Nat) /\ MIT \in Seq(Nat) /\ Roll \in Seq(Nat)
  /\ PanicMode \in Seq(Nat) /\ Message \in Seq(Nat) /\ Address \in Seq(Nat)
  /\ Panel \in Seq(Seq(Nat)) /\ FrameLines \in Seq(Seq(Nat)) /\ ErrorLines \in Seq(Seq(Nat))
<1>1. Origin \in Point
  BY DEF Origin, Point
<1>2. PanicStart \in Point /\ AddressArea \in Point
  BY ScreenAssumption
<1>3. /\ BootLine \in Seq(Nat) /\ MIT \in Seq(Nat) /\ Roll \in Seq(Nat)
      /\ PanicMode \in Seq(Nat) /\ Message \in Seq(Nat) /\ Address \in Seq(Nat)
  BY ScreenAssumption
<1>4. /\ Panel \in Seq(Seq(Nat)) /\ FrameLines \in Seq(Seq(Nat))
      /\ ErrorLines \in Seq(Seq(Nat))
  BY ScreenAssumption
<1> QED BY <1>1, <1>2, <1>3, <1>4

\* What each constructor of calls makes.
LEMMA CallTyped ==
  /\ \A at \in Point : Move(at) \in CallSet
  /\ \A text \in Seq(Nat) : Puts(text) \in CallSet
  /\ \A offset \in Nat : Crlf(offset) \in CallSet
  /\ SwapAll \in CallSet
  /\ Call("clear", <<>>, Origin, Origin) \in CallSet
  /\ \A at, size \in Point : Swap(at, size) \in CallSet
<1>1. \A op \in Ops, text \in Seq(Nat), at \in Point, size \in Point :
          Call(op, text, at, size) \in CallSet
  BY DEF Call, CallSet
<1>2. Origin \in Point /\ <<>> \in Seq(Nat)
  BY DEF Origin, Point
<1> HIDE DEF Point
<1>0. {"move", "puts", "crlf", "swap_all", "clear", "swap"} \subseteq Ops
  BY DEF Ops
<1>3. /\ \A at \in Point : Move(at) \in CallSet
      /\ SwapAll \in CallSet
      /\ Call("clear", <<>>, Origin, Origin) \in CallSet
      /\ \A at, size \in Point : Swap(at, size) \in CallSet
  BY <1>0, <1>1, <1>2 DEF Move, SwapAll, Swap
<1>4. \A text \in Seq(Nat) : Puts(text) \in CallSet
  BY <1>0, <1>1, <1>2 DEF Puts
<1>5. \A offset \in Nat : Crlf(offset) \in CallSet
  BY <1>0, <1>1, <1>2, PointTyped DEF Crlf
<1> QED BY <1>3, <1>4, <1>5

\* Texts, each with a line break after it.
LEMMA LinesTyped == ASSUME NEW texts \in Seq(Seq(Nat)) PROVE Lines(texts) \in Seq(CallSet)
<1>1. 2 * Len(texts) \in Nat
  OBVIOUS
<1>2. ASSUME NEW i \in 1 .. 2 * Len(texts)
      PROVE  (IF i % 2 = 1 THEN Puts(texts[(i + 1) \div 2]) ELSE Crlf(PanicStart.x)) \in CallSet
  <2>1. PanicStart.x \in Nat
    BY ScreenAssumption DEF Point
  <2>2. (i + 1) \div 2 \in 1 .. Len(texts)
    OBVIOUS
  <2>3. texts[(i + 1) \div 2] \in Seq(Nat)
    BY <2>2
  <2> QED BY <2>1, <2>3, CallTyped
<1> QED BY <1>1, <1>2 DEF Lines
\* draw_boot_gfx's calls.
LEMMA BootTyped == draw_boot_gfx \in Seq(CallSet)
<1> DEFINE faces ==
      [i \in 1 .. 2 * Len(Shape) |->
          LET s == Shape[(i + 1) \div 2]
          IN  IF i % 2 = 1 THEN Move(s.at) ELSE Call("rect", <<s.pixel>>, Origin, s.size)]
<1>1. Len(Shape) \in Nat
  BY ScreenAssumption
<1>2. ASSUME NEW i \in 1 .. 2 * Len(Shape) PROVE faces[i] \in CallSet
  <2> DEFINE s == Shape[(i + 1) \div 2]
  <2>1. (i + 1) \div 2 \in 1 .. Len(Shape)
    BY <1>1
  <2>2. s \in [at : Point, size : Point, pixel : Nat]
    <3> DEFINE Rects == [at : Point, size : Point, pixel : Nat]
    <3>1. Shape \in Seq(Rects)
      BY ScreenAssumption
    <3> HIDE DEF Rects
    <3>2. Shape[(i + 1) \div 2] \in Rects
      BY <2>1, <3>1
    <3> QED BY <3>2 DEF Rects
  <2> HIDE DEF s
  <2>3. Move(s.at) \in CallSet
    BY <2>2, CallTyped
  <2>4. s.size \in Point /\ <<s.pixel>> \in Seq(Nat)
    BY <2>2
  <2>5. Call("rect", <<s.pixel>>, Origin, s.size) \in CallSet
    <3>1. "rect" \in Ops
      BY DEF Ops
    <3> QED BY <2>4, <3>1, ConstantsTyped DEF Call, CallSet
  <2> QED BY <2>3, <2>5 DEF s
<1>3. faces \in Seq(CallSet)
  <2> HIDE DEF faces
  <2>1. faces = [i \in 1 .. 2 * Len(Shape) |-> faces[i]]
    BY DEF faces
  <2>2. 2 * Len(Shape) \in Nat
    BY <1>1
  <2> QED BY <1>2, <2>1, <2>2
<1> HIDE DEF faces
<1>4. << Move(Origin), Puts(BootLine) >> \in Seq(CallSet) /\ << SwapAll >> \in Seq(CallSet)
  BY CallTyped, ConstantsTyped
<1>5. << Move(Origin), Puts(BootLine) >> \o faces \o << SwapAll >> \in Seq(CallSet)
  BY <1>3, <1>4, ConcatProperties
<1> QED BY <1>5 DEF draw_boot_gfx, faces

\* kmain's calls.
LEMMA KernelTyped == ASSUME NEW f \in Framebuffers PROVE Kernel(f) \in Seq(CallSet)
<1>1. debugInfoX(f) \in Nat
  <2>1. f.PixelWidth - PanelWidth \in Int /\ Word \in Nat \ {0}
    BY ScreenAssumption DEF Framebuffer
  <2> QED BY <2>1 DEF debugInfoX
<1>2. /\ At(Far, 2 * CharacterSize) \in Point
      /\ At(debugInfoX(f), 0) \in Point /\ At(Far, PanelHeight) \in Point
  <2>1. Far \in Nat /\ 2 * CharacterSize \in Nat /\ PanelHeight \in Nat /\ 0 \in Nat
    BY ScreenAssumption
  <2> QED BY <1>1, <2>1, PointTyped
<1>3. Opening \in Seq(CallSet)
  BY <1>2, CallTyped, ConstantsTyped DEF Opening
<1> DEFINE lines ==
      [i \in 1 .. 2 * Len(Panel) |->
          IF i % 2 = 1 THEN Puts(Panel[(i + 1) \div 2]) ELSE Crlf(debugInfoX(f))]
<1>4. lines \in Seq(CallSet)
  <2>1. Len(Panel) \in Nat /\ 2 * Len(Panel) \in Nat
    BY ConstantsTyped
  <2>2. ASSUME NEW i \in 1 .. 2 * Len(Panel)
        PROVE  (IF i % 2 = 1 THEN Puts(Panel[(i + 1) \div 2]) ELSE Crlf(debugInfoX(f)))
                  \in CallSet
    <3>1. (i + 1) \div 2 \in 1 .. Len(Panel)
      BY <2>1
    <3>2. Panel[(i + 1) \div 2] \in Seq(Nat)
      BY <3>1, ConstantsTyped
    <3> QED BY <1>1, <3>2, CallTyped
  <2> QED BY <2>1, <2>2
<1> HIDE DEF lines
<1>5. << Move(At(debugInfoX(f), 0)), Crlf(debugInfoX(f)) >> \in Seq(CallSet)
  BY <1>1, <1>2, CallTyped
<1>6. << Swap(At(debugInfoX(f), 0), At(Far, PanelHeight)) >> \in Seq(CallSet)
  BY <1>2, CallTyped
<1>7. << Move(At(debugInfoX(f), 0)), Crlf(debugInfoX(f)) >> \o lines
        \o << Swap(At(debugInfoX(f), 0), At(Far, PanelHeight)) >> \in Seq(CallSet)
  BY <1>4, <1>5, <1>6, ConcatProperties
<1>8. Turn(f) \in Seq(CallSet)
  BY <1>7 DEF Turn, lines
<1> QED BY <1>3, <1>8, BootTyped, ConcatProperties DEF Kernel

\* panic()'s calls.
LEMMA PanicTyped == ASSUME NEW kind \in Kinds PROVE Panic(kind) \in Seq(CallSet)
<1>1. At(Far, Far) \in Point /\ <<PanicMode, Message>> \in Seq(Seq(Nat)) /\ <<>> \in Seq(Seq(Nat))
  <2>1. Far \in Nat
    BY ScreenAssumption
  <2> QED BY <2>1, PointTyped, ConstantsTyped
<1>2. Lines(<<PanicMode, Message>>) \in Seq(CallSet)
  BY <1>1, LinesTyped
<1>3. Update \in Seq(CallSet)
  BY <1>1, CallTyped, ConstantsTyped DEF Update
<1>4. Texts(kind) \in Seq(Seq(Nat))
  BY <1>1, ConstantsTyped DEF Texts, Kinds
<1>5. Lines(Texts(kind)) \o Update \in Seq(CallSet)
  BY <1>3, <1>4, LinesTyped, ConcatProperties
<1>6. << Move(PanicStart), Puts(Address), Swap(PanicStart, AddressArea) >> \in Seq(CallSet)
  BY CallTyped, ConstantsTyped
<1> DEFINE more == IF Texts(kind) = <<>> THEN <<>> ELSE Lines(Texts(kind)) \o Update
           last == IF kind = "page_fault"
                   THEN << Move(PanicStart), Puts(Address), Swap(PanicStart, AddressArea) >>
                   ELSE <<>>
<1>7. more \in Seq(CallSet) /\ last \in Seq(CallSet)
  BY <1>5, <1>6
<1> HIDE DEF more, last
<1>8. Lines(<<PanicMode, Message>>) \o Update \o more \o last \in Seq(CallSet)
  BY <1>2, <1>3, <1>7, ConcatProperties
<1> QED BY <1>8 DEF Panic, more, last

\* What is called next.
LEMMA NextCallTyped ==
  ASSUME TypeOK, running # "halted", here <= Len(Program)
  PROVE  /\ call \in CallSet
         /\ Context \in {"kernel", "panic"}
         /\ here \in Nat \ {0}
         /\ pos[Context] \in Point
<1>1. Program \in Seq(CallSet)
  BY KernelTyped, PanicTyped DEF Program, TypeOK
<1>2. Context \in {"kernel", "panic"}
  BY DEF Context
<1>3. here \in 1 .. Len(Program)
  BY <1>1, <1>2 DEF here, TypeOK
<1> QED BY <1>1, <1>2, <1>3 DEF call, TypeOK
-----------------------------------------------------------------------------
(* The initial state and the steps.                                        *)

LEMMA InitInv == Init => IInv
<1> SUFFICES ASSUME Init PROVE IInv
  OBVIOUS
<1>1. pos \in [{"kernel", "panic"} -> Point]
  BY ConstantsTyped DEF Init
<1>2. pc \in [{"kernel", "panic"} -> Nat \ {0}]
  BY DEF Init
<1> QED BY <1>1, <1>2 DEF Init, IInv, TypeOK, WritesInBounds

\* A call moves on, and leaves a position.
LEMMA Moves ==
  ASSUME TypeOK, running # "halted", here <= Len(Program),
         UNCHANGED <<fb, running>>,
         Advance \/ UNCHANGED pc,
         UNCHANGED pos \/ \E p \in Point : Position(p)
  PROVE  TypeOK'
<1>1. Context \in {"kernel", "panic"} /\ here \in Nat \ {0}
  BY NextCallTyped
<1>2. pc' \in [{"kernel", "panic"} -> Nat \ {0}]
  BY <1>1 DEF Advance, TypeOK
<1>3. pos' \in [{"kernel", "panic"} -> Point]
  BY <1>1 DEF Position, TypeOK
<1> QED BY <1>2, <1>3 DEF TypeOK

LEMMA StepInv == IInv /\ [Next]_vars => IInv'
<1> SUFFICES ASSUME TypeOK, WritesInBounds, [Next]_vars PROVE TypeOK' /\ WritesInBounds'
  BY DEF IInv
<1>0. fb \in Framebuffers
  BY DEF TypeOK
<1>a. ASSUME UNCHANGED <<fb, written>> PROVE WritesInBounds'
  BY <1>a DEF WritesInBounds
<1>1. CASE move
  <2>1. running # "halted" /\ here <= Len(Program) /\ Position(call.at) /\ Advance
        /\ UNCHANGED <<fb, running, written>>
    BY <1>1 DEF move, Calls
  <2>2. call.at \in Point
    BY <2>1, NextCallTyped DEF CallSet
  <2> QED BY <1>a, <2>1, <2>2, Moves
<1>2. CASE putChar
  <2> DEFINE p == clamp_draw_position(fb, pos[Context])
             size == At(CharWidth, CharacterSize)
  <2>1. /\ running # "halted" /\ here <= Len(Program)
        /\ UNCHANGED <<fb, running, pc>>
        /\ written' = Area(fb, p, size)
        /\ Position(NextChar(fb, p))
    BY <1>2 DEF putChar, Calls, Write
  <2>2. p \in Point /\ p.x <= fb.PixelWidth /\ p.y <= fb.PixelHeight
    BY <1>0, <2>1, NextCallTyped, Clamped
  <2>3. CharWidth \in Nat /\ CharacterSize \in Nat
    BY ScreenAssumption
  <2>4. size \in Point
    BY <2>3, PointTyped
  <2> HIDE DEF p, size
  <2>5. p.x \in Nat /\ p.y \in Nat
    BY <2>2 DEF Point
  <2>6. NextChar(fb, p) \in Point
    <3>1. At(0, p.y + CharacterSize) \in Point /\ At(p.x + CharWidth, p.y) \in Point
      BY <2>3, <2>5, PointTyped
    <3> QED BY <3>1 DEF NextChar
  <2>7. TypeOK'
    BY <2>1, <2>6, Moves
  <2>8. Area(fb, p, size) \subseteq Offsets(fb)
    BY <1>0, <2>2, <2>4, AreaInBounds
  <2> QED BY <2>1, <2>7, <2>8 DEF WritesInBounds
<1>3. CASE putsReturns
  <2>1. running # "halted" /\ here <= Len(Program) /\ Advance
        /\ UNCHANGED <<fb, running, written, pos>>
    BY <1>3 DEF putsReturns, Calls
  <2> QED BY <1>a, <2>1, Moves
<1>4. CASE newLine
  <2>1. running # "halted" /\ here <= Len(Program) /\ Advance
        /\ UNCHANGED <<fb, running, written>>
        /\ Position(crlf(pos[Context], call.at.x))
    BY <1>4 DEF newLine, Calls
  <2>2. /\ call.at.x \in Nat /\ pos[Context].y \in Nat /\ CharacterSize \in Nat
    BY <2>1, NextCallTyped, ScreenAssumption DEF CallSet, Point
  <2>3. crlf(pos[Context], call.at.x) \in Point
    BY <2>2, PointTyped DEF crlf
  <2> QED BY <1>a, <2>1, <2>3, Moves
<1>5. CASE drawRect
  <2> DEFINE p == clamp_draw_position(fb, pos[Context])
  <2>1. /\ running # "halted" /\ here <= Len(Program)
        /\ UNCHANGED <<fb, running>>
        /\ Advance
        /\ written' = Area(fb, p, call.size)
        /\ Position(p)
    BY <1>5 DEF drawRect, Calls, Write
  <2>2. p \in Point /\ p.x <= fb.PixelWidth /\ p.y <= fb.PixelHeight /\ call.size \in Point
    BY <1>0, <2>1, NextCallTyped, Clamped DEF CallSet
  <2> HIDE DEF p
  <2>3. Area(fb, p, call.size) \subseteq Offsets(fb)
    BY <1>0, <2>2, AreaInBounds
  <2>4. TypeOK'
    BY <2>1, <2>2, Moves
  <2> QED BY <2>1, <2>3, <2>4 DEF WritesInBounds
<1>6. CASE clear
  <2> DEFINE size == At(fb.PixelWidth, fb.PixelHeight)
  <2>1. /\ running # "halted" /\ here <= Len(Program)
        /\ UNCHANGED <<fb, running, pos>>
        /\ Advance
        /\ written' = Area(fb, Origin, size)
    BY <1>6 DEF clear, Calls, Write
  <2>2. fb.PixelWidth \in Nat /\ fb.PixelHeight \in Nat
    BY <1>0, ScreenAssumption DEF Framebuffer
  <2>3. size \in Point /\ Origin.x <= fb.PixelWidth /\ Origin.y <= fb.PixelHeight
    BY <2>2, PointTyped DEF Origin
  <2> HIDE DEF size
  <2>4. Area(fb, Origin, size) \subseteq Offsets(fb)
    BY <1>0, <2>3, AreaInBounds, ConstantsTyped
  <2>5. TypeOK'
    BY <2>1, Moves
  <2> QED BY <2>1, <2>4, <2>5 DEF WritesInBounds
<1>7. CASE swapAll
  <2>1. /\ running # "halted" /\ here <= Len(Program)
        /\ UNCHANGED <<fb, running, pos>>
        /\ Advance
        /\ written' = Offsets(fb)
    BY <1>7 DEF swapAll, Calls, Copy
  <2>2. TypeOK'
    BY <2>1, Moves
  <2> QED BY <2>1, <2>2 DEF WritesInBounds
<1>8. CASE swap
  <2>1. /\ running # "halted" /\ here <= Len(Program)
        /\ UNCHANGED <<fb, running, pos>>
        /\ Advance
    BY <1>8 DEF swap, Calls
  <2>2. TypeOK'
    BY <2>1, Moves
  <2>3. call.at \in Point /\ call.size \in Point
    BY <2>1, NextCallTyped DEF CallSet
  <2>4. CASE UNCHANGED written
    BY <1>a, <2>1, <2>2, <2>4
  <2>5. CASE ~OffScreen(call.at) /\ written' = Area(fb, call.at, call.size)
    <3>1. call.at.x <= fb.PixelWidth /\ call.at.y <= fb.PixelHeight
      <4>1. /\ call.at.x \in Nat /\ call.at.y \in Nat
            /\ fb.PixelWidth \in Nat /\ fb.PixelHeight \in Nat
        BY <1>0, <2>3, ScreenAssumption DEF Point, Framebuffer
      <4>2. ~(call.at.x > fb.PixelWidth) /\ ~(call.at.y > fb.PixelHeight)
        BY <2>5 DEF OffScreen
      <4> QED BY <4>1, <4>2
    <3>2. Area(fb, call.at, call.size) \subseteq Offsets(fb)
      BY <1>0, <2>3, <3>1, AreaInBounds
    <3> QED BY <2>1, <2>2, <2>5, <3>2 DEF WritesInBounds
  <2> QED BY <1>8, <2>4, <2>5 DEF swap, Copy
<1>9. CASE kmainLoops
  <2>1. LoopStart \in Nat \ {0}
    <3>1. Opening \in Seq(CallSet) \/ Len(Opening) = 8
      BY DEF Opening
    <3>2. Len(Opening) \in Nat /\ Len(draw_boot_gfx) \in Nat
      BY <3>1, BootTyped
    <3> QED BY <3>2 DEF LoopStart
  <2>2. pc' \in [{"kernel", "panic"} -> Nat \ {0}]
    BY <1>9, <2>1 DEF kmainLoops, TypeOK
  <2> QED BY <1>9, <1>a, <2>2 DEF kmainLoops, TypeOK
<1>10. ASSUME NEW kind \in Kinds, panic(kind) PROVE TypeOK' /\ WritesInBounds'
  BY <1>10, <1>a DEF panic, TypeOK
<1>11. CASE panicReturns
  BY <1>11, <1>a DEF panicReturns, TypeOK, Kinds
<1>12. CASE UNCHANGED vars
  BY <1>12, <1>a DEF vars, TypeOK
<1> QED
  BY <1>1, <1>2, <1>3, <1>4, <1>5, <1>6, <1>7, <1>8, <1>9, <1>10, <1>11, <1>12 DEF Next

\* drawRect, drawBMP, clear and swap (renderer.cc) write only inside of the
\* framebuffer: for every size of screen and font, for every text, and wherever
\* panic() interrupts the kernel.
THEOREM DrawsInBounds == Spec => []WritesInBounds
<1>1. IInv => WritesInBounds
  BY DEF IInv
<1> QED BY <1>1, InitInv, StepInv, PTL DEF Spec

-----------------------------------------------------------------------------
(***************************************************************************)
(* What stays readable.  A text is drawn cell by cell, lines below each    *)
(* other.  The cells of a text that fits on the screen do not overlap, so  *)
(* that what is drawn in one stays until something else is drawn there.    *)
(***************************************************************************)
Glyph == At(CharWidth, CharacterSize)
Cell(p, i, k) == At(p.x + (k - 1) * CharWidth, p.y + (i - 1) * CharacterSize)
CellArea(f, p, c) == Area(f, Cell(p, c[1], c[2]), Glyph)

Cells(texts) == {c \in Nat \X Nat : c[1] \in DOMAIN texts /\ c[2] \in DOMAIN texts[c[1]]}
Before(texts, i, k) == {c \in Cells(texts) : c[1] < i \/ (c[1] = i /\ c[2] < k)}
From(texts, i) == {c \in Cells(texts) : c[1] >= i}

\* Cells of texts at p that can be read in B.
Has(f, B, texts, p, S) ==
    \A c \in S : \A o \in CellArea(f, p, c) : B[o] = texts[c[1]][c[2]]

FitsOn(f, texts, p) ==
    /\ p.y + Len(texts) * CharacterSize <= f.PixelHeight
    /\ \A i \in DOMAIN texts : p.x + (Len(texts[i]) + 1) * CharWidth <= f.PixelWidth

Visible(f, p) == p \in Point /\ p.x <= f.PixelWidth /\ p.y <= f.PixelHeight

\* Two pixels with the same offset are the same pixel.
LEMMA OffsetUnique ==
  ASSUME NEW f \in Framebuffers,
         NEW x1 \in Nat, NEW y1 \in Nat, NEW x2 \in Nat, NEW y2 \in Nat,
         x1 < f.PixelWidth, x2 < f.PixelWidth,
         Offset(f, x1, y1) = Offset(f, x2, y2)
  PROVE  x1 = x2 /\ y1 = y2
<1> DEFINE pitch == f.PixelsPerScanLine
<1>1. pitch \in Nat /\ x1 < pitch /\ x2 < pitch
  BY ScreenAssumption DEF Framebuffer
<1>2. x1 + y1 * pitch = x2 + y2 * pitch
  BY DEF Offset
<1> HIDE DEF pitch
<1>3. ASSUME NEW a \in Nat, NEW b \in Nat, a < b PROVE a * pitch + pitch <= b * pitch
  <2>1. (a + 1) * pitch <= b * pitch
    BY <1>1, <1>3
  <2>2. (a + 1) * pitch = a * pitch + pitch
    BY <1>1, <1>3
  <2> QED BY <2>1, <2>2
<1>4. y1 * pitch \in Nat /\ y2 * pitch \in Nat
  BY <1>1
<1>5. ~(y1 < y2)
  BY <1>1, <1>2, <1>3, <1>4
<1>6. ~(y2 < y1)
  BY <1>1, <1>2, <1>3, <1>4
<1>7. y1 = y2
  BY <1>5, <1>6
<1> QED BY <1>1, <1>2, <1>4, <1>7

\* The pixels of an area that begins on the screen.
LEMMA Pixels ==
  ASSUME NEW f \in Framebuffers, NEW p, Visible(f, p), NEW size \in Point
  PROVE  Area(f, p, size) =
           {Offset(f, x, y) : x \in {n \in Nat : p.x <= n /\ n < p.x + size.x /\ n < f.PixelWidth},
                              y \in {n \in Nat : p.y <= n /\ n < p.y + size.y /\ n < f.PixelHeight}}
<1>1. /\ p.x \in Nat /\ p.y \in Nat /\ size.x \in Nat /\ size.y \in Nat
      /\ f.PixelWidth \in Nat /\ f.PixelHeight \in Nat
      /\ f.PixelWidth < Word /\ f.PixelHeight < Word
      /\ p.x <= f.PixelWidth /\ p.y <= f.PixelHeight
  BY ScreenAssumption DEF Point, Framebuffer, Visible
<1>2. /\ (f.PixelWidth - p.x) % Word = f.PixelWidth - p.x
      /\ (f.PixelHeight - p.y) % Word = f.PixelHeight - p.y
  BY <1>1, Difference
<1>3. /\ Clip(f, p, size).x = Lesser(size.x, f.PixelWidth - p.x)
      /\ Clip(f, p, size).y = Lesser(size.y, f.PixelHeight - p.y)
  BY <1>2 DEF Clip, At
<1>4. /\ p.x .. p.x + Lesser(size.x, f.PixelWidth - p.x) - 1
           = {n \in Nat : p.x <= n /\ n < p.x + size.x /\ n < f.PixelWidth}
      /\ p.y .. p.y + Lesser(size.y, f.PixelHeight - p.y) - 1
           = {n \in Nat : p.y <= n /\ n < p.y + size.y /\ n < f.PixelHeight}
  BY <1>1 DEF Lesser
<1> QED BY <1>3, <1>4 DEF Area

\* Areas in other rows or columns have no pixel in common.
LEMMA Apart ==
  ASSUME NEW f \in Framebuffers, NEW p, Visible(f, p), NEW size \in Point,
         NEW q, Visible(f, q), NEW extent \in Point,
         \/ p.x + size.x <= q.x
         \/ q.x + extent.x <= p.x
         \/ p.y + size.y <= q.y
         \/ q.y + extent.y <= p.y
  PROVE  Area(f, p, size) \cap Area(f, q, extent) = {}
<1> SUFFICES ASSUME NEW o \in Area(f, p, size), o \in Area(f, q, extent) PROVE FALSE
  OBVIOUS
<1>1. PICK x1 \in Nat, y1 \in Nat :
          /\ p.x <= x1 /\ x1 < p.x + size.x /\ x1 < f.PixelWidth
          /\ p.y <= y1 /\ y1 < p.y + size.y
          /\ o = Offset(f, x1, y1)
  BY Pixels
<1>2. PICK x2 \in Nat, y2 \in Nat :
          /\ q.x <= x2 /\ x2 < q.x + extent.x /\ x2 < f.PixelWidth
          /\ q.y <= y2 /\ y2 < q.y + extent.y
          /\ o = Offset(f, x2, y2)
  BY Pixels
<1>3. x1 = x2 /\ y1 = y2
  BY <1>1, <1>2, OffsetUnique
<1>4. /\ p.x \in Nat /\ p.y \in Nat /\ size.x \in Nat /\ size.y \in Nat
      /\ q.x \in Nat /\ q.y \in Nat /\ extent.x \in Nat /\ extent.y \in Nat
  BY DEF Visible, Point
<1> QED BY <1>1, <1>2, <1>3, <1>4

\* One area in another, which may go on beyond the edge of the screen.
LEMMA Inside ==
  ASSUME NEW f \in Framebuffers, NEW p, Visible(f, p), NEW size \in Point,
         NEW q, Visible(f, q), NEW extent \in Point,
         q.x <= p.x, p.x + size.x <= q.x + extent.x \/ f.PixelWidth <= q.x + extent.x,
         q.y <= p.y, p.y + size.y <= q.y + extent.y \/ f.PixelHeight <= q.y + extent.y
  PROVE  Area(f, p, size) \subseteq Area(f, q, extent)
<1> SUFFICES ASSUME NEW o \in Area(f, p, size) PROVE o \in Area(f, q, extent)
  OBVIOUS
<1>1. PICK x \in Nat, y \in Nat :
          /\ p.x <= x /\ x < p.x + size.x /\ x < f.PixelWidth
          /\ p.y <= y /\ y < p.y + size.y /\ y < f.PixelHeight
          /\ o = Offset(f, x, y)
  BY Pixels
<1>2. /\ p.x \in Nat /\ p.y \in Nat /\ size.x \in Nat /\ size.y \in Nat
      /\ q.x \in Nat /\ q.y \in Nat /\ extent.x \in Nat /\ extent.y \in Nat
      /\ f.PixelWidth \in Nat /\ f.PixelHeight \in Nat
  BY ScreenAssumption DEF Visible, Point, Framebuffer
<1>3. /\ x \in {n \in Nat : q.x <= n /\ n < q.x + extent.x /\ n < f.PixelWidth}
      /\ y \in {n \in Nat : q.y <= n /\ n < q.y + extent.y /\ n < f.PixelHeight}
  BY <1>1, <1>2
<1> QED BY <1>1, <1>3, Pixels

-----------------------------------------------------------------------------
(* Cells.                                                                  *)

LEMMA GlyphTyped == Glyph \in Point /\ Glyph.x = CharWidth /\ Glyph.y = CharacterSize
<1>1. CharWidth \in Nat /\ CharacterSize \in Nat
  BY ScreenAssumption
<1> QED BY <1>1 DEF Glyph, At, Point

\* The multiples of a width or height.
LEMMA Multiple ==
  ASSUME NEW a \in Nat, NEW m \in Nat, NEW n \in Nat
  PROVE  /\ m * a \in Nat
         /\ (m + 1) * a = m * a + a
         /\ (m + 2) * a = m * a + a + a
         /\ m <= n => m * a <= n * a
<1>1. m * a \in Nat /\ n * a \in Nat
  OBVIOUS
<1>2. m <= n => m * a <= n * a
  OBVIOUS
<1>3. (m + 1) * a = m * a + a /\ (m + 2) * a = m * a + a + a
  OBVIOUS
<1> QED BY <1>1, <1>2, <1>3

\* A cell's place, from that of the text.
LEMMA CellPlace ==
  ASSUME NEW p \in Point, NEW i \in Nat \ {0}, NEW k \in Nat \ {0}
  PROVE  /\ (k - 1) * CharWidth \in Nat /\ (i - 1) * CharacterSize \in Nat
         /\ Cell(p, i, k) \in Point
         /\ Cell(p, i, k).x = p.x + (k - 1) * CharWidth
         /\ Cell(p, i, k).y = p.y + (i - 1) * CharacterSize
<1>1. CharWidth \in Nat /\ CharacterSize \in Nat
  BY ScreenAssumption
<1>2. k - 1 \in Nat /\ i - 1 \in Nat
  OBVIOUS
<1>3. (k - 1) * CharWidth \in Nat /\ (i - 1) * CharacterSize \in Nat
  BY <1>1, <1>2, Multiple
<1> DEFINE dx == (k - 1) * CharWidth
           dy == (i - 1) * CharacterSize
<1>4. dx \in Nat /\ dy \in Nat
  BY <1>3
<1>5. Cell(p, i, k) = At(p.x + dx, p.y + dy)
  BY DEF Cell
<1> HIDE DEF dx, dy
<1>6. p.x + dx \in Nat /\ p.y + dy \in Nat
  BY <1>4 DEF Point
<1>7. /\ Cell(p, i, k) \in Point
      /\ Cell(p, i, k).x = p.x + dx /\ Cell(p, i, k).y = p.y + dy
  BY <1>5, <1>6 DEF At, Point
<1> QED BY <1>3, <1>7 DEF dx, dy

\* Lines that fit leave room for one more character each.
LEMMA CellOnScreen ==
  ASSUME NEW f \in Framebuffers, NEW texts \in Seq(Seq(Nat)), NEW p \in Point,
         FitsOn(f, texts, p), NEW c \in Cells(texts)
  PROVE  /\ c[1] \in Nat \ {0} /\ c[2] \in Nat \ {0}
         /\ LET q == Cell(p, c[1], c[2])
            IN  /\ Visible(f, q)
                /\ p.x <= q.x /\ p.y <= q.y
                /\ q.x + CharWidth + CharWidth <= f.PixelWidth
                /\ q.y + CharacterSize <= p.y + Len(texts) * CharacterSize
                /\ q.y + CharacterSize <= f.PixelHeight
<1> DEFINE i == c[1]
           k == c[2]
           q == Cell(p, i, k)
<1>1. /\ Len(texts) \in Nat /\ i \in 1 .. Len(texts)
      /\ texts[i] \in Seq(Nat) /\ Len(texts[i]) \in Nat /\ k \in 1 .. Len(texts[i])
  BY DEF Cells
<1>2. /\ p.y + Len(texts) * CharacterSize <= f.PixelHeight
      /\ p.x + (Len(texts[i]) + 1) * CharWidth <= f.PixelWidth
  BY <1>1 DEF FitsOn
<1>3. /\ p.x \in Nat /\ p.y \in Nat /\ CharWidth \in Nat /\ CharacterSize \in Nat
      /\ f.PixelWidth \in Nat /\ f.PixelHeight \in Nat
  BY ScreenAssumption DEF Point, Framebuffer
<1> DEFINE n == Len(texts[i])
           m == Len(texts)
<1> HIDE DEF i, k, n, m
<1>4. i \in Nat \ {0} /\ k \in Nat \ {0} /\ i <= m /\ k <= n /\ m \in Nat /\ n \in Nat
  BY <1>1 DEF n, m
<1>5. /\ q \in Point /\ q.x = p.x + (k - 1) * CharWidth /\ q.y = p.y + (i - 1) * CharacterSize
      /\ (k - 1) * CharWidth \in Nat /\ (i - 1) * CharacterSize \in Nat
  BY <1>4, CellPlace
<1>6. (k - 1) * CharWidth + CharWidth + CharWidth <= (n + 1) * CharWidth
  <2>1. k - 1 \in Nat /\ (k - 1) + 2 \in Nat /\ (k - 1) + 2 <= n + 1 /\ n + 1 \in Nat
    BY <1>4
  <2>2. ((k - 1) + 2) * CharWidth <= (n + 1) * CharWidth
    BY <1>3, <2>1, Multiple
  <2>3. ((k - 1) + 2) * CharWidth = (k - 1) * CharWidth + CharWidth + CharWidth
    BY <1>3, <2>1, Multiple
  <2> QED BY <2>2, <2>3
<1>7. (i - 1) * CharacterSize + CharacterSize <= m * CharacterSize
  <2>1. i - 1 \in Nat /\ (i - 1) + 1 \in Nat /\ (i - 1) + 1 <= m
    BY <1>4
  <2>2. ((i - 1) + 1) * CharacterSize <= m * CharacterSize
    BY <1>3, <1>4, <2>1, Multiple
  <2>3. ((i - 1) + 1) * CharacterSize = (i - 1) * CharacterSize + CharacterSize
    BY <1>3, <2>1, Multiple
  <2> QED BY <2>2, <2>3
<1> DEFINE dx == (k - 1) * CharWidth
           dy == (i - 1) * CharacterSize
           w == (n + 1) * CharWidth
           h == m * CharacterSize
<1>8. /\ q \in Point /\ q.x = p.x + dx /\ q.y = p.y + dy
      /\ dx \in Nat /\ dy \in Nat
      /\ dx + CharWidth + CharWidth <= w /\ dy + CharacterSize <= h
      /\ p.x + w <= f.PixelWidth /\ p.y + h <= f.PixelHeight
  BY <1>2, <1>5, <1>6, <1>7 DEF n, m
<1>9. w \in Nat /\ h \in Nat /\ q.x \in Nat /\ q.y \in Nat
  BY <1>3, <1>4, <1>8, Multiple DEF Point
<1> HIDE DEF dx, dy, w, h, q
<1>10. /\ q.x <= f.PixelWidth /\ q.y <= f.PixelHeight
       /\ p.x <= q.x /\ p.y <= q.y
       /\ q.x + CharWidth + CharWidth <= f.PixelWidth
       /\ q.y + CharacterSize <= p.y + h
       /\ q.y + CharacterSize <= f.PixelHeight
  <2> DEFINE qx == q.x  qy == q.y  px == p.x  py == p.y
             width == f.PixelWidth  height == f.PixelHeight
  <2>1. /\ qx = px + dx /\ dx + CharWidth + CharWidth <= w /\ px + w <= width
        /\ {qx, px, dx, w, width, CharWidth} \subseteq Nat
    BY <1>3, <1>8, <1>9
  <2>2. /\ qy = py + dy /\ dy + CharacterSize <= h /\ py + h <= height
        /\ {qy, py, dy, h, height, CharacterSize} \subseteq Nat
    BY <1>3, <1>8, <1>9
  <2> HIDE DEF qx, qy, px, py, width, height
  <2>3. qx <= width /\ px <= qx /\ qx + CharWidth + CharWidth <= width
    BY <2>1
  <2>4. /\ qy <= height /\ py <= qy
        /\ qy + CharacterSize <= py + h /\ qy + CharacterSize <= height
    BY <2>2
  <2> QED BY <2>3, <2>4 DEF qx, qy, px, py, width, height
<1> QED BY <1>4, <1>8, <1>10 DEF Visible, q, h, m, i, k

\* Different cells do not overlap.
LEMMA CellsApart ==
  ASSUME NEW f \in Framebuffers, NEW texts \in Seq(Seq(Nat)), NEW p \in Point,
         FitsOn(f, texts, p), NEW c \in Cells(texts), NEW d \in Cells(texts), c # d
  PROVE  CellArea(f, p, c) \cap CellArea(f, p, d) = {}
<1>1. /\ c[1] \in Nat \ {0} /\ c[2] \in Nat \ {0} /\ d[1] \in Nat \ {0} /\ d[2] \in Nat \ {0}
      /\ Visible(f, Cell(p, c[1], c[2])) /\ Visible(f, Cell(p, d[1], d[2]))
  BY CellOnScreen
<1>2. c[1] # d[1] \/ c[2] # d[2]
  <2>1. c \in Nat \X Nat /\ d \in Nat \X Nat
    BY DEF Cells
  <2>2. c = <<c[1], c[2]>> /\ d = <<d[1], d[2]>>
    BY <2>1
  <2> QED BY <2>2
<1>3. CharWidth \in Nat /\ CharacterSize \in Nat /\ p.x \in Nat /\ p.y \in Nat
  BY ScreenAssumption DEF Point
<1>4. ASSUME NEW m \in Nat \ {0}, NEW n \in Nat \ {0}, m < n, NEW a \in Nat
      PROVE  (m - 1) * a + a <= (n - 1) * a /\ (m - 1) * a \in Nat /\ (n - 1) * a \in Nat
  <2>1. m - 1 \in Nat /\ n - 1 \in Nat /\ (m - 1) + 1 \in Nat /\ (m - 1) + 1 <= n - 1
    BY <1>4
  <2>2. ((m - 1) + 1) * a <= (n - 1) * a
    BY <2>1, Multiple
  <2>3. ((m - 1) + 1) * a = (m - 1) * a + a
    BY <2>1, Multiple
  <2>4. (m - 1) * a \in Nat /\ (n - 1) * a \in Nat
    BY <2>1, Multiple
  <2> QED BY <2>2, <2>3, <2>4
<1> DEFINE q == Cell(p, c[1], c[2])
           r == Cell(p, d[1], d[2])
<1>5. /\ q.x = p.x + (c[2] - 1) * CharWidth /\ q.y = p.y + (c[1] - 1) * CharacterSize
      /\ r.x = p.x + (d[2] - 1) * CharWidth /\ r.y = p.y + (d[1] - 1) * CharacterSize
  BY <1>1, CellPlace
<1>6. \/ q.x + CharWidth <= r.x
      \/ r.x + CharWidth <= q.x
      \/ q.y + CharacterSize <= r.y
      \/ r.y + CharacterSize <= q.y
  <2> HIDE DEF q, r
  <2>1. CASE c[1] < d[1]
    <3>1. (c[1] - 1) * CharacterSize + CharacterSize <= (d[1] - 1) * CharacterSize
          /\ (c[1] - 1) * CharacterSize \in Nat /\ (d[1] - 1) * CharacterSize \in Nat
      BY <1>1, <1>3, <1>4, <2>1
    <3> DEFINE u == (c[1] - 1) * CharacterSize
               v == (d[1] - 1) * CharacterSize
    <3>2. u + CharacterSize <= v /\ q.y = p.y + u /\ r.y = p.y + v /\ u \in Nat /\ v \in Nat
      BY <1>5, <3>1
    <3> HIDE DEF u, v
    <3> QED BY <1>3, <3>2
  <2>2. CASE d[1] < c[1]
    <3>1. (d[1] - 1) * CharacterSize + CharacterSize <= (c[1] - 1) * CharacterSize
          /\ (c[1] - 1) * CharacterSize \in Nat /\ (d[1] - 1) * CharacterSize \in Nat
      BY <1>1, <1>3, <1>4, <2>2
    <3> DEFINE u == (c[1] - 1) * CharacterSize
               v == (d[1] - 1) * CharacterSize
    <3>2. v + CharacterSize <= u /\ q.y = p.y + u /\ r.y = p.y + v /\ u \in Nat /\ v \in Nat
      BY <1>5, <3>1
    <3> HIDE DEF u, v
    <3> QED BY <1>3, <3>2
  <2>3. CASE c[2] < d[2]
    <3>1. (c[2] - 1) * CharWidth + CharWidth <= (d[2] - 1) * CharWidth
          /\ (c[2] - 1) * CharWidth \in Nat /\ (d[2] - 1) * CharWidth \in Nat
      BY <1>1, <1>3, <1>4, <2>3
    <3> DEFINE u == (c[2] - 1) * CharWidth
               v == (d[2] - 1) * CharWidth
    <3>2. u + CharWidth <= v /\ q.x = p.x + u /\ r.x = p.x + v /\ u \in Nat /\ v \in Nat
      BY <1>5, <3>1
    <3> HIDE DEF u, v
    <3> QED BY <1>3, <3>2
  <2>4. CASE d[2] < c[2]
    <3>1. (d[2] - 1) * CharWidth + CharWidth <= (c[2] - 1) * CharWidth
          /\ (c[2] - 1) * CharWidth \in Nat /\ (d[2] - 1) * CharWidth \in Nat
      BY <1>1, <1>3, <1>4, <2>4
    <3> DEFINE u == (c[2] - 1) * CharWidth
               v == (d[2] - 1) * CharWidth
    <3>2. v + CharWidth <= u /\ q.x = p.x + u /\ r.x = p.x + v /\ u \in Nat /\ v \in Nat
      BY <1>5, <3>1
    <3> HIDE DEF u, v
    <3> QED BY <1>3, <3>2
  <2> QED BY <1>1, <1>2, <2>1, <2>2, <2>3, <2>4
<1>7. Area(f, q, Glyph) \cap Area(f, r, Glyph) = {}
  <2> HIDE DEF q, r
  <2>1. Visible(f, q) /\ Visible(f, r)
    BY <1>1 DEF q, r
  <2> QED BY <1>6, <2>1, Apart, GlyphTyped
<1> QED BY <1>7 DEF CellArea

-----------------------------------------------------------------------------
(* Drawing and copying.                                                    *)

Painted(f, B, O, pixel) == [o \in Offsets(f) |-> IF o \in O THEN pixel ELSE B[o]]
Copied(f, R, T, O) == [o \in Offsets(f) |-> IF o \in O THEN T[o] ELSE R[o]]

\* C can still be read as B could, in any of the cells S.
Keeps(f, B, C, texts, p, S) ==
    \A R \in SUBSET S : Has(f, B, texts, p, R) => Has(f, C, texts, p, R)

\* No cell of S is touched.
Misses(f, O, texts, p, S) == \A c \in S : CellArea(f, p, c) \cap O = {}

LEMMA CellInBounds ==
  ASSUME NEW f \in Framebuffers, NEW texts \in Seq(Seq(Nat)), NEW p \in Point,
         FitsOn(f, texts, p), NEW c \in Cells(texts)
  PROVE  CellArea(f, p, c) \subseteq Offsets(f)
<1>1. Visible(f, Cell(p, c[1], c[2]))
  BY CellOnScreen
<1> QED BY <1>1, AreaInBounds, GlyphTyped DEF Visible, CellArea

LEMMA SubCells ==
  ASSUME NEW texts, NEW i, NEW k
  PROVE  Before(texts, i, k) \subseteq Cells(texts) /\ From(texts, i) \subseteq Cells(texts)
BY DEF Before, From

LEMMA PaintedElsewhere ==
  ASSUME NEW f \in Framebuffers, NEW texts \in Seq(Seq(Nat)), NEW p \in Point,
         FitsOn(f, texts, p), NEW S \in SUBSET Cells(texts), NEW O, Misses(f, O, texts, p, S),
         NEW B, NEW pixel
  PROVE  Keeps(f, B, Painted(f, B, O, pixel), texts, p, S)
<1> SUFFICES ASSUME NEW R \in SUBSET S, Has(f, B, texts, p, R),
                    NEW c \in R, NEW o \in CellArea(f, p, c)
             PROVE  Painted(f, B, O, pixel)[o] = texts[c[1]][c[2]]
  BY DEF Keeps, Has
<1>1. o \in Offsets(f)
  BY CellInBounds
<1>2. o \notin O
  BY DEF Misses
<1>3. B[o] = texts[c[1]][c[2]]
  BY DEF Has
<1> QED BY <1>1, <1>2, <1>3 DEF Painted

LEMMA CopiedElsewhere ==
  ASSUME NEW f \in Framebuffers, NEW texts \in Seq(Seq(Nat)), NEW p \in Point,
         FitsOn(f, texts, p), NEW S \in SUBSET Cells(texts), NEW O, Misses(f, O, texts, p, S),
         NEW B, NEW T
  PROVE  Keeps(f, B, Copied(f, B, T, O), texts, p, S)
<1> SUFFICES ASSUME NEW R \in SUBSET S, Has(f, B, texts, p, R),
                    NEW c \in R, NEW o \in CellArea(f, p, c)
             PROVE  Copied(f, B, T, O)[o] = texts[c[1]][c[2]]
  BY DEF Keeps, Has
<1>1. o \in Offsets(f)
  BY CellInBounds
<1>2. o \notin O
  BY DEF Misses
<1>3. B[o] = texts[c[1]][c[2]]
  BY DEF Has
<1> QED BY <1>1, <1>2, <1>3 DEF Copied

\* What both buffers have, both have after a copy.
LEMMA CopiedSame ==
  ASSUME NEW f \in Framebuffers, NEW texts \in Seq(Seq(Nat)), NEW p \in Point,
         FitsOn(f, texts, p), NEW S \in SUBSET Cells(texts), NEW O, NEW B, NEW T,
         Has(f, B, texts, p, S), Has(f, T, texts, p, S)
  PROVE  Has(f, Copied(f, B, T, O), texts, p, S)
<1> SUFFICES ASSUME NEW c \in S, NEW o \in CellArea(f, p, c)
             PROVE  Copied(f, B, T, O)[o] = texts[c[1]][c[2]]
  BY DEF Has
<1>1. o \in Offsets(f)
  BY CellInBounds
<1>2. B[o] = texts[c[1]][c[2]] /\ T[o] = texts[c[1]][c[2]]
  BY DEF Has
<1> QED BY <1>1, <1>2 DEF Copied

\* What is copied can be read in the copy.
LEMMA CopiedAll ==
  ASSUME NEW f \in Framebuffers, NEW texts \in Seq(Seq(Nat)), NEW p \in Point,
         FitsOn(f, texts, p), NEW S \in SUBSET Cells(texts), NEW O, NEW B, NEW T,
         \A c \in S : CellArea(f, p, c) \subseteq O,
         Has(f, T, texts, p, S)
  PROVE  Has(f, Copied(f, B, T, O), texts, p, S)
<1> SUFFICES ASSUME NEW c \in S, NEW o \in CellArea(f, p, c)
             PROVE  Copied(f, B, T, O)[o] = texts[c[1]][c[2]]
  BY DEF Has
<1>1. o \in Offsets(f) /\ o \in O
  BY CellInBounds
<1>2. T[o] = texts[c[1]][c[2]]
  BY DEF Has
<1> QED BY <1>1, <1>2 DEF Copied

\* Drawing one of the text's own characters in its cell.
LEMMA PaintedCell ==
  ASSUME NEW f \in Framebuffers, NEW texts \in Seq(Seq(Nat)), NEW p \in Point,
         FitsOn(f, texts, p), NEW d \in Cells(texts), NEW B
  PROVE  LET C == Painted(f, B, CellArea(f, p, d), texts[d[1]][d[2]])
         IN  /\ Has(f, C, texts, p, {d})
             /\ Keeps(f, B, C, texts, p, Cells(texts))
<1> DEFINE C == Painted(f, B, CellArea(f, p, d), texts[d[1]][d[2]])
<1>1. ASSUME NEW o \in CellArea(f, p, d) PROVE C[o] = texts[d[1]][d[2]]
  <2>1. o \in Offsets(f)
    BY CellInBounds
  <2> QED BY <2>1 DEF Painted
<1>2. ASSUME NEW c \in Cells(texts), c # d, NEW o \in CellArea(f, p, c) PROVE C[o] = B[o]
  <2>1. o \in Offsets(f)
    BY CellInBounds
  <2>2. o \notin CellArea(f, p, d)
    BY <1>2, CellsApart
  <2> QED BY <2>1, <2>2 DEF Painted
<1> HIDE DEF C
<1>3. Has(f, C, texts, p, {d})
  BY <1>1 DEF Has
<1>4. Keeps(f, B, C, texts, p, Cells(texts))
  <2> SUFFICES ASSUME NEW R \in SUBSET Cells(texts), Has(f, B, texts, p, R),
                      NEW c \in R, NEW o \in CellArea(f, p, c)
               PROVE  C[o] = texts[c[1]][c[2]]
    BY DEF Keeps, Has
  <2>1. CASE c = d
    BY <1>1, <2>1
  <2>2. CASE c # d
    <3>1. B[o] = texts[c[1]][c[2]]
      BY DEF Has
    <3> QED BY <1>2, <2>2, <3>1
  <2> QED BY <2>1, <2>2
<1> QED BY <1>3, <1>4 DEF C

-----------------------------------------------------------------------------
(***************************************************************************)
(* A text being drawn: a program puts its lines, each with a line break    *)
(* after it.  At call b of that, and at character k of the line, what is   *)
(* before can be read in B, and P is where the next character goes.        *)
(***************************************************************************)
BlockCall(texts, offset, b) ==
    IF b % 2 = 1 THEN Puts(texts[(b + 1) \div 2]) ELSE Crlf(offset)

InLine(f, B, texts, p, i, k, P) ==
    /\ P = Cell(p, i, k)
    /\ k \in 1 .. (IF i <= Len(texts) THEN Len(texts[i]) + 1 ELSE 1)
    /\ Has(f, B, texts, p, Before(texts, i, k))

AfterLine(f, B, texts, p, i, k, P) ==
    /\ P.y = p.y + (i - 1) * CharacterSize
    /\ k = 1
    /\ Has(f, B, texts, p, Before(texts, i + 1, 1))

InBlock(f, B, texts, p, b, k, P) ==
    /\ b \in 1 .. 2 * Len(texts) + 1
    /\ IF b % 2 = 1 THEN InLine(f, B, texts, p, (b + 1) \div 2, k, P)
                    ELSE AfterLine(f, B, texts, p, (b + 1) \div 2, k, P)

LEMMA CellTop ==
  ASSUME NEW p \in Point PROVE Cell(p, 1, 1) = p
<1>1. CharWidth \in Nat /\ CharacterSize \in Nat
  BY ScreenAssumption
<1>2. (1 - 1) * CharWidth = 0 /\ (1 - 1) * CharacterSize = 0
  BY <1>1
<1>3. Cell(p, 1, 1) = At(p.x + 0, p.y + 0)
  BY <1>2 DEF Cell
<1> QED BY <1>3 DEF At, Point

\* Nothing is before the first character.
LEMMA BlockStarts ==
  ASSUME NEW f, NEW B, NEW texts \in Seq(Seq(Nat)), NEW p \in Point
  PROVE  InBlock(f, B, texts, p, 1, 1, p)
<1>1. Before(texts, 1, 1) = {}
  BY DEF Before, Cells
<1>2. Has(f, B, texts, p, {})
  BY DEF Has
<1>3. 1 \in 1 .. (IF 1 <= Len(texts) THEN Len(texts[1]) + 1 ELSE 1)
  <2>1. Len(texts) \in Nat /\ (1 <= Len(texts) => Len(texts[1]) \in Nat)
    OBVIOUS
  <2> QED BY <2>1
<1>4. InLine(f, B, texts, p, 1, 1, p)
  BY <1>1, <1>2, <1>3, CellTop DEF InLine
<1>5. Len(texts) \in Nat /\ 1 \in 1 .. 2 * Len(texts) + 1 /\ 1 % 2 = 1 /\ (1 + 1) \div 2 = 1
  OBVIOUS
<1> QED BY <1>4, <1>5 DEF InBlock

\* All of it is before the end.
LEMMA BlockEnds ==
  ASSUME NEW f, NEW B, NEW texts \in Seq(Seq(Nat)), NEW p \in Point, NEW k, NEW P,
         InBlock(f, B, texts, p, 2 * Len(texts) + 1, k, P)
  PROVE  /\ Has(f, B, texts, p, Cells(texts))
         /\ P = Cell(p, Len(texts) + 1, 1)
         /\ k = 1
<1>1. /\ Len(texts) \in Nat /\ (2 * Len(texts) + 1) % 2 = 1
      /\ ((2 * Len(texts) + 1) + 1) \div 2 = Len(texts) + 1
      /\ ~(Len(texts) + 1 <= Len(texts))
  OBVIOUS
<1>2. InLine(f, B, texts, p, Len(texts) + 1, k, P)
  BY <1>1 DEF InBlock
<1>3. Before(texts, Len(texts) + 1, 1) = Cells(texts)
  BY DEF Before, Cells
<1>4. k = 1
  BY <1>1, <1>2 DEF InLine
<1> QED BY <1>2, <1>3, <1>4 DEF InLine

\* The line that call b is about.
LEMMA BlockLine ==
  ASSUME NEW n \in Nat, NEW b \in 1 .. 2 * n
  PROVE  /\ (b + 1) \div 2 \in 1 .. n
         /\ b + 1 \in 1 .. 2 * n + 1
         /\ b % 2 = 1 => (b + 1) % 2 # 1 /\ ((b + 1) + 1) \div 2 = (b + 1) \div 2
         /\ b % 2 # 1 => (b + 1) % 2 = 1 /\ ((b + 1) + 1) \div 2 = (b + 1) \div 2 + 1
OBVIOUS

\* A character is drawn, and the position is that of the next.
LEMMA BlockPuts ==
  ASSUME NEW f \in Framebuffers, NEW texts \in Seq(Seq(Nat)), NEW p \in Point,
         FitsOn(f, texts, p), NEW B, NEW b \in 1 .. 2 * Len(texts), b % 2 = 1, NEW k, NEW P,
         InBlock(f, B, texts, p, b, k, P), k <= Len(texts[(b + 1) \div 2])
  PROVE  LET i == (b + 1) \div 2
             q == clamp_draw_position(f, P)
             C == Painted(f, B, Area(f, q, Glyph), texts[i][k])
         IN  /\ q = P /\ <<i, k>> \in Cells(texts) /\ P = Cell(p, i, k)
             /\ InBlock(f, C, texts, p, b, k + 1, NextChar(f, q))
             /\ Keeps(f, B, C, texts, p, Cells(texts))
<1> DEFINE i == (b + 1) \div 2
           d == <<i, k>>
           C == Painted(f, B, CellArea(f, p, d), texts[i][k])
<1>1. Len(texts) \in Nat /\ i \in 1 .. Len(texts)
  BY BlockLine
<1>2. InLine(f, B, texts, p, i, k, P)
  BY DEF InBlock
<1>3. Len(texts[i]) \in Nat /\ k \in 1 .. Len(texts[i])
  <2>1. texts[i] \in Seq(Nat)
    BY <1>1
  <2>2. k \in 1 .. Len(texts[i]) + 1
    BY <1>1, <1>2 DEF InLine
  <2> QED BY <2>1, <2>2
<1>4. d \in Cells(texts) /\ d[1] = i /\ d[2] = k
  BY <1>1, <1>3 DEF Cells
<1>5. P = Cell(p, i, k) /\ Has(f, B, texts, p, Before(texts, i, k))
  BY <1>2 DEF InLine
<1> HIDE DEF i, d
<1>6. /\ P \in Point /\ P.x + CharWidth + CharWidth <= f.PixelWidth
      /\ P.x <= f.PixelWidth /\ P.y <= f.PixelHeight
  BY <1>4, <1>5, CellOnScreen DEF Visible
<1>7. clamp_draw_position(f, P) = P
  <2>1. P = At(P.x, P.y)
    BY <1>6 DEF At, Point
  <2>2. Lesser(P.x, f.PixelWidth) = P.x /\ Lesser(P.y, f.PixelHeight) = P.y
    <3>1. P.x \in Nat /\ P.y \in Nat /\ f.PixelWidth \in Nat /\ f.PixelHeight \in Nat
      BY <1>6, ScreenAssumption DEF Point, Framebuffer
    <3> QED BY <1>6, <3>1 DEF Lesser
  <2> QED BY <2>1, <2>2 DEF clamp_draw_position
<1>8. NextChar(f, P) = Cell(p, i, k + 1)
  <2>1. NextChar(f, P) = At(P.x + CharWidth, P.y)
    <3>1. P.x \in Nat /\ f.PixelWidth \in Nat /\ CharWidth \in Nat
      BY <1>6, ScreenAssumption DEF Point, Framebuffer
    <3>2. ~(P.x + CharWidth + CharWidth > f.PixelWidth)
      BY <1>6, <3>1
    <3> QED BY <3>2 DEF NextChar
  <2>2. i \in Nat \ {0} /\ k \in Nat \ {0} /\ k + 1 \in Nat \ {0}
    BY <1>1, <1>3
  <2>3. P.x = p.x + (k - 1) * CharWidth /\ P.y = p.y + (i - 1) * CharacterSize
    BY <1>5, <2>2, CellPlace
  <2>4. ((k + 1) - 1) * CharWidth = (k - 1) * CharWidth + CharWidth
    <3>1. CharWidth \in Nat /\ k - 1 \in Nat /\ (k + 1) - 1 = (k - 1) + 1
      BY <2>2, ScreenAssumption
    <3> QED BY <3>1, Multiple
  <2>5. (k - 1) * CharWidth \in Nat /\ CharWidth \in Nat /\ p.x \in Nat
    BY <2>2, CellPlace, ScreenAssumption DEF Point
  <2> DEFINE dx == (k - 1) * CharWidth
  <2>6. P.x = p.x + dx /\ ((k + 1) - 1) * CharWidth = dx + CharWidth /\ dx \in Nat
    BY <2>3, <2>4, <2>5
  <2> HIDE DEF dx
  <2>7. P.x + CharWidth = p.x + ((k + 1) - 1) * CharWidth
    BY <2>5, <2>6
  <2> QED BY <2>1, <2>3, <2>7 DEF Cell
<1>9. Area(f, P, Glyph) = CellArea(f, p, d)
  BY <1>4, <1>5 DEF CellArea
<1>10. Has(f, C, texts, p, {d}) /\ Keeps(f, B, C, texts, p, Cells(texts))
  BY <1>4, PaintedCell
<1> HIDE DEF C
<1>11. Has(f, C, texts, p, Before(texts, i, k + 1))
  <2>1. Has(f, C, texts, p, Before(texts, i, k))
    BY <1>5, <1>10, SubCells DEF Keeps
  <2>2. Before(texts, i, k + 1) \subseteq Before(texts, i, k) \cup {d}
    <3> SUFFICES ASSUME NEW c \in Before(texts, i, k + 1), c \notin Before(texts, i, k)
                 PROVE  c = d
      OBVIOUS
    <3>1. c \in Nat \X Nat /\ c \in Cells(texts)
      BY DEF Before, Cells
    <3>2. c[1] = i /\ c[2] < k + 1 /\ ~(c[2] < k)
      BY <3>1 DEF Before
    <3>3. c[2] = k
      BY <1>3, <3>1, <3>2
    <3> QED BY <3>1, <3>2, <3>3 DEF d
  <2> QED BY <1>10, <2>1, <2>2 DEF Has
<1>12. InLine(f, C, texts, p, i, k + 1, NextChar(f, P))
  <2>1. k + 1 \in 1 .. (IF i <= Len(texts) THEN Len(texts[i]) + 1 ELSE 1)
    BY <1>1, <1>3
  <2> QED BY <1>8, <1>11, <2>1 DEF InLine
<1>13. InBlock(f, C, texts, p, b, k + 1, NextChar(f, P))
  <2>1. b \in 1 .. 2 * Len(texts) + 1
    BY <1>1
  <2> QED BY <1>12, <2>1 DEF InBlock, i
<1> QED BY <1>4, <1>5, <1>7, <1>9, <1>10, <1>13 DEF C, i, d

\* The line is done.
LEMMA BlockReturns ==
  ASSUME NEW f, NEW texts \in Seq(Seq(Nat)), NEW p \in Point,
         NEW B, NEW b \in 1 .. 2 * Len(texts), b % 2 = 1, NEW k, NEW P,
         InBlock(f, B, texts, p, b, k, P), k > Len(texts[(b + 1) \div 2])
  PROVE  InBlock(f, B, texts, p, b + 1, 1, P)
<1> DEFINE i == (b + 1) \div 2
<1>1. /\ Len(texts) \in Nat /\ i \in 1 .. Len(texts) /\ b + 1 \in 1 .. 2 * Len(texts) + 1
      /\ (b + 1) % 2 # 1 /\ ((b + 1) + 1) \div 2 = i
  BY BlockLine
<1>2. InLine(f, B, texts, p, i, k, P)
  BY DEF InBlock
<1> HIDE DEF i
<1>3. Len(texts[i]) \in Nat /\ k = Len(texts[i]) + 1
  <2>1. texts[i] \in Seq(Nat)
    BY <1>1
  <2>2. k \in 1 .. Len(texts[i]) + 1
    BY <1>1, <1>2 DEF InLine
  <2> QED BY <2>1, <2>2 DEF i
<1>4. P.y = p.y + (i - 1) * CharacterSize
  <2>1. i \in Nat \ {0} /\ k \in Nat \ {0}
    BY <1>1, <1>3
  <2> QED BY <1>2, <2>1, CellPlace DEF InLine
<1>5. Before(texts, i + 1, 1) \subseteq Before(texts, i, k)
  <2> SUFFICES ASSUME NEW c \in Before(texts, i + 1, 1) PROVE c[1] < i \/ (c[1] = i /\ c[2] < k)
    BY DEF Before
  <2>1. c[1] \in DOMAIN texts /\ c[2] \in DOMAIN texts[c[1]] /\ c[1] \in Nat /\ c[2] \in Nat
    BY DEF Before, Cells
  <2>2. c[1] < i + 1 \/ (c[1] = i + 1 /\ c[2] < 1)
    BY DEF Before
  <2>3. texts[c[1]] \in Seq(Nat) /\ c[2] >= 1 /\ c[2] <= Len(texts[c[1]])
    BY <2>1
  <2>4. c[1] < i + 1
    BY <2>1, <2>2, <2>3
  <2>5. CASE c[1] = i
    <3>1. c[2] <= Len(texts[i])
      BY <2>3, <2>5
    <3> QED BY <1>3, <2>1, <2>5, <3>1
  <2>6. CASE c[1] # i
    <3>1. c[1] \in Nat /\ i \in Nat
      BY <1>1, <2>1
    <3>2. c[1] < i
      BY <2>4, <2>6, <3>1
    <3> QED BY <3>2
  <2> QED BY <2>5, <2>6
<1>6. Has(f, B, texts, p, Before(texts, i + 1, 1))
  BY <1>2, <1>5 DEF InLine, Has
<1> QED BY <1>1, <1>4, <1>6 DEF InBlock, AfterLine

\* And the next begins below its beginning.
LEMMA BlockBreaks ==
  ASSUME NEW f, NEW texts \in Seq(Seq(Nat)), NEW p \in Point,
         NEW B, NEW b \in 1 .. 2 * Len(texts), b % 2 # 1, NEW k, NEW P,
         InBlock(f, B, texts, p, b, k, P)
  PROVE  InBlock(f, B, texts, p, b + 1, k, crlf(P, p.x))
<1> DEFINE i == (b + 1) \div 2
<1>1. /\ Len(texts) \in Nat /\ i \in 1 .. Len(texts) /\ b + 1 \in 1 .. 2 * Len(texts) + 1
      /\ (b + 1) % 2 = 1 /\ ((b + 1) + 1) \div 2 = i + 1
  BY BlockLine
<1>2. AfterLine(f, B, texts, p, i, k, P)
  BY DEF InBlock
<1> HIDE DEF i
<1>3. crlf(P, p.x) = Cell(p, i + 1, 1)
  <2>1. P.y = p.y + (i - 1) * CharacterSize
    BY <1>2 DEF AfterLine
  <2>2. /\ i \in Nat \ {0} /\ i + 1 \in Nat \ {0} /\ 1 \in Nat \ {0}
        /\ CharacterSize \in Nat /\ CharWidth \in Nat /\ p.x \in Nat /\ p.y \in Nat
    <3>1. CharacterSize \in Nat /\ CharWidth \in Nat /\ p.x \in Nat /\ p.y \in Nat
      BY ScreenAssumption DEF Point
    <3>2. i \in Nat \ {0} /\ i + 1 \in Nat \ {0}
      BY <1>1
    <3> QED BY <3>1, <3>2
  <2>3. ((i + 1) - 1) * CharacterSize = (i - 1) * CharacterSize + CharacterSize
    <3>1. i - 1 \in Nat /\ (i + 1) - 1 = (i - 1) + 1
      BY <2>2
    <3> QED BY <2>2, <3>1, Multiple
  <2>4. (i - 1) * CharacterSize \in Nat
    BY <2>2, CellPlace
  <2> DEFINE dy == (i - 1) * CharacterSize
             next == ((i + 1) - 1) * CharacterSize
  <2>5. P.y = p.y + dy /\ next = dy + CharacterSize /\ dy \in Nat
    BY <2>1, <2>3, <2>4
  <2>6. P.y + CharacterSize = p.y + next
    <3> HIDE DEF dy, next
    <3> QED BY <2>2, <2>5
  <2>7. p.x + (1 - 1) * CharWidth = p.x
    BY <2>2
  <2> QED BY <2>6, <2>7 DEF crlf, Cell
<1>4. k = 1 /\ Has(f, B, texts, p, Before(texts, i + 1, 1))
  BY <1>2 DEF AfterLine
<1>5. 1 \in 1 .. (IF i + 1 <= Len(texts) THEN Len(texts[i + 1]) + 1 ELSE 1)
  <2>1. i + 1 <= Len(texts) => texts[i + 1] \in Seq(Nat)
    BY <1>1
  <2> QED BY <1>1, <2>1
<1>6. InLine(f, B, texts, p, i + 1, k, crlf(P, p.x))
  BY <1>3, <1>4, <1>5 DEF InLine
<1> QED BY <1>1, <1>6 DEF InBlock

\* What is drawn elsewhere leaves a text as it is.
LEMMA BlockKept ==
  ASSUME NEW f, NEW texts, NEW p, NEW B, NEW C, NEW b, NEW k, NEW P,
         Keeps(f, B, C, texts, p, Cells(texts)), InBlock(f, B, texts, p, b, k, P)
  PROVE  InBlock(f, C, texts, p, b, k, P)
<1>1. ASSUME NEW i, NEW m, Has(f, B, texts, p, Before(texts, i, m))
      PROVE  Has(f, C, texts, p, Before(texts, i, m))
  BY <1>1, SubCells DEF Keeps
<1>2. CASE b % 2 = 1
  BY <1>1, <1>2 DEF InBlock, InLine
<1>3. CASE b % 2 # 1
  BY <1>1, <1>3 DEF InBlock, AfterLine
<1> QED BY <1>2, <1>3

-----------------------------------------------------------------------------
(* Which call is where.                                                    *)

BootCalls == Len(draw_boot_gfx)
KmainLines == <<MIT, Roll>>

LEMMA Joined ==
  ASSUME NEW s \in Seq(CallSet), NEW t \in Seq(CallSet)
  PROVE  /\ s \o t \in Seq(CallSet)
         /\ Len(s \o t) = Len(s) + Len(t)
         /\ \A i \in 1 .. Len(s) : (s \o t)[i] = s[i]
         /\ \A i \in 1 .. Len(t) : (s \o t)[Len(s) + i] = t[i]
<1>1. s \o t \in Seq(CallSet) /\ Len(s \o t) = Len(s) + Len(t)
  BY ConcatProperties
<1>2. \A i \in 1 .. Len(s) : (s \o t)[i] = s[i]
  OBVIOUS
<1>3. \A i \in 1 .. Len(t) : (s \o t)[Len(s) + i] = t[i]
  OBVIOUS
<1> QED BY <1>1, <1>2, <1>3

\* kmain's first calls.
LEMMA OpeningCalls ==
  /\ Opening \in Seq(CallSet) /\ Len(Opening) = 8
  /\ Opening[1] = Call("clear", <<>>, Origin, Origin)
  /\ Opening[2] = SwapAll
  /\ Opening[3] = Move(Origin)
  /\ \A b \in 1 .. 4 : Opening[3 + b] = BlockCall(KmainLines, 0, b)
  /\ Opening[8] = Swap(Origin, At(Far, 2 * CharacterSize))
<1>1. Opening \in Seq(CallSet)
  <2>1. Far \in Nat /\ 2 * CharacterSize \in Nat
    BY ScreenAssumption
  <2>2. At(Far, 2 * CharacterSize) \in Point
    BY <2>1, PointTyped
  <2> QED BY <2>2, CallTyped, ConstantsTyped DEF Opening
<1>2. /\ Len(Opening) = 8
      /\ Opening[1] = Call("clear", <<>>, Origin, Origin)
      /\ Opening[2] = SwapAll
      /\ Opening[3] = Move(Origin)
      /\ Opening[4] = Puts(MIT) /\ Opening[5] = Crlf(0)
      /\ Opening[6] = Puts(Roll) /\ Opening[7] = Crlf(0)
      /\ Opening[8] = Swap(Origin, At(Far, 2 * CharacterSize))
  BY DEF Opening
<1>3. /\ BlockCall(KmainLines, 0, 1) = Puts(MIT) /\ BlockCall(KmainLines, 0, 2) = Crlf(0)
      /\ BlockCall(KmainLines, 0, 3) = Puts(Roll) /\ BlockCall(KmainLines, 0, 4) = Crlf(0)
  BY DEF BlockCall, KmainLines
<1>4. ASSUME NEW b \in 1 .. 4 PROVE Opening[3 + b] = BlockCall(KmainLines, 0, b)
  <2>1. b = 1 \/ b = 2 \/ b = 3 \/ b = 4
    OBVIOUS
  <2> QED BY <1>2, <1>3, <2>1
<1> QED BY <1>1, <1>2, <1>4

LEMMA PanelOffset == ASSUME NEW f \in Framebuffers PROVE debugInfoX(f) \in Nat
<1>1. f.PixelWidth - PanelWidth \in Int /\ Word \in Nat \ {0}
  BY ScreenAssumption DEF Framebuffer
<1> QED BY <1>1 DEF debugInfoX

\* A text's calls.
LEMMA BlockTyped ==
  ASSUME NEW texts \in Seq(Seq(Nat)), NEW offset \in Nat
  PROVE  [b \in 1 .. 2 * Len(texts) |-> BlockCall(texts, offset, b)] \in Seq(CallSet)
<1>1. Len(texts) \in Nat /\ 2 * Len(texts) \in Nat
  OBVIOUS
<1>2. ASSUME NEW b \in 1 .. 2 * Len(texts) PROVE BlockCall(texts, offset, b) \in CallSet
  <2>1. (b + 1) \div 2 \in 1 .. Len(texts)
    BY <1>1, BlockLine
  <2>2. texts[(b + 1) \div 2] \in Seq(Nat)
    BY <2>1
  <2> QED BY <2>2, CallTyped DEF BlockCall
<1> QED BY <1>1, <1>2

\* The calls of a turn.
LEMMA TurnCalls ==
  ASSUME NEW f \in Framebuffers
  PROVE  /\ Turn(f) \in Seq(CallSet) /\ Len(Turn(f)) = 2 * Len(Panel) + 3
         /\ Turn(f)[1] = Move(At(debugInfoX(f), 0))
         /\ Turn(f)[2] = Crlf(debugInfoX(f))
         /\ \A b \in 1 .. 2 * Len(Panel) : Turn(f)[2 + b] = BlockCall(Panel, debugInfoX(f), b)
         /\ Turn(f)[2 * Len(Panel) + 3] = Swap(At(debugInfoX(f), 0), At(Far, PanelHeight))
<1> DEFINE x == debugInfoX(f)
           start == << Move(At(x, 0)), Crlf(x) >>
           lines == [b \in 1 .. 2 * Len(Panel) |-> BlockCall(Panel, x, b)]
           end == << Swap(At(x, 0), At(Far, PanelHeight)) >>
<1>1. x \in Nat /\ Panel \in Seq(Seq(Nat)) /\ Len(Panel) \in Nat /\ Far \in Nat /\ PanelHeight \in Nat
  <2>1. Far \in Nat /\ PanelHeight \in Nat
    BY ScreenAssumption
  <2> QED BY <2>1, PanelOffset, ConstantsTyped
<1>2. lines \in Seq(CallSet) /\ Len(lines) = 2 * Len(Panel)
  <2>1. lines \in Seq(CallSet)
    BY <1>1, BlockTyped
  <2>2. 2 * Len(Panel) \in Nat
    BY <1>1
  <2> QED BY <2>1, <2>2
<1>3. start \in Seq(CallSet) /\ Len(start) = 2 /\ start[1] = Move(At(x, 0)) /\ start[2] = Crlf(x)
  <2> HIDE DEF x
  <2>1. Move(At(x, 0)) \in CallSet /\ Crlf(x) \in CallSet
    BY <1>1, PointTyped, CallTyped
  <2> QED BY <2>1
<1>4. end \in Seq(CallSet) /\ Len(end) = 1 /\ end[1] = Swap(At(x, 0), At(Far, PanelHeight))
  <2> HIDE DEF x
  <2>1. Swap(At(x, 0), At(Far, PanelHeight)) \in CallSet
    BY <1>1, PointTyped, CallTyped
  <2> QED BY <2>1
<1>5. Turn(f) = start \o lines \o end
  BY DEF Turn, BlockCall
<1>6. \A b \in 1 .. 2 * Len(Panel) : lines[b] = BlockCall(Panel, x, b)
  OBVIOUS
<1> HIDE DEF start, lines, end, x
<1>7. /\ start \o lines \in Seq(CallSet) /\ Len(start \o lines) = 2 + 2 * Len(Panel)
      /\ (start \o lines)[1] = start[1] /\ (start \o lines)[2] = start[2]
      /\ \A b \in 1 .. 2 * Len(Panel) : (start \o lines)[2 + b] = lines[b]
  <2>1. /\ start \o lines \in Seq(CallSet) /\ Len(start \o lines) = Len(start) + Len(lines)
        /\ \A i \in 1 .. Len(start) : (start \o lines)[i] = start[i]
        /\ \A i \in 1 .. Len(lines) : (start \o lines)[Len(start) + i] = lines[i]
    BY <1>2, <1>3, Joined
  <2> QED BY <1>2, <1>3, <2>1
<1> DEFINE s == start \o lines
<1>8. /\ s \in Seq(CallSet) /\ Len(s) = 2 + 2 * Len(Panel)
      /\ s[1] = Move(At(x, 0)) /\ s[2] = Crlf(x)
      /\ \A b \in 1 .. 2 * Len(Panel) : s[2 + b] = BlockCall(Panel, x, b)
  BY <1>3, <1>6, <1>7
<1> HIDE DEF s
<1>9. /\ s \o end \in Seq(CallSet) /\ Len(s \o end) = Len(s) + Len(end)
      /\ \A i \in 1 .. Len(s) : (s \o end)[i] = s[i]
      /\ \A i \in 1 .. Len(end) : (s \o end)[Len(s) + i] = end[i]
  BY <1>4, <1>8, Joined
<1>10. /\ Len(s \o end) = 2 * Len(Panel) + 3
       /\ (s \o end)[1] = s[1] /\ (s \o end)[2] = s[2]
       /\ (s \o end)[2 * Len(Panel) + 3] = end[1]
  <2>1. 1 \in 1 .. Len(s) /\ 2 \in 1 .. Len(s) /\ 1 \in 1 .. Len(end)
    BY <1>1, <1>4, <1>8
  <2>2. Len(s) + 1 = 2 * Len(Panel) + 3
    BY <1>1, <1>8
  <2> QED BY <1>1, <1>4, <1>8, <1>9, <2>1, <2>2
<1>11. ASSUME NEW b \in 1 .. 2 * Len(Panel) PROVE (s \o end)[2 + b] = BlockCall(Panel, x, b)
  <2>1. 2 + b \in 1 .. Len(s)
    BY <1>1, <1>8
  <2> QED BY <1>8, <1>9, <2>1
<1> QED BY <1>4, <1>5, <1>8, <1>9, <1>10, <1>11 DEF s, x

\* The kernel's calls, by number.
LEMMA KernelCalls ==
  ASSUME NEW f \in Framebuffers
  PROVE  LET K == Kernel(f)
         IN  /\ BootCalls \in Nat /\ Len(Panel) \in Nat
             /\ LoopStart = BootCalls + 9 /\ Len(K) = BootCalls + 2 * Len(Panel) + 11
             /\ K[BootCalls + 1] = Call("clear", <<>>, Origin, Origin)
             /\ K[BootCalls + 2] = SwapAll
             /\ K[BootCalls + 3] = Move(Origin)
             /\ \A b \in 1 .. 4 : K[BootCalls + 3 + b] = BlockCall(KmainLines, 0, b)
             /\ K[BootCalls + 8] = Swap(Origin, At(Far, 2 * CharacterSize))
             /\ K[BootCalls + 9] = Move(At(debugInfoX(f), 0))
             /\ K[BootCalls + 10] = Crlf(debugInfoX(f))
             /\ \A b \in 1 .. 2 * Len(Panel) :
                    K[BootCalls + 10 + b] = BlockCall(Panel, debugInfoX(f), b)
             /\ K[BootCalls + 2 * Len(Panel) + 11] = Swap(At(debugInfoX(f), 0), At(Far, PanelHeight))
<1> DEFINE L == Len(draw_boot_gfx)
           s == draw_boot_gfx \o Opening
           K == s \o Turn(f)
           n == Len(Panel)
<1>1. L \in Nat /\ n \in Nat /\ LoopStart = L + 9 /\ Kernel(f) = K
  <2>1. L \in Nat /\ n \in Nat
    BY BootTyped, ConstantsTyped
  <2>2. LoopStart = L + 9
    BY <2>1, OpeningCalls DEF LoopStart
  <2> QED BY <2>1, <2>2 DEF Kernel
<1>2. /\ s \in Seq(CallSet) /\ Len(s) = L + 8
      /\ \A i \in 1 .. 8 : s[L + i] = Opening[i]
  <2>1. draw_boot_gfx \in Seq(CallSet) /\ Opening \in Seq(CallSet) /\ Len(Opening) = 8
    BY BootTyped, OpeningCalls
  <2>2. /\ s \in Seq(CallSet) /\ Len(s) = Len(draw_boot_gfx) + Len(Opening)
        /\ \A i \in 1 .. Len(Opening) : s[Len(draw_boot_gfx) + i] = Opening[i]
    BY <2>1, Joined
  <2> QED BY <2>1, <2>2
<1>3. Turn(f) \in Seq(CallSet) /\ Len(Turn(f)) = 2 * n + 3
  BY TurnCalls
<1> HIDE DEF s, n
<1>4. /\ Len(K) = Len(s) + Len(Turn(f))
      /\ \A i \in 1 .. Len(s) : K[i] = s[i]
      /\ \A i \in 1 .. Len(Turn(f)) : K[Len(s) + i] = Turn(f)[i]
  BY <1>2, <1>3, Joined
<1> HIDE DEF K, L
<1>5. /\ Len(K) = L + 2 * n + 11
      /\ \A i \in 1 .. 8 : K[L + i] = Opening[i]
      /\ \A i \in 1 .. 2 * n + 3 : K[L + 8 + i] = Turn(f)[i]
  <2>1. \A i \in 1 .. 8 : L + i \in 1 .. Len(s)
    BY <1>1, <1>2
  <2>2. Len(K) = L + 2 * n + 11
    BY <1>1, <1>2, <1>3, <1>4
  <2> QED BY <1>1, <1>2, <1>3, <1>4, <2>1, <2>2
<1>6. /\ K[L + 1] = Opening[1] /\ K[L + 2] = Opening[2] /\ K[L + 3] = Opening[3]
      /\ K[L + 8] = Opening[8]
  BY <1>5
<1>7. ASSUME NEW b \in 1 .. 4 PROVE K[L + 3 + b] = BlockCall(KmainLines, 0, b)
  <2>1. 3 + b \in 1 .. 8 /\ L + 3 + b = L + (3 + b)
    BY <1>1
  <2>2. K[L + 3 + b] = Opening[3 + b]
    BY <1>5, <2>1
  <2> QED BY <2>2, OpeningCalls
<1>8. K[L + 9] = Turn(f)[1] /\ K[L + 10] = Turn(f)[2] /\ K[L + 2 * n + 11] = Turn(f)[2 * n + 3]
  <2>1. /\ 1 \in 1 .. 2 * n + 3 /\ 2 \in 1 .. 2 * n + 3 /\ 2 * n + 3 \in 1 .. 2 * n + 3
        /\ L + 8 + 1 = L + 9 /\ L + 8 + 2 = L + 10 /\ L + 8 + (2 * n + 3) = L + 2 * n + 11
    BY <1>1
  <2>2. /\ K[L + 8 + 1] = Turn(f)[1] /\ K[L + 8 + 2] = Turn(f)[2]
        /\ K[L + 8 + (2 * n + 3)] = Turn(f)[2 * n + 3]
    BY <1>5, <2>1
  <2> QED BY <2>1, <2>2
<1>9. ASSUME NEW b \in 1 .. 2 * n PROVE K[L + 10 + b] = BlockCall(Panel, debugInfoX(f), b)
  <2>1. 2 + b \in 1 .. 2 * n + 3 /\ L + 10 + b = L + 8 + (2 + b)
    BY <1>1
  <2>2. K[L + 10 + b] = Turn(f)[2 + b]
    BY <1>5, <2>1
  <2> QED BY <2>2, TurnCalls DEF n
<1>10. /\ K[L + 1] = Call("clear", <<>>, Origin, Origin) /\ K[L + 2] = SwapAll
       /\ K[L + 3] = Move(Origin) /\ K[L + 8] = Swap(Origin, At(Far, 2 * CharacterSize))
  BY <1>6, OpeningCalls
<1>11. /\ K[L + 9] = Move(At(debugInfoX(f), 0)) /\ K[L + 10] = Crlf(debugInfoX(f))
       /\ K[L + 2 * n + 11] = Swap(At(debugInfoX(f), 0), At(Far, PanelHeight))
  BY <1>8, TurnCalls DEF n
<1>12. LoopStart = L + 9 /\ Len(K) = L + 2 * n + 11 /\ Kernel(f) = K /\ L \in Nat /\ n \in Nat
  BY <1>1, <1>5
<1> QED BY <1>7, <1>9, <1>10, <1>11, <1>12 DEF BootCalls, L, n

\* panic()'s calls up to its last swap, and what they put on the screen.
PanicEnd(kind) == IF Texts(kind) = <<>> THEN 5 ELSE 2 * Len(Texts(kind)) + 6
PanicUpdate == Swap(PanicStart, At(Far, Far))

LEMMA PanicLinesTyped ==
  ASSUME NEW kind
  PROVE  /\ Texts(kind) \in Seq(Seq(Nat)) /\ PanicLines(kind) \in Seq(Seq(Nat))
         /\ Len(Texts(kind)) \in Nat
         /\ Len(PanicLines(kind)) = Len(Texts(kind)) + 2
         /\ PanicLines(kind)[1] = PanicMode /\ PanicLines(kind)[2] = Message
         /\ \A i \in 1 .. Len(Texts(kind)) : PanicLines(kind)[i + 2] = Texts(kind)[i]
<1>1. Texts(kind) \in Seq(Seq(Nat)) /\ <<PanicMode, Message>> \in Seq(Seq(Nat))
  BY ConstantsTyped DEF Texts
<1> DEFINE t == Texts(kind)
<1> HIDE DEF t
<1>2. /\ <<PanicMode, Message>> \o t \in Seq(Seq(Nat))
      /\ Len(<<PanicMode, Message>> \o t) = 2 + Len(t)
      /\ (<<PanicMode, Message>> \o t)[1] = PanicMode
      /\ (<<PanicMode, Message>> \o t)[2] = Message
      /\ \A i \in 1 .. Len(t) : (<<PanicMode, Message>> \o t)[i + 2] = t[i]
  BY <1>1 DEF t
<1> QED BY <1>1, <1>2 DEF PanicLines, t

\* The calls of Lines, and a swap.
LEMMA LinesCalls ==
  ASSUME NEW texts \in Seq(Seq(Nat))
  PROVE  LET s == Lines(texts) \o Update
         IN  /\ s \in Seq(CallSet) /\ Len(s) = 2 * Len(texts) + 1
             /\ \A b \in 1 .. 2 * Len(texts) : s[b] = BlockCall(texts, PanicStart.x, b)
             /\ s[2 * Len(texts) + 1] = PanicUpdate
<1>1. /\ Lines(texts) \in Seq(CallSet) /\ Len(texts) \in Nat /\ Len(Lines(texts)) = 2 * Len(texts)
      /\ \A b \in 1 .. 2 * Len(texts) : Lines(texts)[b] = BlockCall(texts, PanicStart.x, b)
  <2>1. Len(texts) \in Nat /\ 2 * Len(texts) \in Nat
    OBVIOUS
  <2> QED BY <2>1, LinesTyped DEF Lines, BlockCall
<1>2. Update \in Seq(CallSet) /\ Len(Update) = 1 /\ Update[1] = PanicUpdate
  <2>1. At(Far, Far) \in Point
    BY ScreenAssumption, PointTyped
  <2>2. PanicUpdate \in CallSet
    BY <2>1, CallTyped, ConstantsTyped DEF PanicUpdate
  <2>3. Update = <<PanicUpdate>>
    BY DEF Update, PanicUpdate
  <2> QED BY <2>2, <2>3
<1> DEFINE l == Lines(texts)
           u == Update
<1> HIDE DEF l, u
<1>3. l \in Seq(CallSet) /\ u \in Seq(CallSet) /\ Len(l) = 2 * Len(texts) /\ Len(u) = 1
  BY <1>1, <1>2 DEF l, u
<1>4. /\ l \o u \in Seq(CallSet) /\ Len(l \o u) = Len(l) + Len(u)
      /\ \A i \in 1 .. Len(l) : (l \o u)[i] = l[i]
      /\ \A i \in 1 .. Len(u) : (l \o u)[Len(l) + i] = u[i]
  BY <1>3, Joined
<1>5. (l \o u)[2 * Len(texts) + 1] = u[1]
  BY <1>3, <1>4
<1> QED BY <1>1, <1>2, <1>3, <1>4, <1>5 DEF l, u

LEMMA PanicCalls ==
  ASSUME NEW kind
  PROVE  LET Q == Panic(kind)
             e == PanicEnd(kind)
         IN  /\ Q \in Seq(CallSet)
             /\ e \in Nat /\ e >= 5
             /\ e = IF Len(Texts(kind)) = 0 THEN 5 ELSE 2 * Len(Texts(kind)) + 6
             /\ Len(Q) = IF kind = "page_fault" THEN e + 3 ELSE e
             /\ \A b \in 1 .. 4 : Q[b] = BlockCall(PanicLines(kind), PanicStart.x, b)
             /\ Q[5] = PanicUpdate
             /\ \A b \in 5 .. e - 2 : Q[b + 1] = BlockCall(PanicLines(kind), PanicStart.x, b)
             /\ Q[e] = PanicUpdate
             /\ kind = "page_fault" =>
                   /\ Q[e + 1] = Move(PanicStart)
                   /\ Q[e + 2] = BlockCall(<<Address>>, PanicStart.x, 1)
                   /\ Q[e + 3] = Swap(PanicStart, AddressArea)
<1> DEFINE t == Texts(kind)
           n == Len(t)
           e == PanicEnd(kind)
           x == PanicStart.x
           first == Lines(<<PanicMode, Message>>) \o Update
           more == IF t = <<>> THEN <<>> ELSE Lines(t) \o Update
           last == IF kind = "page_fault"
                   THEN << Move(PanicStart), Puts(Address), Swap(PanicStart, AddressArea) >>
                   ELSE <<>>
           Q == first \o more \o last
<1>1. Panic(kind) = Q
  BY DEF Panic
<1>2. t \in Seq(Seq(Nat)) /\ n \in Nat /\ (n = 0 <=> t = <<>>)
  BY PanicLinesTyped
<1>3. e \in Nat /\ e >= 5 /\ e = IF n = 0 THEN 5 ELSE 2 * n + 6
  BY <1>2 DEF PanicEnd
<1>4. /\ first \in Seq(CallSet) /\ Len(first) = 5
      /\ \A b \in 1 .. 4 : first[b] = BlockCall(<<PanicMode, Message>>, x, b)
      /\ first[5] = PanicUpdate
  <2>1. <<PanicMode, Message>> \in Seq(Seq(Nat)) /\ Len(<<PanicMode, Message>>) = 2
    BY ConstantsTyped
  <2> DEFINE two == <<PanicMode, Message>>
  <2>2. two \in Seq(Seq(Nat)) /\ Len(two) = 2
    BY <2>1
  <2> HIDE DEF two, x
  <2>3. /\ Lines(two) \o Update \in Seq(CallSet) /\ Len(Lines(two) \o Update) = 5
        /\ \A b \in 1 .. 4 : (Lines(two) \o Update)[b] = BlockCall(two, PanicStart.x, b)
        /\ (Lines(two) \o Update)[5] = PanicUpdate
    <3>1. 2 * Len(two) = 4 /\ 2 * Len(two) + 1 = 5
      BY <2>2
    <3> DEFINE r == Lines(two) \o Update
    <3>2. /\ r \in Seq(CallSet) /\ Len(r) = 2 * Len(two) + 1
          /\ \A b \in 1 .. 2 * Len(two) : r[b] = BlockCall(two, PanicStart.x, b)
          /\ r[2 * Len(two) + 1] = PanicUpdate
      BY <2>2, LinesCalls
    <3> HIDE DEF r
    <3> QED BY <3>1, <3>2 DEF r
  <2> QED BY <2>3 DEF two, x
<1>5. /\ more \in Seq(CallSet) /\ Len(more) = e - 5
      /\ \A b \in 1 .. e - 6 : more[b] = BlockCall(t, x, b)
      /\ e > 5 => more[e - 5] = PanicUpdate
  <2>1. CASE n = 0
    <3>1. more = <<>> /\ e = 5
      BY <1>2, <1>3, <2>1
    <3> HIDE DEF more, e
    <3>2. more \in Seq(CallSet) /\ Len(more) = 0 /\ e - 5 = 0 /\ e - 6 = -1 /\ ~(e > 5)
      BY <3>1
    <3> QED BY <3>2
  <2>2. CASE n # 0
    <3>1. more = Lines(t) \o Update /\ e = 2 * n + 6 /\ e - 5 = 2 * n + 1 /\ e - 6 = 2 * n
      BY <1>2, <1>3, <2>2
    <3> HIDE DEF more, e, t
    <3> QED BY <1>2, <3>1, LinesCalls
  <2> QED BY <2>1, <2>2
<1>6. /\ last \in Seq(CallSet) /\ Len(last) = IF kind = "page_fault" THEN 3 ELSE 0
      /\ kind = "page_fault" => /\ last[1] = Move(PanicStart)
                                /\ last[2] = Puts(Address)
                                /\ last[3] = Swap(PanicStart, AddressArea)
  <2>1. << Move(PanicStart), Puts(Address), Swap(PanicStart, AddressArea) >> \in Seq(CallSet)
    BY CallTyped, ConstantsTyped
  <2> QED BY <2>1
<1> HIDE DEF first, more, last, e, t
<1>7. /\ first \o more \in Seq(CallSet) /\ Len(first \o more) = e
      /\ \A i \in 1 .. 5 : (first \o more)[i] = first[i]
      /\ \A i \in 1 .. e - 5 : (first \o more)[5 + i] = more[i]
  <2>1. /\ first \o more \in Seq(CallSet) /\ Len(first \o more) = Len(first) + Len(more)
        /\ \A i \in 1 .. Len(first) : (first \o more)[i] = first[i]
        /\ \A i \in 1 .. Len(more) : (first \o more)[Len(first) + i] = more[i]
    BY <1>4, <1>5, Joined
  <2> QED BY <1>3, <1>4, <1>5, <2>1
<1> DEFINE s == first \o more
<1>8. /\ s \in Seq(CallSet) /\ Len(s) = e
      /\ \A i \in 1 .. 5 : s[i] = first[i]
      /\ \A i \in 1 .. e - 5 : s[5 + i] = more[i]
      /\ Q = s \o last
  BY <1>7
<1> HIDE DEF s, Q
<1>9. /\ Q \in Seq(CallSet) /\ Len(Q) = Len(s) + Len(last)
      /\ \A i \in 1 .. Len(s) : Q[i] = s[i]
      /\ \A i \in 1 .. Len(last) : Q[Len(s) + i] = last[i]
  BY <1>6, <1>8, Joined
<1>10. /\ \A i \in 1 .. 5 : Q[i] = first[i]
       /\ \A i \in 1 .. e - 5 : Q[5 + i] = more[i]
  <2>1. \A i \in 1 .. 5 : i \in 1 .. Len(s)
    BY <1>3, <1>8
  <2>2. \A i \in 1 .. e - 5 : 5 + i \in 1 .. Len(s)
    BY <1>3, <1>8
  <2> QED BY <1>8, <1>9, <2>1, <2>2
<1>11. Q[5] = PanicUpdate /\ Q[e] = PanicUpdate
  <2>1. Q[5] = PanicUpdate
    BY <1>4, <1>10
  <2>2. ASSUME e > 5 PROVE Q[e] = PanicUpdate
    <3>1. e - 5 \in 1 .. e - 5 /\ 5 + (e - 5) = e
      BY <1>3, <2>2
    <3> QED BY <1>5, <1>10, <2>2, <3>1
  <2> QED BY <1>3, <2>1, <2>2
<1>12. ASSUME NEW b \in 1 .. 4 PROVE Q[b] = BlockCall(PanicLines(kind), x, b)
  <2>1. Q[b] = BlockCall(<<PanicMode, Message>>, x, b)
    BY <1>4, <1>10
  <2>2. (b + 1) \div 2 = 1 \/ (b + 1) \div 2 = 2
    OBVIOUS
  <2>3. <<PanicMode, Message>>[(b + 1) \div 2] = PanicLines(kind)[(b + 1) \div 2]
    BY <2>2, PanicLinesTyped
  <2> QED BY <2>1, <2>3 DEF BlockCall
<1>13. ASSUME NEW b \in 5 .. e - 2 PROVE Q[b + 1] = BlockCall(PanicLines(kind), x, b)
  <2>1. n # 0 /\ e = 2 * n + 6
    BY <1>2, <1>3
  <2>2. b - 4 \in 1 .. 2 * n /\ 5 + (b - 4) = b + 1 /\ b - 4 \in 1 .. e - 5 /\ b - 4 \in 1 .. e - 6
    BY <1>2, <2>1
  <2>3. Q[b + 1] = BlockCall(t, x, b - 4)
    <3>1. Q[5 + (b - 4)] = more[b - 4]
      BY <1>10, <2>2
    <3> QED BY <1>5, <2>2, <3>1
  <2>4. /\ (b - 4) % 2 = b % 2 /\ ((b - 4) + 1) \div 2 \in 1 .. n
        /\ (b + 1) \div 2 = ((b - 4) + 1) \div 2 + 2
    BY <1>2, <2>2
  <2>5. PanicLines(kind)[(b + 1) \div 2] = t[((b - 4) + 1) \div 2]
    BY <2>4, PanicLinesTyped DEF t
  <2> QED BY <2>3, <2>4, <2>5 DEF BlockCall
<1>14. ASSUME kind = "page_fault"
       PROVE  /\ Q[e + 1] = Move(PanicStart)
              /\ Q[e + 2] = BlockCall(<<Address>>, x, 1)
              /\ Q[e + 3] = Swap(PanicStart, AddressArea)
  <2>1. 1 \in 1 .. Len(last) /\ 2 \in 1 .. Len(last) /\ 3 \in 1 .. Len(last)
    BY <1>6, <1>14
  <2>2. Q[e + 1] = last[1] /\ Q[e + 2] = last[2] /\ Q[e + 3] = last[3]
    BY <1>8, <1>9, <2>1
  <2>3. BlockCall(<<Address>>, x, 1) = Puts(Address)
    BY DEF BlockCall
  <2> QED BY <1>6, <1>14, <2>2, <2>3
<1>15. Len(Q) = IF kind = "page_fault" THEN e + 3 ELSE e
  <2>1. Len(Q) = e + Len(last)
    BY <1>8, <1>9
  <2>2. CASE kind = "page_fault"
    BY <1>6, <2>1, <2>2
  <2>3. CASE kind # "page_fault"
    <3>1. Len(last) = 0
      BY <1>6, <2>3
    <3> QED BY <1>3, <2>1, <2>3, <3>1
  <2> QED BY <2>2, <2>3
<1> QED BY <1>1, <1>3, <1>9, <1>11, <1>12, <1>13, <1>14, <1>15 DEF e, t

-----------------------------------------------------------------------------
(* What a call does, to the one who makes it and to the buffers.           *)

Contexts == {"kernel", "panic"}
BufferOK == DOMAIN buffer = {"render", "target"} /\ char \in [Contexts -> Nat \ {0}]

CallStep == move \/ putChar \/ putsReturns \/ newLine \/ drawRect \/ clear \/ swapAll \/ swap

\* c is at call h and character k, and at position P.
Goes(c, h, k, P) ==
    /\ pc' = [pc EXCEPT ![c] = h]
    /\ char' = [char EXCEPT ![c] = k]
    /\ pos' = [pos EXCEPT ![c] = P]

Paints(O, pixel) == buffer' = [buffer EXCEPT ![Target] = Painted(fb, buffer[Target], O, pixel)]
Copies(O) ==
    buffer' = [buffer EXCEPT !["render"] = Copied(fb, buffer["render"], buffer[Target], O)]

PutsCharacter(text, k, q) ==
    /\ k <= Len(text)
    /\ Goes(Context, here, k + 1, NextChar(fb, q))
    /\ Paints(Area(fb, q, Glyph), text[k])
PutsNoMore(text, k) ==
    /\ k > Len(text)
    /\ Goes(Context, here + 1, 1, pos[Context])
    /\ UNCHANGED buffer

DoesMove == Goes(Context, here + 1, char[Context], call.at) /\ UNCHANGED buffer
DoesPuts ==
    \/ PutsCharacter(call.text, char[Context], clamp_draw_position(fb, pos[Context]))
    \/ PutsNoMore(call.text, char[Context])
DoesCrlf ==
    Goes(Context, here + 1, char[Context], crlf(pos[Context], call.at.x)) /\ UNCHANGED buffer
DoesRect == \E P : Goes(Context, here + 1, char[Context], P)
DoesClear == Goes(Context, here + 1, char[Context], pos[Context])
DoesSwap ==
    /\ Goes(Context, here + 1, char[Context], pos[Context])
    /\ IF Target = "render" \/ OffScreen(call.at) THEN UNCHANGED buffer
       ELSE Copies(Area(fb, call.at, call.size))
DoesSwapAll == Goes(Context, here + 1, char[Context], pos[Context]) /\ Copies(Offsets(fb))

LEMMA Same ==
  ASSUME TypeOK, BufferOK, NEW c \in Contexts
  PROVE  /\ pc = [pc EXCEPT ![c] = pc[c]]
         /\ char = [char EXCEPT ![c] = char[c]]
         /\ pos = [pos EXCEPT ![c] = pos[c]]
BY DEF TypeOK, BufferOK, Contexts

LEMMA ContextTyped == Context \in Contexts
BY DEF Context, Contexts

LEMMA CallDone ==
  ASSUME TypeOK, BufferOK, CallStep
  PROVE  /\ running # "halted" /\ here <= Len(Program)
         /\ UNCHANGED <<fb, running, began, turned, panics>>
         /\ call.op \in Ops
         /\ call.op # "clear" => UNCHANGED reported
         /\ call.op = "clear" => reported' = {}
         /\ call.op = "move" => DoesMove
         /\ call.op = "puts" => DoesPuts
         /\ call.op = "crlf" => DoesCrlf
         /\ call.op = "rect" => DoesRect
         /\ call.op = "clear" => DoesClear
         /\ call.op = "swap_all" => DoesSwapAll
         /\ call.op = "swap" => DoesSwap
<1>0. /\ pc = [pc EXCEPT ![Context] = pc[Context]]
      /\ char = [char EXCEPT ![Context] = char[Context]]
      /\ pos = [pos EXCEPT ![Context] = pos[Context]]
  BY Same, ContextTyped
<1>1. CASE move
  <2>1. DoesMove
    BY <1>0, <1>1 DEF move, Position, Advance, DoesMove, Goes
  <2> QED BY <1>1, <2>1 DEF move, Calls, Ops
<1>2. CASE putChar
  <2> DEFINE q == clamp_draw_position(fb, pos[Context])
  <2>1. /\ char[Context] <= Len(call.text)
        /\ Write(Area(fb, q, Glyph), Target, call.text[char[Context]])
        /\ Position(NextChar(fb, q))
        /\ char' = [char EXCEPT ![Context] = char[Context] + 1]
        /\ pc' = pc
    BY <1>2 DEF putChar, Glyph
  <2> HIDE DEF q
  <2>2. Paints(Area(fb, q, Glyph), call.text[char[Context]])
    BY <2>1 DEF Write, Paints, Painted
  <2>3. Goes(Context, here, char[Context] + 1, NextChar(fb, q))
    BY <1>0, <2>1 DEF Goes, Position, here
  <2>4. DoesPuts
    BY <2>1, <2>2, <2>3 DEF DoesPuts, PutsCharacter, q
  <2> QED BY <1>2, <2>4 DEF putChar, Calls, Ops
<1>3. CASE putsReturns
  <2>1. Goes(Context, here + 1, 1, pos[Context])
    BY <1>0, <1>3 DEF putsReturns, Advance, Goes
  <2>2. DoesPuts
    BY <1>3, <2>1 DEF putsReturns, DoesPuts, PutsNoMore
  <2> QED BY <1>3, <2>2 DEF putsReturns, Calls, Ops
<1>4. CASE newLine
  <2>1. DoesCrlf
    BY <1>0, <1>4 DEF newLine, Position, Advance, DoesCrlf, Goes
  <2> QED BY <1>4, <2>1 DEF newLine, Calls, Ops
<1>5. CASE drawRect
  <2> DEFINE q == clamp_draw_position(fb, pos[Context])
  <2>1. Goes(Context, here + 1, char[Context], q)
    BY <1>0, <1>5 DEF drawRect, Position, Advance, Goes
  <2>2. DoesRect
    BY <2>1 DEF DoesRect
  <2> QED BY <1>5, <2>2 DEF drawRect, Calls, Ops
<1>6. CASE clear
  <2>1. DoesClear
    BY <1>0, <1>6 DEF clear, Advance, DoesClear, Goes
  <2> QED BY <1>6, <2>1 DEF clear, Calls, Ops
<1>7. CASE swapAll
  <2>1. Goes(Context, here + 1, char[Context], pos[Context])
    BY <1>0, <1>7 DEF swapAll, Advance, Goes
  <2>2. Copies(Offsets(fb))
    BY <1>7 DEF swapAll, Copy, Copies, Copied
  <2> QED BY <1>7, <2>1, <2>2 DEF swapAll, DoesSwapAll, Calls, Ops
<1>8. CASE swap
  <2>1. Goes(Context, here + 1, char[Context], pos[Context])
    BY <1>0, <1>8 DEF swap, Advance, Goes
  <2>2. IF Target = "render" \/ OffScreen(call.at) THEN UNCHANGED buffer
        ELSE Copies(Area(fb, call.at, call.size))
    BY <1>8 DEF swap, Copy, Copies, Copied
  <2> QED BY <1>8, <2>1, <2>2 DEF swap, DoesSwap, Calls, Ops
<1> QED BY <1>1, <1>2, <1>3, <1>4, <1>5, <1>6, <1>7, <1>8 DEF CallStep

\* Where c and the other one are then.
LEMMA Gone ==
  ASSUME TypeOK, BufferOK, NEW c \in Contexts, NEW h, NEW k, NEW P, Goes(c, h, k, P)
  PROVE  /\ pc'[c] = h /\ char'[c] = k /\ pos'[c] = P
         /\ \A d \in Contexts : d # c => pc'[d] = pc[d] /\ char'[d] = char[d] /\ pos'[d] = pos[d]
BY DEF TypeOK, BufferOK, Contexts, Goes

LEMMA BufferInit == Init => BufferOK
BY DEF Init, BufferOK, Contexts

LEMMA BufferStep ==
  ASSUME TypeOK, BufferOK, [Next]_vars
  PROVE  BufferOK'
<1>1. DOMAIN buffer' = DOMAIN buffer
  BY DEF Next, vars, move, putChar, putsReturns, newLine, drawRect, clear, swapAll, swap,
         kmainLoops, panic, panicReturns, Write, Copy
<1>2. char' \in [Contexts -> Nat \ {0}]
  <2>0. char \in [Contexts -> Nat \ {0}] /\ Context \in Contexts
    BY ContextTyped DEF BufferOK
  <2>1. CASE putChar
    BY <2>0, <2>1 DEF putChar
  <2>2. CASE putsReturns
    BY <2>0, <2>2 DEF putsReturns
  <2>3. ASSUME NEW kind \in Kinds, panic(kind) PROVE char' \in [Contexts -> Nat \ {0}]
    BY <2>0, <2>3 DEF panic, Contexts
  <2>4. CASE UNCHANGED char
    BY <2>0, <2>4
  <2> QED BY <2>1, <2>2, <2>3, <2>4 DEF Next, vars, move, newLine, drawRect, clear, swapAll,
                                        swap, kmainLoops, panicReturns
<1> QED BY <1>1, <1>2 DEF BufferOK

\* The buffers.
Both(f, base, buf, texts, p, S) == Has(f, buf[base], texts, p, S) /\ Has(f, buf["render"], texts, p, S)

LEMMA TargetTyped == Target \in {"render", "target"}
BY DEF Target

LEMMA Unpainted ==
  ASSUME TypeOK, BufferOK, NEW texts \in Seq(Seq(Nat)), NEW p \in Point, FitsOn(fb, texts, p),
         NEW S \in SUBSET Cells(texts), NEW O, NEW pixel, Paints(O, pixel),
         Misses(fb, O, texts, p, S)
  PROVE  \A b \in {"render", "target"} : Keeps(fb, buffer[b], buffer'[b], texts, p, S)
<1> TAKE b \in {"render", "target"}
<1>1. Keeps(fb, buffer[b], buffer[b], texts, p, S)
  BY DEF Keeps
<1>2. Keeps(fb, buffer[b], Painted(fb, buffer[b], O, pixel), texts, p, S)
  BY PaintedElsewhere DEF TypeOK
<1>3. CASE b = Target
  BY <1>2, <1>3 DEF Paints, BufferOK
<1>4. CASE b # Target
  BY <1>1, <1>4 DEF Paints, BufferOK
<1> QED BY <1>3, <1>4

LEMMA Uncopied ==
  ASSUME TypeOK, BufferOK, NEW texts \in Seq(Seq(Nat)), NEW p \in Point, FitsOn(fb, texts, p),
         NEW S \in SUBSET Cells(texts), NEW O, Copies(O), Misses(fb, O, texts, p, S)
  PROVE  \A b \in {"render", "target"} : Keeps(fb, buffer[b], buffer'[b], texts, p, S)
<1> TAKE b \in {"render", "target"}
<1>1. Keeps(fb, buffer[b], buffer[b], texts, p, S)
  BY DEF Keeps
<1>2. Keeps(fb, buffer[b], Copied(fb, buffer[b], buffer[Target], O), texts, p, S)
  BY CopiedElsewhere DEF TypeOK
<1>3. CASE b = "render"
  BY <1>2, <1>3 DEF Copies, BufferOK
<1>4. CASE b # "render"
  BY <1>1, <1>4 DEF Copies, BufferOK
<1> QED BY <1>3, <1>4

\* A character of the text itself.
LEMMA Repainted ==
  ASSUME TypeOK, BufferOK, NEW texts \in Seq(Seq(Nat)), NEW p \in Point, FitsOn(fb, texts, p),
         NEW O, NEW pixel, Paints(O, pixel),
         Keeps(fb, buffer[Target], Painted(fb, buffer[Target], O, pixel), texts, p, Cells(texts))
  PROVE  \A b \in {"render", "target"} : Keeps(fb, buffer[b], buffer'[b], texts, p, Cells(texts))
<1> TAKE b \in {"render", "target"}
<1>1. Keeps(fb, buffer[b], buffer[b], texts, p, Cells(texts))
  BY DEF Keeps
<1>3. CASE b = Target
  BY <1>3 DEF Paints, BufferOK
<1>4. CASE b # Target
  BY <1>1, <1>4 DEF Paints, BufferOK
<1> QED BY <1>3, <1>4

LEMMA BothKept ==
  ASSUME NEW texts, NEW p, NEW S, NEW R \in SUBSET S, Both(fb, Target, buffer, texts, p, R),
         \A b \in {"render", "target"} : Keeps(fb, buffer[b], buffer'[b], texts, p, S)
  PROVE  Both(fb, Target, buffer', texts, p, R)
BY TargetTyped DEF Both, Keeps

LEMMA BothCopied ==
  ASSUME TypeOK, BufferOK, NEW texts \in Seq(Seq(Nat)), NEW p \in Point, FitsOn(fb, texts, p),
         NEW S \in SUBSET Cells(texts), NEW O, Copies(O), Both(fb, Target, buffer, texts, p, S)
  PROVE  Both(fb, Target, buffer', texts, p, S)
<1>1. Has(fb, Copied(fb, buffer["render"], buffer[Target], O), texts, p, S)
  BY CopiedSame DEF Both, TypeOK
<1>2. Has(fb, buffer'["render"], texts, p, S)
  BY <1>1 DEF Copies, BufferOK
<1>3. CASE Target = "render"
  BY <1>2, <1>3 DEF Both
<1>4. CASE Target # "render"
  <2>1. buffer'[Target] = buffer[Target]
    BY <1>4, TargetTyped DEF Copies, BufferOK
  <2> QED BY <1>2, <2>1 DEF Both
<1> QED BY <1>3, <1>4

\* A swap of all that a text covers.
LEMMA Swapped ==
  ASSUME TypeOK, BufferOK, NEW texts \in Seq(Seq(Nat)), NEW p \in Point, FitsOn(fb, texts, p),
         NEW S \in SUBSET Cells(texts), Has(fb, buffer[Target], texts, p, S),
         NEW O, \A c \in S : CellArea(fb, p, c) \subseteq O,
         \/ Target = "render" /\ UNCHANGED buffer
         \/ Copies(O)
  PROVE  Both(fb, Target, buffer', texts, p, S)
<1>1. CASE Target = "render" /\ UNCHANGED buffer
  BY <1>1 DEF Both
<1>2. CASE Copies(O)
  <2>1. Has(fb, Copied(fb, buffer["render"], buffer[Target], O), texts, p, S)
    BY CopiedAll DEF TypeOK
  <2>2. Has(fb, buffer'["render"], texts, p, S)
    BY <1>2, <2>1 DEF Copies, BufferOK
  <2>3. CASE Target = "render"
    BY <2>2, <2>3 DEF Both
  <2>4. CASE Target # "render"
    <3>1. buffer'[Target] = buffer[Target]
      BY <1>2, <2>4, TargetTyped DEF Copies, BufferOK
    <3> QED BY <2>2, <3>1 DEF Both
  <2> QED BY <2>3, <2>4
<1> QED BY <1>1, <1>2

-----------------------------------------------------------------------------
(* A step of a text's program.                                             *)

LEMMA BlockDoes ==
  ASSUME TypeOK, BufferOK, CallStep, NEW texts, NEW offset, NEW b,
         call = BlockCall(texts, offset, b)
  PROVE  LET text == texts[(b + 1) \div 2]
             k == char[Context]
         IN  /\ UNCHANGED <<fb, running, began, reported, turned, panics>>
             /\ b % 2 = 1 => \/ PutsCharacter(text, k, clamp_draw_position(fb, pos[Context]))
                             \/ PutsNoMore(text, k)
             /\ b % 2 # 1 => /\ Goes(Context, here + 1, k, crlf(pos[Context], offset))
                             /\ UNCHANGED buffer
<1>1. CASE b % 2 = 1
  <2>1. call.op = "puts" /\ call.text = texts[(b + 1) \div 2]
    BY <1>1 DEF BlockCall, Puts, Call
  <2> QED BY <1>1, <2>1, CallDone DEF DoesPuts
<1>2. CASE b % 2 # 1
  <2>1. call.op = "crlf" /\ call.at.x = offset
    BY <1>2 DEF BlockCall, Crlf, Call, At
  <2> QED BY <1>2, <2>1, CallDone DEF DoesCrlf
<1> QED BY <1>1, <1>2

\* The one who draws is at call d of the text, and has drawn in it only.
BlockGoes(texts, p, b, d) ==
    /\ pc'[Context] = here + (d - b)
    /\ InBlock(fb, buffer'[Target], texts, p, d, char'[Context], pos'[Context])
DrewIn(texts, p) ==
    /\ \A base \in {"render", "target"} :
          Keeps(fb, buffer[base], buffer'[base], texts, p, Cells(texts))
    /\ \/ UNCHANGED buffer
       \/ \E c \in Cells(texts) : \E pixel : Paints(CellArea(fb, p, c), pixel)

LEMMA BlockStep ==
  ASSUME TypeOK, BufferOK, CallStep, NEW texts \in Seq(Seq(Nat)), NEW p \in Point,
         FitsOn(fb, texts, p), NEW b \in 1 .. 2 * Len(texts), call = BlockCall(texts, p.x, b),
         InBlock(fb, buffer[Target], texts, p, b, char[Context], pos[Context])
  PROVE  /\ BlockGoes(texts, p, b, b) \/ BlockGoes(texts, p, b, b + 1)
         /\ DrewIn(texts, p)
<1> DEFINE i == (b + 1) \div 2
           k == char[Context]
           P == pos[Context]
           q == clamp_draw_position(fb, P)
<1>0. Context \in Contexts /\ Target \in {"render", "target"} /\ here \in Nat
  BY ContextTyped, TargetTyped DEF here, TypeOK, Contexts
<1>a. fb \in Framebuffers
  BY DEF TypeOK
<1>b. here + (b - b) = here /\ here + ((b + 1) - b) = here + 1
  BY <1>0
<1>c. ASSUME UNCHANGED buffer PROVE DrewIn(texts, p)
  BY <1>c DEF DrewIn, Keeps
<1>1. CASE b % 2 = 1 /\ PutsCharacter(texts[i], k, q)
  <2>1. /\ k <= Len(texts[i])
        /\ Goes(Context, here, k + 1, NextChar(fb, q))
        /\ Paints(Area(fb, q, Glyph), texts[i][k])
    BY <1>1 DEF PutsCharacter
  <2> DEFINE C == Painted(fb, buffer[Target], Area(fb, q, Glyph), texts[i][k])
  <2>2. /\ q = P /\ <<i, k>> \in Cells(texts) /\ P = Cell(p, i, k)
        /\ InBlock(fb, C, texts, p, b, k + 1, NextChar(fb, q))
        /\ Keeps(fb, buffer[Target], C, texts, p, Cells(texts))
    BY <1>a, <1>1, <2>1, BlockPuts
  <2>3. buffer'[Target] = C
    BY <1>0, <2>1 DEF Paints, BufferOK
  <2>4. pc'[Context] = here /\ char'[Context] = k + 1 /\ pos'[Context] = NextChar(fb, q)
    BY <1>0, <2>1, Gone
  <2>5. BlockGoes(texts, p, b, b)
    BY <1>b, <2>2, <2>3, <2>4 DEF BlockGoes
  <2>6. \A base \in {"render", "target"} :
            Keeps(fb, buffer[base], buffer'[base], texts, p, Cells(texts))
    BY <2>1, <2>2, Repainted
  <2>7. Paints(CellArea(fb, p, <<i, k>>), texts[i][k])
    BY <2>1, <2>2 DEF CellArea
  <2> QED BY <2>2, <2>5, <2>6, <2>7 DEF DrewIn
<1>2. CASE b % 2 = 1 /\ PutsNoMore(texts[i], k)
  <2>1. k > Len(texts[i]) /\ Goes(Context, here + 1, 1, P) /\ UNCHANGED buffer
    BY <1>2 DEF PutsNoMore
  <2>2. pc'[Context] = here + 1 /\ char'[Context] = 1 /\ pos'[Context] = P
    BY <1>0, <2>1, Gone
  <2>3. InBlock(fb, buffer[Target], texts, p, b + 1, 1, P)
    BY <1>2, <2>1, BlockReturns
  <2> QED BY <1>b, <1>c, <2>1, <2>2, <2>3 DEF BlockGoes
<1>3. CASE b % 2 # 1
  <2>1. Goes(Context, here + 1, k, crlf(P, p.x)) /\ UNCHANGED buffer
    BY <1>3, BlockDoes
  <2>2. pc'[Context] = here + 1 /\ char'[Context] = k /\ pos'[Context] = crlf(P, p.x)
    BY <1>0, <2>1, Gone
  <2>3. InBlock(fb, buffer[Target], texts, p, b + 1, k, crlf(P, p.x))
    BY <1>3, BlockBreaks
  <2> QED BY <1>b, <1>c, <2>1, <2>2, <2>3 DEF BlockGoes
<1>4. b % 2 = 1 => PutsCharacter(texts[i], k, q) \/ PutsNoMore(texts[i], k)
  BY BlockDoes
<1> QED BY <1>1, <1>2, <1>3, <1>4

-----------------------------------------------------------------------------
(***************************************************************************)
(* kmain's lines.  In Opening they are drawn into Target and copied.  The  *)
(* turns draw only below and beside them, wherever the panel's lines break *)
(* (PastRoll), and panics below PanicStart.  The panel, if it fits, is     *)
(* drawn and copied once, and then again over itself, character by         *)
(* character.                                                              *)
(***************************************************************************)
PanelAt(f) == At(debugInfoX(f), CharacterSize)
PastRoll(f, P) ==
    /\ P.y >= CharacterSize
    /\ P.y >= 2 * CharacterSize \/ P.x >= debugInfoX(f)

\* With the kernel at call h, character k and position P.
LinesAt(f, base, buf, h, k, P) ==
    /\ \A b \in 1 .. 5 : h = BootCalls + 3 + b =>
          InBlock(f, buf[base], KmainLines, Origin, b, k, P)
    /\ h >= LoopStart => Both(f, base, buf, KmainLines, Origin, Cells(KmainLines))
    /\ h = LoopStart + 1 => P = At(debugInfoX(f), 0)
    /\ h > LoopStart + 1 => PastRoll(f, P)

PanelShown(f, base, buf, h, k, P, shown) ==
    /\ \A b \in 1 .. 2 * Len(Panel) + 1 : h = BootCalls + 10 + b =>
          InBlock(f, buf[base], Panel, PanelAt(f), b, k, P)
    /\ h > BootCalls + 2 * Len(Panel) + 11 \/ shown =>
          Both(f, base, buf, Panel, PanelAt(f), Cells(Panel))

PanelFits == Room /\ Fits(Panel, PanelAt(fb))

Progress ==
    /\ pc["kernel"] <= BootCalls + 2 * Len(Panel) + 12
    /\ char["kernel"] # 1 =>
          /\ pc["kernel"] <= BootCalls + 2 * Len(Panel) + 11
          /\ Kernel(fb)[pc["kernel"]].op = "puts"
    /\ turned => pc["kernel"] >= LoopStart
    /\ pos["panic"].y >= Lesser(PanicStart.y, fb.PixelHeight)
LinesInv == LinesAt(fb, Target, buffer, pc["kernel"], char["kernel"], pos["kernel"])
PanelInv == PanelShown(fb, Target, buffer, pc["kernel"], char["kernel"], pos["kernel"], turned)

KmainInv == Progress /\ (Room => LinesInv) /\ (PanelFits => PanelInv)

\* Where there is room for kmain's lines.
LEMMA RoomMeans ==
  ASSUME TypeOK, Room
  PROVE  /\ KmainLines \in Seq(Seq(Nat)) /\ Len(KmainLines) = 2 /\ Origin \in Point
         /\ FitsOn(fb, KmainLines, Origin)
         /\ fb.PixelWidth \in Nat /\ fb.PixelHeight \in Nat /\ CharWidth \in Nat
         /\ CharacterSize \in Nat /\ CharacterSize > 0
         /\ 2 * CharacterSize <= fb.PixelHeight
         /\ Len(Roll) * CharWidth \in Nat /\ Len(Roll) \in Nat
         /\ PanelWidth \in Nat /\ PanelWidth + Len(Roll) * CharWidth <= fb.PixelWidth
         /\ debugInfoX(fb) = fb.PixelWidth - PanelWidth
         /\ debugInfoX(fb) \in Nat
         /\ Len(Roll) * CharWidth <= debugInfoX(fb)
<1>1. KmainLines \in Seq(Seq(Nat)) /\ Len(KmainLines) = 2 /\ Origin \in Point
  BY ConstantsTyped DEF KmainLines
<1>2. FitsOn(fb, KmainLines, Origin)
  BY DEF Room, Fits, FitsOn, KmainLines
<1>3. /\ fb.PixelWidth \in Nat /\ fb.PixelHeight \in Nat /\ fb.PixelWidth < Word
      /\ CharacterSize \in Nat /\ CharacterSize > 0 /\ CharWidth \in Nat /\ PanelWidth \in Nat
  BY ScreenAssumption DEF TypeOK, Framebuffer
<1>4. 2 * CharacterSize <= fb.PixelHeight
  <2>1. Origin.y + Len(KmainLines) * CharacterSize <= fb.PixelHeight /\ Origin.y = 0
    BY <1>2 DEF FitsOn, Origin
  <2> QED BY <1>1, <1>3, <2>1
<1>5. Len(Roll) \in Nat /\ Len(Roll) * CharWidth \in Nat
  <2>1. Len(Roll) \in Nat
    BY ConstantsTyped
  <2> QED BY <1>3, <2>1, Multiple
<1>6. PanelWidth + Len(Roll) * CharWidth <= fb.PixelWidth
  BY <1>3, <1>5 DEF Room
<1> DEFINE r == Len(Roll) * CharWidth
<1>7. r \in Nat /\ PanelWidth + r <= fb.PixelWidth
  BY <1>5, <1>6
<1> HIDE DEF r
<1>8. debugInfoX(fb) = fb.PixelWidth - PanelWidth
  <2>1. /\ fb.PixelWidth - PanelWidth \in Nat /\ fb.PixelWidth - PanelWidth < Word
        /\ Word \in Nat \ {0}
    BY <1>3, <1>7, ScreenAssumption
  <2>2. (fb.PixelWidth - PanelWidth) % Word = fb.PixelWidth - PanelWidth
    BY <2>1
  <2> QED BY <2>2 DEF debugInfoX
<1>9. debugInfoX(fb) \in Nat /\ r <= debugInfoX(fb)
  BY <1>3, <1>7, <1>8
<1> QED BY <1>1, <1>2, <1>3, <1>4, <1>5, <1>6, <1>8, <1>9 DEF r

\* What is drawn past the second line misses both.
LEMMA PastRollMisses ==
  ASSUME TypeOK, Room, NEW P \in Point, PastRoll(fb, P)
  PROVE  LET q == clamp_draw_position(fb, P)
         IN  /\ Misses(fb, Area(fb, q, Glyph), KmainLines, Origin, Cells(KmainLines))
             /\ PastRoll(fb, NextChar(fb, q))
<1> DEFINE q == clamp_draw_position(fb, P)
           x0 == debugInfoX(fb)
<1>0. fb \in Framebuffers
  BY DEF TypeOK
<1>1. /\ x0 \in Nat /\ x0 <= fb.PixelWidth /\ CharacterSize \in Nat /\ CharacterSize > 0
      /\ CharWidth \in Nat
      /\ fb.PixelWidth \in Nat /\ fb.PixelHeight \in Nat /\ 2 * CharacterSize <= fb.PixelHeight
  <2>1. x0 = fb.PixelWidth - PanelWidth /\ PanelWidth \in Nat
    BY RoomMeans
  <2> HIDE DEF x0
  <2>2. /\ CharacterSize \in Nat /\ CharacterSize > 0 /\ CharWidth \in Nat
        /\ fb.PixelWidth \in Nat /\ fb.PixelHeight \in Nat /\ 2 * CharacterSize <= fb.PixelHeight
        /\ x0 \in Nat
    BY RoomMeans DEF x0
  <2> QED BY <2>1, <2>2
<1>2. Visible(fb, q)
  BY <1>0, Clamped DEF Visible
<1>3. q = At(Lesser(P.x, fb.PixelWidth), Lesser(P.y, fb.PixelHeight)) /\ P.x \in Nat /\ P.y \in Nat
  BY DEF clamp_draw_position, Point
<1>4. P.y >= CharacterSize /\ (P.y >= 2 * CharacterSize \/ P.x >= x0)
  BY DEF PastRoll
<1> HIDE DEF q, x0
<1>5. q.x = Lesser(P.x, fb.PixelWidth) /\ q.y = Lesser(P.y, fb.PixelHeight)
  BY <1>3 DEF At
<1>6. /\ q.x \in Nat /\ q.y \in Nat /\ q.y >= CharacterSize
      /\ q.y >= 2 * CharacterSize \/ q.x >= x0
  BY <1>1, <1>3, <1>4, <1>5 DEF Lesser
<1>7. PastRoll(fb, NextChar(fb, q))
  <2>1. NextChar(fb, q) = At(0, q.y + CharacterSize) \/ NextChar(fb, q) = At(q.x + CharWidth, q.y)
    BY DEF NextChar
  <2>2. CASE NextChar(fb, q) = At(0, q.y + CharacterSize)
    <3>1. NextChar(fb, q).y = q.y + CharacterSize
      BY <2>2 DEF At
    <3> QED BY <1>1, <1>6, <3>1 DEF PastRoll
  <2>3. CASE NextChar(fb, q) = At(q.x + CharWidth, q.y)
    <3>1. NextChar(fb, q).y = q.y /\ NextChar(fb, q).x = q.x + CharWidth
      BY <2>3 DEF At
    <3> QED BY <1>1, <1>6, <3>1 DEF PastRoll, x0
  <2> QED BY <2>1, <2>2, <2>3
<1>8. Misses(fb, Area(fb, q, Glyph), KmainLines, Origin, Cells(KmainLines))
  <2> SUFFICES ASSUME NEW c \in Cells(KmainLines)
               PROVE  CellArea(fb, Origin, c) \cap Area(fb, q, Glyph) = {}
    BY DEF Misses
  <2> DEFINE r == Cell(Origin, c[1], c[2])
  <2>1. /\ KmainLines \in Seq(Seq(Nat)) /\ Origin \in Point /\ FitsOn(fb, KmainLines, Origin)
        /\ Len(KmainLines) = 2 /\ Origin.x = 0 /\ Origin.y = 0
    BY RoomMeans DEF Origin
  <2>2. /\ c[1] \in Nat \ {0} /\ c[2] \in Nat \ {0} /\ Visible(fb, r)
        /\ r.y + CharacterSize <= Origin.y + 2 * CharacterSize
    BY <1>0, <2>1, CellOnScreen
  <2>3. r.x = 0 + (c[2] - 1) * CharWidth /\ r.y = 0 + (c[1] - 1) * CharacterSize
    <3>1. r.x = Origin.x + (c[2] - 1) * CharWidth /\ r.y = Origin.y + (c[1] - 1) * CharacterSize
      BY <2>1, <2>2, CellPlace
    <3> HIDE DEF r
    <3> QED BY <2>1, <3>1
  <2>4. c[1] = 1 \/ c[1] = 2
    <3>1. c[1] \in DOMAIN KmainLines
      BY DEF Cells
    <3> QED BY <3>1 DEF KmainLines
  <2>5. Glyph \in Point /\ Glyph.x = CharWidth /\ Glyph.y = CharacterSize
    BY GlyphTyped
  <2>6. r.y + CharacterSize <= q.y \/ r.x + CharWidth <= q.x
    <3>1. CASE c[1] = 1
      <4>1. r.y = 0
        BY <1>1, <2>3, <3>1
      <4> QED BY <1>1, <1>6, <4>1
    <3>2. CASE c[1] = 2 /\ q.y >= 2 * CharacterSize
      <4>1. r.y \in Nat
        BY <2>2 DEF Visible, Point
      <4> HIDE DEF r
      <4>2. r.y + CharacterSize <= 2 * CharacterSize
        BY <1>1, <2>1, <2>2, <4>1
      <4> QED BY <1>1, <1>6, <3>2, <4>1, <4>2
    <3>3. CASE c[1] = 2 /\ q.x >= x0
      <4>1. c[2] \in 1 .. Len(Roll) /\ Len(Roll) \in Nat
        <5>1. c[2] \in DOMAIN KmainLines[c[1]]
          BY DEF Cells
        <5>2. KmainLines[2] = Roll /\ Roll \in Seq(Nat)
          BY ConstantsTyped DEF KmainLines
        <5> QED BY <3>3, <5>1, <5>2
      <4>2. (c[2] - 1) * CharWidth + CharWidth <= Len(Roll) * CharWidth
        <5>1. c[2] - 1 \in Nat /\ (c[2] - 1) + 1 <= Len(Roll) /\ (c[2] - 1) + 1 \in Nat
          BY <4>1
        <5>2. ((c[2] - 1) + 1) * CharWidth <= Len(Roll) * CharWidth
          BY <1>1, <4>1, <5>1, Multiple
        <5>3. ((c[2] - 1) + 1) * CharWidth = (c[2] - 1) * CharWidth + CharWidth
          BY <1>1, <5>1, Multiple
        <5> QED BY <5>2, <5>3
      <4> DEFINE dx == (c[2] - 1) * CharWidth
                 w == Len(Roll) * CharWidth
      <4>3. r.x = 0 + dx /\ dx + CharWidth <= w /\ w <= x0 /\ dx \in Nat /\ w \in Nat
        <5>1. dx \in Nat
          BY <2>2, <2>1, CellPlace
        <5> QED BY <2>3, <4>2, <5>1, RoomMeans DEF x0
      <4> HIDE DEF dx, w, r
      <4> QED BY <1>1, <1>6, <3>3, <4>3
    <3> QED BY <1>6, <2>4, <3>1, <3>2, <3>3
  <2>7. Area(fb, r, Glyph) \cap Area(fb, q, Glyph) = {}
    <3> HIDE DEF r
    <3> QED BY <1>0, <1>2, <2>2, <2>5, <2>6, Apart
  <2> QED BY <2>7 DEF CellArea
<1> QED BY <1>7, <1>8 DEF q

-----------------------------------------------------------------------------
(* The kernel's own steps.                                                 *)

LEMMA InKernel ==
  ASSUME TypeOK, running = "kernel"
  PROVE  /\ Context = "kernel" /\ here = pc["kernel"] /\ Program = Kernel(fb)
         /\ call = Kernel(fb)[pc["kernel"]]
         /\ pc["kernel"] \in Nat \ {0} /\ fb \in Framebuffers
BY DEF TypeOK, Context, here, Program, call

\* The kernel goes to the next call, or stays at one of puts.
LEMMA KernelGoes ==
  ASSUME TypeOK, BufferOK, Progress, CallStep, running = "kernel"
  PROVE  /\ pc'["kernel"] = pc["kernel"] \/ pc'["kernel"] = pc["kernel"] + 1
         /\ call.op # "puts" =>
               pc'["kernel"] = pc["kernel"] + 1 /\ char["kernel"] = 1 /\ char'["kernel"] = 1
         /\ pc["kernel"] <= BootCalls + 2 * Len(Panel) + 11
         /\ pos'["panic"] = pos["panic"]
         /\ Progress'
<1>1. /\ Context = "kernel" /\ here = pc["kernel"] /\ call = Kernel(fb)[pc["kernel"]]
      /\ pc["kernel"] \in Nat \ {0} /\ fb \in Framebuffers
  BY InKernel
<1>2. pc["kernel"] <= Len(Kernel(fb))
  BY <1>1, CallDone, InKernel
<1>3. /\ BootCalls \in Nat /\ Len(Panel) \in Nat /\ LoopStart = BootCalls + 9
      /\ Len(Kernel(fb)) = BootCalls + 2 * Len(Panel) + 11
  BY <1>1, KernelCalls
<1>4. /\ call.op \in Ops
      /\ call.op = "move" => DoesMove
      /\ call.op = "puts" => DoesPuts
      /\ call.op = "crlf" => DoesCrlf
      /\ call.op = "rect" => DoesRect
      /\ call.op = "clear" => DoesClear
      /\ call.op = "swap_all" => DoesSwapAll
      /\ call.op = "swap" => DoesSwap
  BY CallDone
<1>5. fb' = fb /\ turned' = turned
  BY CallDone
<1>6. CASE call.op # "puts"
  <2>1. \E P : Goes("kernel", pc["kernel"] + 1, char["kernel"], P)
    BY <1>1, <1>4, <1>6 DEF DoesMove, DoesCrlf, DoesRect, DoesClear, DoesSwapAll, DoesSwap, Ops
  <2>2. char["kernel"] = 1
    BY <1>1, <1>6 DEF Progress
  <2>3. /\ pc'["kernel"] = pc["kernel"] + 1 /\ char'["kernel"] = 1
        /\ pos'["panic"] = pos["panic"]
    BY <2>1, <2>2, Gone DEF Contexts
  <2>4. Progress'
    BY <1>1, <1>2, <1>3, <1>5, <2>3 DEF Progress
  <2> QED BY <1>2, <1>3, <1>6, <2>2, <2>3, <2>4
<1>7. CASE call.op = "puts"
  <2>1. \/ \E k, P : Goes("kernel", pc["kernel"], k, P)
        \/ \E P : Goes("kernel", pc["kernel"] + 1, 1, P)
    BY <1>1, <1>4, <1>7 DEF DoesPuts, PutsCharacter, PutsNoMore
  <2>2. /\ pos'["panic"] = pos["panic"]
        /\ \/ pc'["kernel"] = pc["kernel"]
           \/ pc'["kernel"] = pc["kernel"] + 1 /\ char'["kernel"] = 1
    BY <2>1, Gone DEF Contexts
  <2>3. CASE pc'["kernel"] = pc["kernel"]
    <3>1. Kernel(fb')[pc'["kernel"]].op = "puts"
      BY <1>1, <1>5, <1>7, <2>3
    <3>2. Progress'
      BY <1>1, <1>2, <1>3, <1>5, <2>2, <2>3, <3>1 DEF Progress
    <3> QED BY <1>2, <1>3, <1>7, <2>2, <2>3, <3>2
  <2>4. CASE pc'["kernel"] = pc["kernel"] + 1 /\ char'["kernel"] = 1
    <3>1. Progress'
      BY <1>1, <1>2, <1>3, <1>5, <2>2, <2>4 DEF Progress
    <3> QED BY <1>2, <1>3, <1>7, <2>2, <2>4, <3>1
  <2> QED BY <2>2, <2>3, <2>4
<1> QED BY <1>6, <1>7

\* What a swap of an area on the screen does.
LEMMA SwapDone ==
  ASSUME TypeOK, BufferOK, CallStep, NEW at \in Point, NEW size, call = Swap(at, size),
         at.x <= fb.PixelWidth, at.y <= fb.PixelHeight
  PROVE  /\ Goes(Context, here + 1, char[Context], pos[Context])
         /\ \/ Target = "render" /\ UNCHANGED buffer
            \/ Copies(Area(fb, at, size))
<1>1. call.op = "swap" /\ call.at = at /\ call.size = size
  BY DEF Swap, Call
<1>2. DoesSwap
  BY <1>1, CallDone
<1>3. ~OffScreen(at)
  <2>1. /\ at.x \in Nat /\ at.y \in Nat /\ fb \in Framebuffers
        /\ fb.PixelWidth \in Nat /\ fb.PixelHeight \in Nat
    BY ScreenAssumption DEF Point, TypeOK, Framebuffer
  <2> QED BY <2>1 DEF OffScreen
<1> QED BY <1>1, <1>2, <1>3 DEF DoesSwap

\* Where the kernel is: in the panel's lines, in its own, or at the calls between.
LEMMA KernelPlaces ==
  ASSUME NEW h \in Nat \ {0}, NEW l \in Nat, NEW n \in Nat, h <= l + 2 * n + 11
  PROVE  \/ h <= l + 2
         \/ h = l + 3
         \/ \E b \in 1 .. 4 : h = l + 3 + b
         \/ h = l + 8 \/ h = l + 9 \/ h = l + 10
         \/ \E b \in 1 .. 2 * n : h = l + 10 + b
         \/ h = l + 2 * n + 11
<1>1. CASE h <= l + 3
  BY <1>1
<1>2. CASE h > l + 3 /\ h < l + 8
  <2>1. h - (l + 3) \in 1 .. 4 /\ h = l + 3 + (h - (l + 3))
    BY <1>2
  <2> QED BY <2>1
<1>3. CASE h >= l + 8 /\ h <= l + 10
  BY <1>3
<1>4. CASE h > l + 10 /\ h < l + 2 * n + 11
  <2>1. h - (l + 10) \in 1 .. 2 * n /\ h = l + 10 + (h - (l + 10))
    BY <1>4
  <2> QED BY <2>1
<1> QED BY <1>1, <1>2, <1>3, <1>4

\* Nothing is copied that both have already, and nothing is shown that both have not.
LEMMA CopiedOrSame ==
  ASSUME TypeOK, BufferOK, NEW texts \in Seq(Seq(Nat)), NEW p \in Point, FitsOn(fb, texts, p),
         Both(fb, Target, buffer, texts, p, Cells(texts)),
         NEW O, (Target = "render" /\ UNCHANGED buffer) \/ Copies(O)
  PROVE  Both(fb, Target, buffer', texts, p, Cells(texts))
<1>1. CASE UNCHANGED buffer
  BY <1>1
<1>2. CASE Copies(O)
  BY <1>2, BothCopied
<1> QED BY <1>1, <1>2

\* The lines that are drawn first, and where the swap after them begins.
LEMMA OpeningCopied ==
  ASSUME TypeOK, Room, NEW c \in Cells(KmainLines)
  PROVE  CellArea(fb, Origin, c) \subseteq Area(fb, Origin, At(Far, 2 * CharacterSize))
<1> DEFINE q == Cell(Origin, c[1], c[2])
<1>1. /\ KmainLines \in Seq(Seq(Nat)) /\ Len(KmainLines) = 2 /\ Origin \in Point
      /\ FitsOn(fb, KmainLines, Origin) /\ Origin.x = 0 /\ Origin.y = 0
      /\ fb \in Framebuffers /\ fb.PixelWidth \in Nat /\ fb.PixelHeight \in Nat
      /\ CharacterSize \in Nat
  BY RoomMeans DEF Origin, TypeOK
<1>2. /\ Visible(fb, q) /\ q.y + CharacterSize <= Origin.y + 2 * CharacterSize
      /\ Origin.x <= q.x /\ Origin.y <= q.y
  BY <1>1, CellOnScreen
<1> DEFINE size == At(Far, 2 * CharacterSize)
<1>3. size \in Point /\ size.x = Far /\ size.y = 2 * CharacterSize /\ fb.PixelWidth <= Far
  <2>1. Far \in Nat /\ 2 * CharacterSize \in Nat
    BY <1>1, ScreenAssumption
  <2>2. fb.PixelWidth <= Far
    BY <1>1, LayoutAssumption
  <2> QED BY <2>1, <2>2 DEF At, Point
<1>4. Visible(fb, Origin) /\ Glyph \in Point /\ Glyph.y = CharacterSize
  BY <1>1, GlyphTyped DEF Visible
<1> HIDE DEF q, size
<1>5. /\ fb.PixelWidth <= Origin.x + size.x
      /\ q.y + Glyph.y <= Origin.y + size.y
  <2>1. Far \in Nat
    BY ScreenAssumption
  <2> QED BY <1>1, <1>2, <1>3, <1>4, <2>1
<1>6. Area(fb, q, Glyph) \subseteq Area(fb, Origin, size)
  BY <1>1, <1>2, <1>3, <1>4, <1>5, Inside
<1> QED BY <1>6 DEF CellArea, q, size

LEMMA LinesStep ==
  ASSUME TypeOK, BufferOK, Progress, Room, LinesInv, CallStep, running = "kernel"
  PROVE  LinesAt(fb, Target, buffer', pc'["kernel"], char'["kernel"], pos'["kernel"])
<1> DEFINE h == pc["kernel"]
           k == char["kernel"]
           P == pos["kernel"]
           n == Len(Panel)
           L == BootCalls
<1> DEFINE Goal == LinesAt(fb, Target, buffer', pc'["kernel"], char'["kernel"], pos'["kernel"])
<1>1. /\ Context = "kernel" /\ here = h /\ call = Kernel(fb)[h] /\ h \in Nat \ {0}
      /\ fb \in Framebuffers /\ P \in Point
  BY InKernel DEF TypeOK
<1>2. L \in Nat /\ n \in Nat /\ LoopStart = L + 9
  BY <1>1, KernelCalls
<1>3. /\ pc'["kernel"] = h \/ pc'["kernel"] = h + 1
      /\ call.op # "puts" => pc'["kernel"] = h + 1 /\ k = 1 /\ char'["kernel"] = 1
      /\ h <= L + 2 * n + 11
  BY KernelGoes
<1>4. /\ KmainLines \in Seq(Seq(Nat)) /\ Len(KmainLines) = 2 /\ Origin \in Point
      /\ FitsOn(fb, KmainLines, Origin) /\ debugInfoX(fb) \in Nat
      /\ Origin.x = 0 /\ Origin.y = 0
  BY RoomMeans DEF Origin
<1>5. LinesAt(fb, Target, buffer, h, k, P)
  BY DEF LinesInv
<1> DEFINE InLines == \E b \in 1 .. 4 : h = L + 3 + b
           InPanel == \E b \in 1 .. 2 * n : h = L + 10 + b
<1> HIDE DEF h, k, P, n, L, Goal, InLines, InPanel
<1>6. CASE h <= L + 2
  <2>1. pc'["kernel"] <= L + 3 /\ pc'["kernel"] \in Nat
    BY <1>1, <1>2, <1>3, <1>6
  <2> QED BY <1>2, <2>1 DEF LinesAt, Goal, L
<1>7. CASE h = L + 3
  <2>1. call = Move(Origin)
    BY <1>1, <1>7, KernelCalls DEF L
  <2>2. call.op = "move" /\ call.at = Origin
    BY <2>1 DEF Move, Call
  <2>3. DoesMove
    BY <2>2, CallDone
  <2>4. pos'["kernel"] = Origin /\ buffer' = buffer /\ pc'["kernel"] = L + 4 /\ char'["kernel"] = 1
    BY <1>1, <1>2, <1>3, <1>7, <2>2, <2>3, Gone DEF DoesMove, Contexts
  <2>5. InBlock(fb, buffer'[Target], KmainLines, Origin, 1, 1, Origin)
    BY <1>4, BlockStarts
  <2> QED BY <1>2, <2>4, <2>5 DEF LinesAt, Goal, L
<1>8. CASE InLines
  <2>1. PICK b \in 1 .. 4 : h = L + 3 + b
    BY <1>8 DEF InLines
  <2>2. call = BlockCall(KmainLines, Origin.x, b)
    BY <1>1, <1>4, <2>1, KernelCalls DEF L
  <2>3. InBlock(fb, buffer[Target], KmainLines, Origin, b, k, P)
    BY <1>5, <2>1 DEF LinesAt, L
  <2>4. b \in 1 .. 2 * Len(KmainLines)
    BY <1>4
  <2>5. BlockGoes(KmainLines, Origin, b, b) \/ BlockGoes(KmainLines, Origin, b, b + 1)
    BY <1>1, <1>4, <2>2, <2>3, <2>4, BlockStep DEF k, P
  <2>6. ASSUME NEW d \in {b, b + 1}, BlockGoes(KmainLines, Origin, b, d) PROVE Goal
    <3>1. /\ pc'["kernel"] = h + (d - b)
          /\ InBlock(fb, buffer'[Target], KmainLines, Origin, d, char'["kernel"], pos'["kernel"])
      BY <1>1, <2>6 DEF BlockGoes
    <3>2. pc'["kernel"] = L + 3 + d /\ d \in 1 .. 5
      BY <1>2, <2>1, <3>1
    <3>3. ASSUME NEW e \in 1 .. 5, pc'["kernel"] = L + 3 + e PROVE e = d
      BY <1>2, <3>2, <3>3
    <3>4. ~(pc'["kernel"] >= LoopStart)
      BY <1>2, <3>2
    <3> QED BY <1>2, <3>1, <3>2, <3>3, <3>4 DEF LinesAt, Goal, L
  <2>7. b \in {b, b + 1} /\ b + 1 \in {b, b + 1}
    OBVIOUS
  <2>8. CASE BlockGoes(KmainLines, Origin, b, b)
    BY <2>6, <2>7, <2>8 DEF Goal
  <2>9. CASE BlockGoes(KmainLines, Origin, b, b + 1)
    BY <2>6, <2>7, <2>9 DEF Goal
  <2> QED BY <2>5, <2>8, <2>9
<1>9. CASE h = L + 8
  <2> DEFINE size == At(Far, 2 * CharacterSize)
  <2>1. call = Swap(Origin, size)
    BY <1>1, <1>9, KernelCalls DEF L
  <2>2. InBlock(fb, buffer[Target], KmainLines, Origin, 2 * Len(KmainLines) + 1, k, P)
    <3>1. h = L + 3 + 5 /\ 2 * Len(KmainLines) + 1 = 5
      BY <1>2, <1>4, <1>9
    <3> QED BY <1>5, <3>1 DEF LinesAt, L
  <2>3. Has(fb, buffer[Target], KmainLines, Origin, Cells(KmainLines))
    BY <1>4, <2>2, BlockEnds
  <2>4. Origin.x <= fb.PixelWidth /\ Origin.y <= fb.PixelHeight
    BY <1>4, RoomMeans
  <2>5. \A c \in Cells(KmainLines) : CellArea(fb, Origin, c) \subseteq Area(fb, Origin, size)
    BY OpeningCopied
  <2> HIDE DEF size
  <2>6. \/ Target = "render" /\ UNCHANGED buffer
        \/ Copies(Area(fb, Origin, size))
    BY <1>4, <2>1, <2>4, SwapDone
  <2>7. Both(fb, Target, buffer', KmainLines, Origin, Cells(KmainLines))
    BY <1>4, <2>3, <2>5, <2>6, Swapped
  <2>8. pc'["kernel"] = L + 9
    BY <1>2, <1>3, <1>9, <2>1 DEF Swap, Call
  <2> QED BY <1>2, <2>7, <2>8 DEF LinesAt, Goal, L
<1>10. CASE h = L + 9
  <2> DEFINE at == At(debugInfoX(fb), 0)
  <2>1. call = Move(at)
    BY <1>1, <1>10, KernelCalls DEF L
  <2>2. call.op = "move" /\ call.at = at
    BY <2>1 DEF Move, Call
  <2> HIDE DEF at
  <2>3. DoesMove
    BY <2>2, CallDone
  <2>4. pos'["kernel"] = at /\ buffer' = buffer /\ pc'["kernel"] = L + 10
    BY <1>1, <1>2, <1>3, <1>10, <2>2, <2>3, Gone DEF DoesMove, Contexts
  <2>5. Both(fb, Target, buffer, KmainLines, Origin, Cells(KmainLines))
    BY <1>2, <1>5, <1>10 DEF LinesAt
  <2> QED BY <1>2, <2>4, <2>5 DEF LinesAt, Goal, L, at
<1>11. CASE h = L + 10
  <2>1. call = Crlf(debugInfoX(fb))
    BY <1>1, <1>11, KernelCalls DEF L
  <2>2. call.op = "crlf" /\ call.at.x = debugInfoX(fb)
    BY <2>1 DEF Crlf, Call, At
  <2>3. DoesCrlf
    BY <2>2, CallDone
  <2>4. /\ pos'["kernel"] = crlf(P, debugInfoX(fb)) /\ buffer' = buffer
        /\ pc'["kernel"] = L + 11
    BY <1>1, <1>2, <1>3, <1>11, <2>2, <2>3, Gone DEF DoesCrlf, Contexts, P
  <2>5. Both(fb, Target, buffer, KmainLines, Origin, Cells(KmainLines)) /\ P = At(debugInfoX(fb), 0)
    BY <1>2, <1>5, <1>11 DEF LinesAt
  <2>6. PastRoll(fb, pos'["kernel"])
    <3>1. pos'["kernel"].x = debugInfoX(fb) /\ pos'["kernel"].y = 0 + CharacterSize
      BY <2>4, <2>5 DEF crlf, At
    <3> QED BY <1>4, <3>1, RoomMeans DEF PastRoll
  <2> QED BY <1>2, <2>4, <2>5, <2>6 DEF LinesAt, Goal, L
<1>12. CASE InPanel
  <2>1. PICK b \in 1 .. 2 * n : h = L + 10 + b
    BY <1>12 DEF InPanel
  <2>2. call = BlockCall(Panel, debugInfoX(fb), b)
    BY <1>1, <2>1, KernelCalls DEF L, n
  <2>3. Both(fb, Target, buffer, KmainLines, Origin, Cells(KmainLines)) /\ PastRoll(fb, P)
    BY <1>2, <1>5, <2>1 DEF LinesAt
  <2>4. /\ Both(fb, Target, buffer', KmainLines, Origin, Cells(KmainLines))
        /\ PastRoll(fb, pos'["kernel"])
    <3> DEFINE q == clamp_draw_position(fb, P)
               text == Panel[(b + 1) \div 2]
    <3>1. CASE b % 2 = 1 /\ PutsCharacter(text, k, q)
      <4>1. Misses(fb, Area(fb, q, Glyph), KmainLines, Origin, Cells(KmainLines))
            /\ PastRoll(fb, NextChar(fb, q))
        BY <1>1, <2>3, PastRollMisses
      <4>2. /\ pos'["kernel"] = NextChar(fb, q)
            /\ Paints(Area(fb, q, Glyph), text[k])
        BY <1>1, <3>1, Gone DEF PutsCharacter, Contexts
      <4> HIDE DEF q, text
      <4>3. \A base \in {"render", "target"} :
               Keeps(fb, buffer[base], buffer'[base], KmainLines, Origin, Cells(KmainLines))
        BY <1>4, <4>1, <4>2, Unpainted
      <4>4. Both(fb, Target, buffer', KmainLines, Origin, Cells(KmainLines))
        BY <2>3, <4>3, BothKept
      <4> QED BY <4>1, <4>2, <4>4
    <3>2. CASE b % 2 = 1 /\ PutsNoMore(text, k)
      <4>1. pos'["kernel"] = P /\ buffer' = buffer
        BY <1>1, <3>2, Gone DEF PutsNoMore, Contexts, P
      <4> QED BY <2>3, <4>1
    <3>3. CASE b % 2 # 1
      <4>1. Goes(Context, here + 1, char[Context], crlf(pos[Context], debugInfoX(fb))) /\ buffer' = buffer
        BY <2>2, <3>3, BlockDoes
      <4>2. pos'["kernel"] = crlf(P, debugInfoX(fb)) /\ buffer' = buffer
        BY <1>1, <4>1, Gone DEF Contexts, P
      <4>3. pos'["kernel"].y = P.y + CharacterSize
        BY <4>2 DEF crlf, At
      <4>4. P.y >= CharacterSize /\ P.y \in Nat /\ CharacterSize \in Nat
        BY <1>1, <2>3, RoomMeans DEF PastRoll, Point
      <4>5. PastRoll(fb, pos'["kernel"])
        BY <4>3, <4>4 DEF PastRoll
      <4> QED BY <2>3, <4>2, <4>5
    <3>4. b % 2 = 1 => PutsCharacter(text, k, q) \/ PutsNoMore(text, k)
      BY <1>1, <2>2, BlockDoes DEF k, P
    <3> QED BY <3>1, <3>2, <3>3, <3>4
  <2>5. pc'["kernel"] > L + 10
    BY <1>2, <1>3, <2>1
  <2> QED BY <1>2, <2>4, <2>5 DEF LinesAt, Goal, L
<1>13. CASE h = L + 2 * n + 11
  <2> DEFINE at == At(debugInfoX(fb), 0)
             size == At(Far, PanelHeight)
  <2>1. call = Swap(at, size)
    BY <1>1, <1>13, KernelCalls DEF L, n
  <2>2. Both(fb, Target, buffer, KmainLines, Origin, Cells(KmainLines)) /\ PastRoll(fb, P)
    BY <1>2, <1>5, <1>13 DEF LinesAt
  <2>3. at \in Point /\ at.x <= fb.PixelWidth /\ at.y <= fb.PixelHeight
    <3>1. debugInfoX(fb) \in Nat /\ PanelWidth \in Nat /\ debugInfoX(fb) = fb.PixelWidth - PanelWidth
          /\ fb.PixelWidth \in Nat /\ fb.PixelHeight \in Nat
      BY RoomMeans
    <3>2. at.x = debugInfoX(fb) /\ at.y = 0
      BY DEF At
    <3>3. at \in Point
      BY <3>1, PointTyped
    <3> HIDE DEF at
    <3> QED BY <3>1, <3>2, <3>3
  <2> HIDE DEF at, size
  <2>4. /\ Goes(Context, here + 1, char[Context], pos[Context])
        /\ \/ Target = "render" /\ UNCHANGED buffer
           \/ Copies(Area(fb, at, size))
    BY <2>1, <2>3, SwapDone
  <2>5. Both(fb, Target, buffer', KmainLines, Origin, Cells(KmainLines))
    BY <1>4, <2>2, <2>4, CopiedOrSame
  <2>6. pos'["kernel"] = P /\ pc'["kernel"] = h + 1
    BY <1>1, <2>4, Gone DEF Contexts, P
  <2> QED BY <1>2, <1>13, <2>2, <2>5, <2>6 DEF LinesAt, Goal, L
<1>14. \/ h <= L + 2
       \/ h = L + 3
       \/ InLines
       \/ h = L + 8 \/ h = L + 9 \/ h = L + 10
       \/ InPanel
       \/ h = L + 2 * n + 11
  BY <1>1, <1>2, <1>3, KernelPlaces DEF InLines, InPanel
<1> QED BY <1>6, <1>7, <1>8, <1>9, <1>10, <1>11, <1>12, <1>13, <1>14

\* Where there is room for the panel too.
LEMMA PanelMeans ==
  ASSUME TypeOK, PanelFits
  PROVE  /\ Room /\ Panel \in Seq(Seq(Nat)) /\ Len(Panel) \in Nat
         /\ PanelAt(fb) \in Point /\ PanelAt(fb).x = debugInfoX(fb) /\ PanelAt(fb).y = CharacterSize
         /\ FitsOn(fb, Panel, PanelAt(fb))
<1>1. Room /\ debugInfoX(fb) \in Nat /\ CharacterSize \in Nat
  BY RoomMeans DEF PanelFits
<1>2. Panel \in Seq(Seq(Nat)) /\ Len(Panel) \in Nat
  BY ConstantsTyped
<1>3. FitsOn(fb, Panel, PanelAt(fb))
  BY DEF PanelFits, Fits, FitsOn
<1>4. PanelAt(fb).x = debugInfoX(fb) /\ PanelAt(fb).y = CharacterSize
  BY DEF PanelAt, At
<1>5. PanelAt(fb) \in Point
  BY <1>1, PointTyped DEF PanelAt
<1> QED BY <1>1, <1>2, <1>3, <1>4, <1>5

\* The panel is drawn in what print_memory_info copies.
LEMMA PanelCopied ==
  ASSUME TypeOK, PanelFits, NEW c \in Cells(Panel)
  PROVE  CellArea(fb, PanelAt(fb), c) \subseteq Area(fb, At(debugInfoX(fb), 0), At(Far, PanelHeight))
<1> DEFINE p == PanelAt(fb)
           q == Cell(p, c[1], c[2])
           at == At(debugInfoX(fb), 0)
           size == At(Far, PanelHeight)
           h == Len(Panel) * CharacterSize
<1>1. /\ Panel \in Seq(Seq(Nat)) /\ p \in Point /\ FitsOn(fb, Panel, p)
      /\ p.x = debugInfoX(fb) /\ p.y = CharacterSize /\ fb \in Framebuffers
      /\ Len(Panel) \in Nat
  BY PanelMeans DEF TypeOK
<1>2. /\ debugInfoX(fb) \in Nat /\ fb.PixelWidth \in Nat /\ fb.PixelHeight \in Nat
      /\ CharacterSize \in Nat /\ PanelWidth \in Nat
      /\ debugInfoX(fb) = fb.PixelWidth - PanelWidth
  BY PanelMeans, RoomMeans
<1>3. /\ Visible(fb, q) /\ q.y + CharacterSize <= p.y + h
      /\ p.x <= q.x /\ p.y <= q.y
  BY <1>1, CellOnScreen
<1>4. CharacterSize + h <= PanelHeight /\ h \in Nat
  <2>1. (Len(Panel) + 1) * CharacterSize = h + CharacterSize /\ h \in Nat
    BY <1>1, <1>2, Multiple
  <2>2. (Len(Panel) + 1) * CharacterSize <= PanelHeight
    BY LayoutAssumption
  <2> HIDE DEF h
  <2>3. h + CharacterSize <= PanelHeight
    BY <2>1, <2>2
  <2> QED BY <1>2, <2>1, <2>3, ScreenAssumption
<1>5. size \in Point /\ size.x = Far /\ size.y = PanelHeight /\ fb.PixelWidth <= Far
      /\ Far \in Nat /\ PanelHeight \in Nat
  <2>1. Far \in Nat /\ PanelHeight \in Nat /\ fb.PixelWidth <= Far
    BY <1>1, ScreenAssumption, LayoutAssumption
  <2> QED BY <2>1 DEF At, Point
<1>6. at \in Point /\ at.x = debugInfoX(fb) /\ at.y = 0
  BY <1>2 DEF At, Point
<1>7. Glyph \in Point /\ Glyph.y = CharacterSize
  BY GlyphTyped
<1> HIDE DEF q, at, size, p, h
<1>8. Visible(fb, at)
  <2>1. at.x <= fb.PixelWidth
    BY <1>2, <1>6
  <2> QED BY <1>2, <1>6, <2>1 DEF Visible
<1>9. at.x <= q.x /\ fb.PixelWidth <= at.x + size.x
  <2>1. at.x <= q.x
    BY <1>1, <1>3, <1>6
  <2>2. fb.PixelWidth <= at.x + size.x
    BY <1>2, <1>5, <1>6
  <2> QED BY <2>1, <2>2
<1>10. at.y <= q.y /\ q.y + Glyph.y <= at.y + size.y
  <2>1. q.y \in Nat /\ q.y + CharacterSize <= CharacterSize + h
    BY <1>1, <1>3 DEF Visible, Point
  <2> QED BY <1>2, <1>4, <1>5, <1>6, <1>7, <2>1
<1>11. Area(fb, q, Glyph) \subseteq Area(fb, at, size)
  BY <1>1, <1>3, <1>5, <1>7, <1>8, <1>9, <1>10, Inside
<1> QED BY <1>11 DEF CellArea, q, at, size, p

LEMMA PanelStep ==
  ASSUME TypeOK, BufferOK, Progress, PanelFits, LinesInv, PanelInv, CallStep, running = "kernel"
  PROVE  PanelShown(fb, Target, buffer', pc'["kernel"], char'["kernel"], pos'["kernel"], turned')
<1> DEFINE h == pc["kernel"]
           k == char["kernel"]
           P == pos["kernel"]
           n == Len(Panel)
           L == BootCalls
           x0 == debugInfoX(fb)
           shown == Both(fb, Target, buffer, Panel, PanelAt(fb), Cells(Panel))
<1>1. /\ Context = "kernel" /\ here = h /\ call = Kernel(fb)[h] /\ h \in Nat \ {0}
      /\ fb \in Framebuffers /\ P \in Point
  BY InKernel DEF TypeOK
<1>2. L \in Nat /\ n \in Nat /\ LoopStart = L + 9
  BY <1>1, KernelCalls
<1>3. /\ pc'["kernel"] = h \/ pc'["kernel"] = h + 1
      /\ call.op # "puts" => pc'["kernel"] = h + 1 /\ k = 1 /\ char'["kernel"] = 1
      /\ h <= L + 2 * n + 11
  BY KernelGoes
<1>4. /\ Panel \in Seq(Seq(Nat)) /\ PanelAt(fb) \in Point /\ FitsOn(fb, Panel, PanelAt(fb))
      /\ PanelAt(fb).x = x0 /\ PanelAt(fb).y = CharacterSize /\ Room
  BY PanelMeans
<1>5. PanelShown(fb, Target, buffer, h, k, P, turned)
  BY DEF PanelInv
<1>6. turned' = turned /\ (turned => h >= LoopStart)
  BY CallDone DEF Progress
<1>7. turned => shown
  BY <1>5 DEF PanelShown
<1> HIDE DEF shown
<1> DEFINE InPanel == \E b \in 1 .. 2 * n : h = L + 10 + b
<1> HIDE DEF h, k, P, n, L, x0, InPanel
<1>8. CASE h <= L + 8
  <2>1. pc'["kernel"] <= L + 9 /\ pc'["kernel"] \in Nat /\ ~turned'
    BY <1>1, <1>2, <1>3, <1>6, <1>8
  <2> QED BY <1>2, <2>1 DEF PanelShown, L, n
<1>9. CASE h = L + 9
  <2>1. call = Move(At(x0, 0))
    BY <1>1, <1>9, KernelCalls DEF L, x0
  <2>2. call.op = "move"
    BY <2>1 DEF Move, Call
  <2>3. DoesMove
    BY <2>2, CallDone
  <2>4. buffer' = buffer /\ pc'["kernel"] = L + 10
    BY <1>2, <1>3, <1>9, <2>2, <2>3 DEF DoesMove
  <2> QED BY <1>2, <1>6, <1>7, <2>4 DEF PanelShown, L, n, shown
<1>10. CASE h = L + 10
  <2>1. call = Crlf(x0)
    BY <1>1, <1>10, KernelCalls DEF L, x0
  <2>2. call.op = "crlf" /\ call.at.x = x0
    BY <2>1 DEF Crlf, Call, At
  <2>3. DoesCrlf
    BY <2>2, CallDone
  <2>4. /\ pos'["kernel"] = crlf(P, x0) /\ buffer' = buffer
        /\ pc'["kernel"] = L + 11 /\ char'["kernel"] = 1
    BY <1>1, <1>2, <1>3, <1>10, <2>2, <2>3, Gone DEF DoesCrlf, Contexts, P
  <2>5. P = At(x0, 0)
    BY <1>2, <1>10 DEF LinesInv, LinesAt, P, h, x0
  <2>6. pos'["kernel"] = PanelAt(fb)
    <3>1. crlf(P, x0) = At(x0, 0 + CharacterSize)
      BY <2>5 DEF crlf, At
    <3>2. 0 + CharacterSize = CharacterSize
      BY <1>4, RoomMeans
    <3> QED BY <2>4, <3>1, <3>2 DEF PanelAt, x0
  <2>7. InBlock(fb, buffer'[Target], Panel, PanelAt(fb), 1, 1, PanelAt(fb))
    BY <1>4, BlockStarts
  <2>8. ASSUME NEW b \in 1 .. 2 * n + 1, pc'["kernel"] = L + 10 + b PROVE b = 1
    BY <1>2, <2>4, <2>8
  <2>9. ~(pc'["kernel"] > L + 2 * n + 11)
    BY <1>2, <2>4
  <2> QED BY <1>6, <1>7, <2>4, <2>6, <2>7, <2>8, <2>9 DEF PanelShown, L, n, shown
<1>11. CASE InPanel
  <2>1. PICK b \in 1 .. 2 * n : h = L + 10 + b
    BY <1>11 DEF InPanel
  <2>2. call = BlockCall(Panel, PanelAt(fb).x, b)
    BY <1>1, <1>4, <2>1, KernelCalls DEF L, n, x0
  <2>3. InBlock(fb, buffer[Target], Panel, PanelAt(fb), b, k, P)
    <3>1. b \in 1 .. 2 * n + 1
      BY <1>2
    <3> QED BY <1>5, <2>1, <3>1 DEF PanelShown, L, n
  <2>4. /\ BlockGoes(Panel, PanelAt(fb), b, b) \/ BlockGoes(Panel, PanelAt(fb), b, b + 1)
        /\ DrewIn(Panel, PanelAt(fb))
    BY <1>1, <1>4, <2>2, <2>3, BlockStep DEF k, P, n
  <2>5. turned' => Both(fb, Target, buffer', Panel, PanelAt(fb), Cells(Panel))
    BY <1>6, <1>7, <2>4, BothKept DEF DrewIn, shown
  <2>6. ASSUME NEW d \in {b, b + 1}, BlockGoes(Panel, PanelAt(fb), b, d)
        PROVE  PanelShown(fb, Target, buffer', pc'["kernel"], char'["kernel"], pos'["kernel"], turned')
    <3>1. /\ pc'["kernel"] = h + (d - b)
          /\ InBlock(fb, buffer'[Target], Panel, PanelAt(fb), d, char'["kernel"], pos'["kernel"])
      BY <1>1, <2>6 DEF BlockGoes
    <3>2. pc'["kernel"] = L + 10 + d /\ d \in 1 .. 2 * n + 1
      BY <1>2, <2>1, <3>1
    <3>3. ASSUME NEW e \in 1 .. 2 * n + 1, pc'["kernel"] = L + 10 + e PROVE e = d
      BY <1>2, <3>2, <3>3
    <3>4. ~(pc'["kernel"] > L + 2 * n + 11)
      BY <1>2, <3>2
    <3> QED BY <2>5, <3>1, <3>2, <3>3, <3>4 DEF PanelShown, L, n
  <2>7. b \in {b, b + 1} /\ b + 1 \in {b, b + 1}
    OBVIOUS
  <2>8. CASE BlockGoes(Panel, PanelAt(fb), b, b)
    BY <2>6, <2>7, <2>8
  <2>9. CASE BlockGoes(Panel, PanelAt(fb), b, b + 1)
    BY <2>6, <2>7, <2>9
  <2> QED BY <2>4, <2>8, <2>9
<1>12. CASE h = L + 2 * n + 11
  <2> DEFINE at == At(x0, 0)
             size == At(Far, PanelHeight)
  <2>1. call = Swap(at, size)
    BY <1>1, <1>12, KernelCalls DEF L, n, x0
  <2>2. InBlock(fb, buffer[Target], Panel, PanelAt(fb), 2 * Len(Panel) + 1, k, P)
    <3>1. h = L + 10 + (2 * n + 1) /\ 2 * n + 1 \in 1 .. 2 * n + 1
      BY <1>2, <1>12
    <3> QED BY <1>5, <3>1 DEF PanelShown, L, n
  <2>3. Has(fb, buffer[Target], Panel, PanelAt(fb), Cells(Panel))
    BY <1>4, <2>2, BlockEnds
  <2>4. at \in Point /\ at.x <= fb.PixelWidth /\ at.y <= fb.PixelHeight
    <3>1. x0 \in Nat /\ PanelWidth \in Nat /\ x0 = fb.PixelWidth - PanelWidth
          /\ fb.PixelWidth \in Nat /\ fb.PixelHeight \in Nat
      BY <1>4, RoomMeans DEF x0
    <3>2. at.x = x0 /\ at.y = 0
      BY DEF At
    <3>3. at \in Point
      BY <3>1, PointTyped
    <3> HIDE DEF at
    <3> QED BY <3>1, <3>2, <3>3
  <2>5. \A c \in Cells(Panel) : CellArea(fb, PanelAt(fb), c) \subseteq Area(fb, at, size)
    BY PanelCopied DEF x0
  <2> HIDE DEF at, size
  <2>6. \/ Target = "render" /\ UNCHANGED buffer
        \/ Copies(Area(fb, at, size))
    BY <2>1, <2>4, SwapDone
  <2>7. Both(fb, Target, buffer', Panel, PanelAt(fb), Cells(Panel))
    BY <1>4, <2>3, <2>5, <2>6, Swapped
  <2>8. pc'["kernel"] = L + 2 * n + 12
    BY <1>2, <1>3, <1>12, <2>1 DEF Swap, Call
  <2>9. \A b \in 1 .. 2 * n + 1 : pc'["kernel"] # L + 10 + b
    BY <1>2, <2>8
  <2> QED BY <2>7, <2>9 DEF PanelShown, L, n
<1>13. \/ h <= L + 2 \/ h = L + 3
       \/ \E b \in 1 .. 4 : h = L + 3 + b
       \/ h = L + 8 \/ h = L + 9 \/ h = L + 10
       \/ InPanel
       \/ h = L + 2 * n + 11
  BY <1>1, <1>2, <1>3, KernelPlaces DEF InPanel
<1>14. h <= L + 8 \/ h = L + 9 \/ h = L + 10 \/ InPanel \/ h = L + 2 * n + 11
  BY <1>1, <1>2, <1>13
<1> QED BY <1>8, <1>9, <1>10, <1>11, <1>12, <1>14

-----------------------------------------------------------------------------
(* The steps of panic(), which draws and copies below PanicStart only.     *)

LEMMA PlacesOfPanic ==
  ASSUME NEW e \in Nat, e >= 5, NEW m \in Nat, NEW i \in 1 .. m, m = e \/ m = e + 3
  PROVE  \/ i \in 1 .. 4 \/ i = 5
         \/ \E b \in 5 .. e - 2 : i = b + 1
         \/ i = e
         \/ m = e + 3 /\ (i = e + 1 \/ i = e + 2 \/ i = e + 3)
<1>1. CASE i > 5 /\ i < e
  <2>1. i - 1 \in 5 .. e - 2 /\ i = (i - 1) + 1
    BY <1>1
  <2> QED BY <2>1
<1>2. CASE ~(i > 5 /\ i < e)
  BY <1>2
<1> QED BY <1>1, <1>2

\* What panic() asks of the renderer.
PanicOp(c) ==
    \/ c.op = "puts"
    \/ c.op = "crlf" /\ c.at.x = PanicStart.x
    \/ c.op = "move" /\ c.at = PanicStart
    \/ \E size \in Point : c = Swap(PanicStart, size)

LEMMA PanicOps ==
  ASSUME NEW kind, NEW i \in 1 .. Len(Panic(kind))
  PROVE  PanicOp(Panic(kind)[i])
<1> DEFINE Q == Panic(kind)
           e == PanicEnd(kind)
<1>1. /\ e \in Nat /\ e >= 5 /\ Len(Q) \in Nat /\ (Len(Q) = e \/ Len(Q) = e + 3)
      /\ Len(Q) # e => kind = "page_fault"
  BY PanicCalls
<1>2. ASSUME NEW texts, NEW b PROVE PanicOp(BlockCall(texts, PanicStart.x, b))
  BY DEF PanicOp, BlockCall, Puts, Crlf, Call, At
<1>3. PanicOp(PanicUpdate) /\ PanicOp(Swap(PanicStart, AddressArea)) /\ PanicOp(Move(PanicStart))
  <2>1. At(Far, Far) \in Point /\ AddressArea \in Point
    BY ScreenAssumption, PointTyped
  <2>2. PanicOp(PanicUpdate) /\ PanicOp(Swap(PanicStart, AddressArea))
    BY <2>1 DEF PanicOp, PanicUpdate
  <2> QED BY <2>2 DEF PanicOp, Move, Call
<1>4. /\ \A b \in 1 .. 4 : Q[b] = BlockCall(PanicLines(kind), PanicStart.x, b)
      /\ Q[5] = PanicUpdate
      /\ \A b \in 5 .. e - 2 : Q[b + 1] = BlockCall(PanicLines(kind), PanicStart.x, b)
      /\ Q[e] = PanicUpdate
      /\ kind = "page_fault" =>
            /\ Q[e + 1] = Move(PanicStart)
            /\ Q[e + 2] = BlockCall(<<Address>>, PanicStart.x, 1)
            /\ Q[e + 3] = Swap(PanicStart, AddressArea)
  BY PanicCalls
<1> HIDE DEF Q, e
<1>5. \/ i \in 1 .. 4 \/ i = 5
      \/ \E b \in 5 .. e - 2 : i = b + 1
      \/ i = e
      \/ Len(Q) = e + 3 /\ (i = e + 1 \/ i = e + 2 \/ i = e + 3)
  BY <1>1, PlacesOfPanic DEF Q
<1>6. Len(Q) = e + 3 => kind = "page_fault"
  BY <1>1
<1>7. CASE \E b \in 5 .. e - 2 : i = b + 1
  BY <1>2, <1>4, <1>7 DEF Q
<1>8. CASE i \in 1 .. 4 \/ i = 5 \/ i = e
  BY <1>2, <1>3, <1>4, <1>8 DEF Q
<1>9. CASE Len(Q) = e + 3 /\ (i = e + 1 \/ i = e + 2 \/ i = e + 3)
  BY <1>2, <1>3, <1>4, <1>6, <1>9 DEF Q
<1> QED BY <1>5, <1>7, <1>8, <1>9

LEMMA InPanicProgram ==
  ASSUME TypeOK, running # "kernel", running # "halted", here <= Len(Program)
  PROVE  /\ running \in Kinds /\ Context = "panic" /\ here = pc["panic"]
         /\ Program = Panic(running) /\ call = Panic(running)[pc["panic"]]
         /\ fb \in Framebuffers
         /\ pc["panic"] \in 1 .. Len(Panic(running))
         /\ PanicOp(call)
<1>1. /\ running \in Kinds /\ Context = "panic" /\ here = pc["panic"]
      /\ Program = Panic(running) /\ call = Panic(running)[pc["panic"]]
      /\ fb \in Framebuffers /\ pc["panic"] \in Nat \ {0}
  BY DEF TypeOK, Context, here, Program, call
<1>2. Len(Panic(running)) \in Nat
  BY <1>1, PanicTyped
<1>3. pc["panic"] \in 1 .. Len(Panic(running))
  BY <1>1, <1>2
<1> QED BY <1>1, <1>3, PanicOps

\* Above what panic() draws to: lines that end before PanicStart.
Above(texts, p) == p.y + Len(texts) * CharacterSize <= PanicStart.y

LEMMA AboveMisses ==
  ASSUME NEW f \in Framebuffers, NEW texts \in Seq(Seq(Nat)), NEW p \in Point,
         FitsOn(f, texts, p), Above(texts, p),
         NEW q, Visible(f, q), q.y >= Lesser(PanicStart.y, f.PixelHeight), NEW extent \in Point
  PROVE  Misses(f, Area(f, q, extent), texts, p, Cells(texts))
<1> SUFFICES ASSUME NEW c \in Cells(texts)
             PROVE  CellArea(f, p, c) \cap Area(f, q, extent) = {}
  BY DEF Misses
<1> DEFINE r == Cell(p, c[1], c[2])
           h == Len(texts) * CharacterSize
<1>1. /\ Visible(f, r) /\ r.y + CharacterSize <= p.y + h
      /\ r.y + CharacterSize <= f.PixelHeight
  BY CellOnScreen
<1>2. p.y + h <= PanicStart.y
  BY DEF Above
<1>3. h \in Nat /\ p.y \in Nat /\ CharacterSize \in Nat
  <2>1. Len(texts) \in Nat /\ CharacterSize \in Nat
    BY ScreenAssumption
  <2>2. h \in Nat
    BY <2>1, Multiple
  <2> HIDE DEF h
  <2> QED BY <2>1, <2>2 DEF Point
<1>4. PanicStart.y \in Nat /\ f.PixelHeight \in Nat
  BY ConstantsTyped, ScreenAssumption DEF Point, Framebuffer
<1>5. Glyph \in Point /\ Glyph.y = CharacterSize
  BY GlyphTyped
<1> HIDE DEF r, h
<1>6. r.y + Glyph.y <= q.y
  <2>1. r.y \in Nat /\ q.y \in Nat
    BY <1>1 DEF Visible, Point
  <2>2. r.y + CharacterSize <= PanicStart.y
    BY <1>1, <1>2, <1>3, <1>4, <2>1
  <2>3. r.y + CharacterSize <= Lesser(PanicStart.y, f.PixelHeight)
    BY <1>1, <2>2 DEF Lesser
  <2>4. Lesser(PanicStart.y, f.PixelHeight) \in Nat
    BY <1>4 DEF Lesser
  <2> QED BY <1>3, <1>5, <2>1, <2>3, <2>4
<1>7. Area(f, r, Glyph) \cap Area(f, q, extent) = {}
  BY <1>1, <1>5, <1>6, Apart
<1> QED BY <1>7 DEF CellArea, r

\* Where a character of panic() is drawn, and the next.
LEMMA BelowPanicStart ==
  ASSUME NEW f \in Framebuffers, NEW P \in Point, P.y >= Lesser(PanicStart.y, f.PixelHeight)
  PROVE  LET q == clamp_draw_position(f, P)
         IN  /\ Visible(f, q)
             /\ q.y >= Lesser(PanicStart.y, f.PixelHeight)
             /\ NextChar(f, q).y >= Lesser(PanicStart.y, f.PixelHeight)
             /\ \A offset : crlf(P, offset).y >= Lesser(PanicStart.y, f.PixelHeight)
<1> DEFINE q == clamp_draw_position(f, P)
           l == Lesser(PanicStart.y, f.PixelHeight)
<1>1. P.y \in Nat /\ PanicStart.y \in Nat /\ f.PixelHeight \in Nat /\ CharacterSize \in Nat
  BY ConstantsTyped, ScreenAssumption DEF Point, Framebuffer
<1>2. Visible(f, q)
  BY Clamped DEF Visible
<1>3. q.y = Lesser(P.y, f.PixelHeight)
  BY DEF clamp_draw_position, At
<1>4. l \in Nat /\ l <= f.PixelHeight /\ P.y >= l
  BY <1>1 DEF Lesser
<1> HIDE DEF q, l
<1>5. q.y >= l /\ q.y \in Nat
  BY <1>1, <1>3, <1>4 DEF Lesser
<1>6. NextChar(f, q).y = q.y + CharacterSize \/ NextChar(f, q).y = q.y
  BY DEF NextChar, At
<1>7. NextChar(f, q).y >= l
  BY <1>1, <1>4, <1>5, <1>6
<1>8. ASSUME NEW offset PROVE crlf(P, offset).y >= l
  <2>1. crlf(P, offset).y = P.y + CharacterSize
    BY DEF crlf, At
  <2> QED BY <1>1, <1>4, <2>1
<1> QED BY <1>2, <1>5, <1>7, <1>8 DEF q, l

LEMMA PanicKeeps ==
  ASSUME TypeOK, BufferOK, CallStep, running # "kernel",
         pos["panic"].y >= Lesser(PanicStart.y, fb.PixelHeight)
  PROVE  /\ pc'["kernel"] = pc["kernel"] /\ char'["kernel"] = char["kernel"]
         /\ pos'["kernel"] = pos["kernel"]
         /\ pos'["panic"].y >= Lesser(PanicStart.y, fb.PixelHeight)
         /\ \A texts \in Seq(Seq(Nat)), p \in Point :
               FitsOn(fb, texts, p) /\ Above(texts, p) =>
                 \A base \in {"render", "target"} :
                    Keeps(fb, buffer[base], buffer'[base], texts, p, Cells(texts))
<1>1. /\ Context = "panic" /\ here = pc["panic"] /\ fb \in Framebuffers
      /\ PanicOp(call) /\ pos["panic"] \in Point
  BY CallDone, InPanicProgram DEF TypeOK
<1> DEFINE l == Lesser(PanicStart.y, fb.PixelHeight)
           q == clamp_draw_position(fb, pos["panic"])
<1>2. /\ Visible(fb, q) /\ q.y >= l /\ NextChar(fb, q).y >= l
      /\ \A offset : crlf(pos["panic"], offset).y >= l
  BY <1>1, BelowPanicStart
<1>3. PanicStart.y >= l /\ PanicStart \in Point
  <2>1. PanicStart.y \in Nat /\ fb.PixelHeight \in Nat
    BY <1>1, ConstantsTyped, ScreenAssumption DEF Point, Framebuffer
  <2> QED BY <2>1, ConstantsTyped DEF Lesser
<1> HIDE DEF l, q
<1>4. SUFFICES /\ \E h, k, P : Goes("panic", h, k, P) /\ P.y >= l
               /\ \/ UNCHANGED buffer
                  \/ \E at, size \in Point :
                       /\ Visible(fb, at) /\ at.y >= l
                       /\ \/ \E pixel : Paints(Area(fb, at, size), pixel)
                          \/ Copies(Area(fb, at, size))
  <2>1. /\ pc'["kernel"] = pc["kernel"] /\ char'["kernel"] = char["kernel"]
        /\ pos'["kernel"] = pos["kernel"] /\ pos'["panic"].y >= l
    BY <1>4, Gone DEF Contexts
  <2>2. ASSUME NEW texts \in Seq(Seq(Nat)), NEW p \in Point, FitsOn(fb, texts, p), Above(texts, p)
        PROVE  \A base \in {"render", "target"} :
                  Keeps(fb, buffer[base], buffer'[base], texts, p, Cells(texts))
    <3>1. CASE UNCHANGED buffer
      BY <3>1 DEF Keeps
    <3>2. ASSUME NEW at \in Point, NEW size \in Point, Visible(fb, at), at.y >= l
          PROVE  Misses(fb, Area(fb, at, size), texts, p, Cells(texts))
      BY <1>1, <2>2, <3>2, AboveMisses DEF l
    <3>3. ASSUME NEW at \in Point, NEW size \in Point, Visible(fb, at), at.y >= l,
                 NEW pixel, Paints(Area(fb, at, size), pixel)
          PROVE  \A base \in {"render", "target"} :
                    Keeps(fb, buffer[base], buffer'[base], texts, p, Cells(texts))
      BY <2>2, <3>2, <3>3, Unpainted
    <3>4. ASSUME NEW at \in Point, NEW size \in Point, Visible(fb, at), at.y >= l,
                 Copies(Area(fb, at, size))
          PROVE  \A base \in {"render", "target"} :
                    Keeps(fb, buffer[base], buffer'[base], texts, p, Cells(texts))
      BY <2>2, <3>2, <3>4, Uncopied
    <3> QED BY <1>4, <3>1, <3>3, <3>4
  <2> QED BY <2>1, <2>2 DEF l
<1>5. CASE call.op = "puts"
  <2>1. DoesPuts
    BY <1>5, CallDone
  <2>2. CASE PutsCharacter(call.text, char[Context], clamp_draw_position(fb, pos[Context]))
    <3>1. Goes("panic", here, char["panic"] + 1, NextChar(fb, q))
      BY <1>1, <2>2 DEF PutsCharacter, q
    <3>2. Paints(Area(fb, q, Glyph), call.text[char["panic"]])
      BY <1>1, <2>2 DEF PutsCharacter, q
    <3>3. Glyph \in Point /\ q \in Point
      BY <1>2, GlyphTyped DEF Visible
    <3> QED BY <1>2, <3>1, <3>2, <3>3
  <2>3. CASE PutsNoMore(call.text, char[Context])
    BY <1>1, <2>3 DEF PutsNoMore, l
  <2> QED BY <2>1, <2>2, <2>3 DEF DoesPuts
<1>6. CASE call.op = "crlf"
  <2>1. Goes("panic", here + 1, char["panic"], crlf(pos["panic"], call.at.x)) /\ UNCHANGED buffer
    BY <1>1, <1>6, CallDone DEF DoesCrlf
  <2> QED BY <1>2, <2>1
<1>7. CASE call.op = "move" /\ call.at = PanicStart
  <2>1. Goes("panic", here + 1, char["panic"], PanicStart) /\ UNCHANGED buffer
    BY <1>1, <1>7, CallDone DEF DoesMove
  <2> QED BY <1>3, <2>1
<1>8. CASE \E size \in Point : call = Swap(PanicStart, size)
  <2>1. PICK size \in Point : call = Swap(PanicStart, size)
    BY <1>8
  <2>2. call.op = "swap" /\ call.at = PanicStart /\ call.size = size
    BY <2>1 DEF Swap, Call
  <2>3. DoesSwap
    BY <2>2, CallDone
  <2>4. Goes("panic", here + 1, char["panic"], pos["panic"]) /\ pos["panic"].y >= l
    BY <1>1, <2>3 DEF DoesSwap, l
  <2>5. CASE Target = "render" \/ OffScreen(PanicStart)
    BY <2>2, <2>3, <2>4, <2>5 DEF DoesSwap
  <2>6. CASE ~(Target = "render" \/ OffScreen(PanicStart))
    <3>1. Copies(Area(fb, PanicStart, size))
      BY <2>2, <2>3, <2>6 DEF DoesSwap
    <3>2. Visible(fb, PanicStart)
      <4>1. /\ PanicStart.x \in Nat /\ PanicStart.y \in Nat
            /\ fb.PixelWidth \in Nat /\ fb.PixelHeight \in Nat
        BY <1>1, <1>3, ScreenAssumption DEF Point, Framebuffer
      <4> QED BY <1>3, <2>6, <4>1 DEF Visible, OffScreen
    <3> QED BY <1>3, <2>4, <3>1, <3>2
  <2> QED BY <2>5, <2>6
<1> QED BY <1>1, <1>5, <1>6, <1>7, <1>8 DEF PanicOp

-----------------------------------------------------------------------------
(* All steps together.                                                     *)

LEMMA SameScreen ==
  ASSUME fb' = fb
  PROVE  /\ Room' <=> Room
         /\ PanelFits' <=> PanelFits
         /\ Target' = Target
BY DEF Room, PanelFits, Fits, Target

\* The lines are above what panic() draws.
LEMMA KmainAbove ==
  ASSUME TypeOK, Room
  PROVE  /\ Above(KmainLines, Origin)
         /\ PanelFits => Above(Panel, PanelAt(fb))
<1>1. Len(KmainLines) = 2 /\ Origin.y = 0 /\ CharacterSize \in Nat /\ PanicStart.y \in Nat
  BY RoomMeans, ConstantsTyped DEF Origin, Point
<1>2. 2 * CharacterSize <= PanicStart.y /\ (2 * Len(Panel) + 1) * CharacterSize <= PanicStart.y
  BY LayoutAssumption
<1>3. Above(KmainLines, Origin)
  BY <1>1, <1>2 DEF Above
<1>4. ASSUME PanelFits PROVE Above(Panel, PanelAt(fb))
  <2>1. Len(Panel) \in Nat /\ PanelAt(fb).y = CharacterSize
    BY <1>4, PanelMeans
  <2> DEFINE n == Len(Panel)
             h == n * CharacterSize
  <2>2. n \in Nat
    BY <2>1
  <2> HIDE DEF n
  <2>3. h \in Nat /\ (n + 1) * CharacterSize = h + CharacterSize
        /\ (n + 1) * CharacterSize <= (2 * n + 1) * CharacterSize
    <3>1. n + 1 \in Nat /\ 2 * n + 1 \in Nat /\ n + 1 <= 2 * n + 1
      BY <2>2
    <3>2. (n + 1) * CharacterSize <= (2 * n + 1) * CharacterSize
      BY <1>1, <3>1, Multiple
    <3> QED BY <1>1, <2>2, <3>2, Multiple
  <2>4. (2 * n + 1) * CharacterSize <= PanicStart.y /\ (2 * n + 1) * CharacterSize \in Nat
    <3>1. 2 * n + 1 \in Nat
      BY <2>2
    <3> QED BY <1>1, <1>2, <3>1, Multiple DEF n
  <2> DEFINE m == (2 * n + 1) * CharacterSize
             g == (n + 1) * CharacterSize
  <2>5. g = h + CharacterSize /\ g <= m /\ m <= PanicStart.y /\ m \in Nat /\ h \in Nat
    BY <2>3, <2>4
  <2>6. CharacterSize + h <= PanicStart.y
    <3> HIDE DEF m, g, h
    <3> QED BY <1>1, <2>5
  <2> QED BY <2>1, <2>6 DEF Above, n
<1> QED BY <1>3, <1>4

LEMMA KmainUntouched ==
  ASSUME KmainInv, UNCHANGED <<fb, buffer, pc["kernel"], char["kernel"], pos, turned>>
  PROVE  KmainInv'
<1>1. Progress'
  BY DEF KmainInv, Progress
<1>2. (Room' <=> Room) /\ (PanelFits' <=> PanelFits) /\ Target' = Target
  BY SameScreen
<1>3. Room => LinesInv'
  BY <1>2 DEF KmainInv, LinesInv
<1>4. PanelFits => PanelInv'
  BY <1>2 DEF KmainInv, PanelInv
<1> QED BY <1>1, <1>2, <1>3, <1>4 DEF KmainInv

LEMMA KmainKernelStep ==
  ASSUME TypeOK, BufferOK, KmainInv, CallStep, running = "kernel"
  PROVE  KmainInv'
<1>1. fb' = fb
  BY CallDone
<1>2. (Room' <=> Room) /\ (PanelFits' <=> PanelFits) /\ Target' = Target
  BY <1>1, SameScreen
<1>3. Progress'
  BY KernelGoes DEF KmainInv
<1>4. Room => LinesAt(fb, Target, buffer', pc'["kernel"], char'["kernel"], pos'["kernel"])
  BY LinesStep DEF KmainInv
<1>5. Room => LinesInv'
  BY <1>1, <1>2, <1>4 DEF LinesInv
<1>6. PanelFits =>
        PanelShown(fb, Target, buffer', pc'["kernel"], char'["kernel"], pos'["kernel"], turned')
  BY PanelStep DEF KmainInv, PanelFits
<1>7. PanelFits => PanelInv'
  BY <1>1, <1>2, <1>6 DEF PanelInv
<1> QED BY <1>2, <1>3, <1>5, <1>7 DEF KmainInv

LEMMA KmainPanicStep ==
  ASSUME TypeOK, BufferOK, KmainInv, CallStep, running # "kernel"
  PROVE  KmainInv'
<1>1. fb' = fb /\ turned' = turned
  BY CallDone
<1>2. (Room' <=> Room) /\ (PanelFits' <=> PanelFits) /\ Target' = Target
  BY <1>1, SameScreen
<1>3. /\ pc'["kernel"] = pc["kernel"] /\ char'["kernel"] = char["kernel"]
      /\ pos'["kernel"] = pos["kernel"]
      /\ pos'["panic"].y >= Lesser(PanicStart.y, fb.PixelHeight)
      /\ \A texts \in Seq(Seq(Nat)), p \in Point :
            FitsOn(fb, texts, p) /\ Above(texts, p) =>
              \A base \in {"render", "target"} :
                 Keeps(fb, buffer[base], buffer'[base], texts, p, Cells(texts))
  BY PanicKeeps DEF KmainInv, Progress
<1>4. Progress'
  BY <1>1, <1>3 DEF KmainInv, Progress
<1>5. ASSUME Room PROVE LinesInv'
  <2>1. /\ KmainLines \in Seq(Seq(Nat)) /\ Origin \in Point /\ FitsOn(fb, KmainLines, Origin)
        /\ Above(KmainLines, Origin)
    BY <1>5, RoomMeans, KmainAbove
  <2>2. \A base \in {"render", "target"} :
           Keeps(fb, buffer[base], buffer'[base], KmainLines, Origin, Cells(KmainLines))
    BY <1>3, <2>1
  <2>3. LinesAt(fb, Target, buffer, pc["kernel"], char["kernel"], pos["kernel"])
    BY <1>5 DEF KmainInv, LinesInv
  <2>4. Both(fb, Target, buffer, KmainLines, Origin, Cells(KmainLines)) =>
          Both(fb, Target, buffer', KmainLines, Origin, Cells(KmainLines))
    BY <2>2, BothKept
  <2>5. Keeps(fb, buffer[Target], buffer'[Target], KmainLines, Origin, Cells(KmainLines))
    BY <2>2, TargetTyped
  <2>6. ASSUME NEW b, NEW k, NEW P, InBlock(fb, buffer[Target], KmainLines, Origin, b, k, P)
        PROVE  InBlock(fb, buffer'[Target], KmainLines, Origin, b, k, P)
    BY <2>5, <2>6, BlockKept
  <2>7. LinesAt(fb, Target, buffer', pc["kernel"], char["kernel"], pos["kernel"])
    BY <2>3, <2>4, <2>6 DEF LinesAt
  <2> QED BY <1>1, <1>2, <1>3, <2>7 DEF LinesInv
<1>6. ASSUME PanelFits PROVE PanelInv'
  <2>1. /\ Panel \in Seq(Seq(Nat)) /\ PanelAt(fb) \in Point /\ FitsOn(fb, Panel, PanelAt(fb))
        /\ Above(Panel, PanelAt(fb))
    BY <1>6, PanelMeans, KmainAbove
  <2>2. \A base \in {"render", "target"} :
           Keeps(fb, buffer[base], buffer'[base], Panel, PanelAt(fb), Cells(Panel))
    BY <1>3, <2>1
  <2>3. PanelShown(fb, Target, buffer, pc["kernel"], char["kernel"], pos["kernel"], turned)
    BY <1>6 DEF KmainInv, PanelInv
  <2>4. Both(fb, Target, buffer, Panel, PanelAt(fb), Cells(Panel)) =>
          Both(fb, Target, buffer', Panel, PanelAt(fb), Cells(Panel))
    BY <2>2, BothKept
  <2>5. Keeps(fb, buffer[Target], buffer'[Target], Panel, PanelAt(fb), Cells(Panel))
    BY <2>2, TargetTyped
  <2>6. ASSUME NEW b, NEW k, NEW P, InBlock(fb, buffer[Target], Panel, PanelAt(fb), b, k, P)
        PROVE  InBlock(fb, buffer'[Target], Panel, PanelAt(fb), b, k, P)
    BY <2>5, <2>6, BlockKept
  <2>7. PanelShown(fb, Target, buffer', pc["kernel"], char["kernel"], pos["kernel"], turned)
    BY <2>3, <2>4, <2>6 DEF PanelShown
  <2> QED BY <1>1, <1>2, <1>3, <2>7 DEF PanelInv
<1> QED BY <1>2, <1>4, <1>5, <1>6 DEF KmainInv

LEMMA KmainInvInit == Init => KmainInv
<1> SUFFICES ASSUME Init PROVE KmainInv
  OBVIOUS
<1>1. /\ pc["kernel"] = 1 /\ char["kernel"] = 1 /\ turned = FALSE
      /\ pos["panic"] = PanicStart /\ fb \in Framebuffers
  BY DEF Init
<1>2. BootCalls \in Nat /\ Len(Panel) \in Nat /\ LoopStart = BootCalls + 9
  BY <1>1, KernelCalls
<1>3. Progress
  <2>1. PanicStart.y \in Nat /\ fb.PixelHeight \in Nat
    BY <1>1, ConstantsTyped, ScreenAssumption DEF Point, Framebuffer
  <2>2. PanicStart.y >= Lesser(PanicStart.y, fb.PixelHeight)
    BY <2>1 DEF Lesser
  <2> QED BY <1>1, <1>2, <2>2 DEF Progress
<1>4. LinesInv
  BY <1>1, <1>2 DEF LinesInv, LinesAt
<1>5. PanelInv
  BY <1>1, <1>2 DEF PanelInv, PanelShown
<1> QED BY <1>3, <1>4, <1>5 DEF KmainInv

LEMMA KmainInvStep ==
  ASSUME TypeOK, BufferOK, KmainInv, [Next]_vars
  PROVE  KmainInv'
<1>1. CASE CallStep
  BY <1>1, KmainKernelStep, KmainPanicStep
<1>2. CASE kmainLoops
  <2>1. /\ running = "kernel" /\ pc' = [pc EXCEPT !["kernel"] = LoopStart] /\ turned' = TRUE
        /\ here > Len(Program) /\ UNCHANGED <<fb, buffer, char, pos>>
    BY <1>2 DEF kmainLoops
  <2>2. /\ fb \in Framebuffers /\ BootCalls \in Nat /\ Len(Panel) \in Nat
        /\ LoopStart = BootCalls + 9
        /\ pc["kernel"] > BootCalls + 2 * Len(Panel) + 11 /\ pc["kernel"] \in Nat
    BY <2>1, InKernel, KernelCalls
  <2>3. pc'["kernel"] = LoopStart
    BY <2>1 DEF TypeOK
  <2>4. char["kernel"] = 1
    BY <2>2 DEF KmainInv, Progress
  <2>5. Progress'
    BY <2>1, <2>2, <2>3, <2>4 DEF KmainInv, Progress
  <2>6. (Room' <=> Room) /\ (PanelFits' <=> PanelFits) /\ Target' = Target
    BY <2>1, SameScreen
  <2>7. Room => LinesInv'
    BY <2>1, <2>2, <2>3, <2>6 DEF KmainInv, LinesInv, LinesAt
  <2>8. PanelFits => PanelInv'
    BY <2>1, <2>2, <2>3, <2>6 DEF KmainInv, PanelInv, PanelShown
  <2> QED BY <2>5, <2>6, <2>7, <2>8 DEF KmainInv
<1>3. ASSUME NEW kind \in Kinds, panic(kind) PROVE KmainInv'
  <2>1. /\ UNCHANGED <<fb, buffer, pos, turned>>
        /\ pc'["kernel"] = pc["kernel"] /\ char'["kernel"] = char["kernel"]
    BY <1>3 DEF panic, TypeOK, BufferOK, Contexts
  <2> QED BY <2>1, KmainUntouched
<1>4. CASE panicReturns
  BY <1>4, KmainUntouched DEF panicReturns
<1>5. CASE UNCHANGED vars
  BY <1>5, KmainUntouched DEF vars
<1> QED BY <1>1, <1>2, <1>3, <1>4, <1>5 DEF Next, CallStep

\* What all cells of a text show can be read.
LEMMA CellsReadable ==
  ASSUME NEW texts, NEW p, Has(fb, buffer["render"], texts, p, Cells(texts)),
         texts \in Seq(Seq(Nat))
  PROVE  LinesReadable(texts, p)
<1> SUFFICES ASSUME NEW i \in DOMAIN texts, NEW k \in DOMAIN texts[i],
                    NEW o \in CellArea(fb, p, <<i, k>>)
             PROVE  buffer["render"][o] = texts[i][k]
  BY DEF LinesReadable, Readable, CellArea, Cell, Glyph, At
<1>1. <<i, k>> \in Cells(texts)
  <2>1. i \in Nat /\ texts[i] \in Seq(Nat)
    OBVIOUS
  <2>2. k \in Nat
    BY <2>1
  <2> QED BY <2>1, <2>2 DEF Cells
<1> QED BY <1>1 DEF Has

LEMMA KmainInvMeans == ASSUME TypeOK, KmainInv PROVE KmainReadable
<1> SUFFICES ASSUME Room PROVE /\ pc["kernel"] >= LoopStart => LinesReadable(KmainLines, Origin)
                               /\ turned /\ Fits(Panel, PanelAt(fb)) => LinesReadable(Panel, PanelAt(fb))
  BY DEF KmainReadable, KmainLines, PanelAt
<1>1. pc["kernel"] >= LoopStart => LinesReadable(KmainLines, Origin)
  BY RoomMeans, CellsReadable DEF KmainInv, LinesInv, LinesAt, Both
<1>2. turned /\ Fits(Panel, PanelAt(fb)) => LinesReadable(Panel, PanelAt(fb))
  BY PanelMeans, CellsReadable DEF KmainInv, PanelInv, PanelShown, PanelFits, Both
<1> QED BY <1>1, <1>2

\* Once kmain loops, what it has drawn can be read on the framebuffer and stays so:
\* no turn of the loop and no panic draws or copies over it, on any screen on
\* which the lines and the panel do not meet, with or without a copy in memory.
THEOREM KmainStaysReadable == Spec => []KmainReadable
<1>1. Init => TypeOK /\ BufferOK /\ KmainInv
  BY InitInv, BufferInit, KmainInvInit DEF IInv
<1>2. IInv /\ BufferOK /\ KmainInv /\ [Next]_vars => BufferOK' /\ KmainInv'
  BY BufferStep, KmainInvStep DEF IInv
<1>3. IInv /\ KmainInv => KmainReadable
  BY KmainInvMeans DEF IInv
<1>4. Init => IInv
  BY InitInv
<1>5. IInv /\ [Next]_vars => IInv'
  BY StepInv
<1> QED BY <1>1, <1>2, <1>3, <1>4, <1>5, PTL DEF Spec

-----------------------------------------------------------------------------
(***************************************************************************)
(* panic()'s lines.  Each panic begins below the end of the last (Placed,  *)
(* Over), so that what it draws leaves the lines of the earlier ones alone; *)
(* only page_fault_handler goes back to PanicStart.  Between two panics,   *)
(* and once the boot screen is cleared, the kernel draws above PanicStart: *)
(* where a panic's first line fits, kmain's lines and the panel's, even    *)
(* broken in two, end above it (PanelAbove).                               *)
(***************************************************************************)
Placed(f, p) ==
    /\ p \in Point /\ p.x = PanicStart.x
    /\ p.y = PanicStart.y \/ p.y >= Lesser(PanicStart.y, f.PixelHeight) + CharacterSize

\* The first line of a panic at p that is still to be seen.
First(lost, p) == IF lost /\ p = PanicStart THEN 2 ELSE 1
Shown(f, base, buf, kind, p, lost) ==
    FitsOn(f, PanicLines(kind), p) =>
      Both(f, base, buf, PanicLines(kind), p, From(PanicLines(kind), First(lost, p)))

Ends(f, texts, p, y) == FitsOn(f, texts, p) => p.y + Len(texts) * CharacterSize <= y
Over(f, kind, p, y) == Ends(f, PanicLines(kind), p, y)

Wide == Room /\ fb.PixelWidth >= PanicRoom
Row(f, i, k, P) ==
    \/ P.y <= (2 * i - 1) * CharacterSize
    \/ /\ P.y <= 2 * i * CharacterSize
       /\ P.x + (Len(Panel[i]) - k + 2) * CharWidth <= f.PixelWidth
InPanel(f, h, k, P) ==
    \A b \in 1 .. 2 * Len(Panel) : h = BootCalls + 10 + b =>
      IF b % 2 = 1 THEN Row(f, (b + 1) \div 2, k, P)
                   ELSE P.y <= 2 * ((b + 1) \div 2) * CharacterSize
PanelAbove == Wide => InPanel(fb, pc["kernel"], char["kernel"], pos["kernel"])

AddressStage == running = "page_fault" /\ pc["panic"] > PanicEnd(running) + 1
Reports ==
    \A r \in reported :
      /\ r.kind \in Kinds /\ Placed(fb, r.at)
      /\ r.kind \notin Returning => running = "halted"
      /\ ~(BootScreen /\ r.kind \in Returning) =>
            Shown(fb, Target, buffer, r.kind, r.at, LineLost)
      /\ running # "halted" /\ ~AddressStage => Over(fb, r.kind, r.at, pos["panic"].y)

Idle == running = "kernel" => Placed(fb, pos["panic"])

\* A panic of a kind that began at p, at call h, character k and position P.
BlockOf(h) == IF h <= 5 THEN h ELSE h - 1
OwnText(f, base, buf, kind, p, h, k, P) ==
    /\ h <= PanicEnd(kind) => InBlock(f, buf[base], PanicLines(kind), p, BlockOf(h), k, P)
    /\ h = PanicEnd(kind) + 1 => P.y = p.y + Len(PanicLines(kind)) * CharacterSize
    /\ h > PanicEnd(kind) => Shown(f, base, buf, kind, p, kind = "page_fault")
AddressText(f, B, kind, h, k, P) ==
    \A b \in 1 .. 2 : kind = "page_fault" /\ h = PanicEnd(kind) + 1 + b =>
      InBlock(f, B, <<Address>>, PanicStart, b, k, P)
Resting(f, kind, h, P) ==
    h \in {5, PanicEnd(kind), PanicEnd(kind) + 1} =>
      P.x = PanicStart.x /\ P.y >= Lesser(PanicStart.y, f.PixelHeight) + CharacterSize

OwnCall(kind, h, k) ==
    /\ h <= Len(Panic(kind)) + 1
    /\ k # 1 => h <= Len(Panic(kind)) /\ Panic(kind)[h].op = "puts"
OwnAt(f, base, buf, kind, p, h, k, P) ==
    /\ OwnCall(kind, h, k)
    /\ Resting(f, kind, h, P)
    /\ FitsOn(f, PanicLines(kind), p) => OwnText(f, base, buf, kind, p, h, k, P)
    /\ FitsOn(f, <<Address>>, PanicStart) => AddressText(f, buf[base], kind, h, k, P)

OwnInv ==
    running \in Kinds =>
      /\ Placed(fb, began)
      /\ OwnAt(fb, Target, buffer, running, began, pc["panic"], char["panic"], pos["panic"])

PanicInv == PanelAbove /\ Reports /\ Idle /\ OwnInv

\* Where a panic's lines fit, so do kmain's, above them.
LEMMA PanicFits ==
  ASSUME TypeOK, NEW kind, NEW p, Placed(fb, p), FitsOn(fb, PanicLines(kind), p)
  PROVE  /\ Wide /\ PanicLines(kind) \in Seq(Seq(Nat)) /\ p \in Point
         /\ PanicStart.y <= p.y
         /\ p = PanicStart \/ PanicStart.y + CharacterSize <= p.y
         /\ p.y + CharacterSize <= fb.PixelHeight
         /\ PanicStart \in Point /\ Visible(fb, PanicStart)
         /\ Lesser(PanicStart.y, fb.PixelHeight) = PanicStart.y
<1> DEFINE lines == PanicLines(kind)
           H == fb.PixelHeight
           W == fb.PixelWidth
           n == Len(lines)
<1>1. /\ fb \in Framebuffers /\ H \in Nat /\ W \in Nat /\ CharacterSize \in Nat /\ CharacterSize > 0
      /\ CharWidth \in Nat /\ PanicStart \in Point /\ PanicStart.x \in Nat /\ PanicStart.y \in Nat
  <2>1. fb \in Framebuffers /\ H \in Nat /\ W \in Nat
    BY ScreenAssumption DEF TypeOK, Framebuffer
  <2>2. CharacterSize \in Nat /\ CharacterSize > 0 /\ CharWidth \in Nat
    BY ScreenAssumption
  <2>3. PanicStart \in Point
    BY ConstantsTyped
  <2> QED BY <2>1, <2>2, <2>3 DEF Point
<1>2. /\ p \in Point /\ p.x \in Nat /\ p.y \in Nat /\ p.x = PanicStart.x
      /\ p.y = PanicStart.y \/ p.y >= Lesser(PanicStart.y, H) + CharacterSize
  BY DEF Placed, Point
<1>3. lines \in Seq(Seq(Nat)) /\ n \in Nat /\ n >= 2 /\ lines[1] = PanicMode
  BY PanicLinesTyped
<1>4. /\ p.y + n * CharacterSize <= H
      /\ \A i \in 1 .. n : p.x + (Len(lines[i]) + 1) * CharWidth <= W
  BY <1>3 DEF FitsOn
<1>5. p.x + (Len(PanicMode) + 1) * CharWidth <= W
  <2>1. 1 \in 1 .. n
    BY <1>3
  <2>2. p.x + (Len(lines[1]) + 1) * CharWidth <= W
    BY <1>4, <2>1
  <2> QED BY <1>3, <2>2
<1> HIDE DEF lines, H, W, n
<1>6. W >= PanicRoom
  BY <1>2, <1>5 DEF PanicRoom
<1>7. p.y + 2 * CharacterSize <= H
  <2>1. 2 * CharacterSize <= n * CharacterSize /\ n * CharacterSize \in Nat
    BY <1>1, <1>3, Multiple
  <2> DEFINE a == n * CharacterSize
  <2>2. 2 * CharacterSize <= a /\ a \in Nat /\ p.y + a <= H
    BY <1>4, <2>1
  <2> HIDE DEF a
  <2> QED BY <1>1, <1>2, <2>2
<1>8. Lesser(PanicStart.y, H) = PanicStart.y
  BY <1>1, <1>2, <1>7 DEF Lesser
<1>9. /\ PanicStart.y <= p.y /\ PanicStart.y + CharacterSize <= H
      /\ p.y = PanicStart.y \/ PanicStart.y + CharacterSize <= p.y
      /\ p.y + CharacterSize <= H
  BY <1>1, <1>2, <1>7, <1>8
<1>10. p.y = PanicStart.y => p = PanicStart
  BY <1>1, <1>2 DEF Point
<1>11. PanicStart.x <= W
  <2>1. (Len(PanicMode) + 1) * CharWidth \in Nat
    <3>1. Len(PanicMode) + 1 \in Nat
      BY ConstantsTyped
    <3> QED BY <1>1, <3>1, Multiple
  <2> DEFINE a == (Len(PanicMode) + 1) * CharWidth
  <2>2. a \in Nat /\ p.x + a <= W
    BY <1>5, <2>1
  <2> HIDE DEF a
  <2> QED BY <1>1, <1>2, <2>2
<1>12. Room
  <2>1. 2 * CharacterSize <= H
    BY <1>1, <1>2, <1>7
  <2>2. \A text \in {MIT, Roll} : (Len(text) + 1) * CharWidth <= PanicRoom
    BY LayoutAssumption
  <2>3. /\ (Len(MIT) + 1) * CharWidth \in Nat /\ (Len(Roll) + 1) * CharWidth \in Nat
        /\ Len(Roll) * CharWidth \in Nat /\ PanicRoom \in Nat
    <3>1. Len(MIT) + 1 \in Nat /\ Len(Roll) + 1 \in Nat /\ Len(Roll) \in Nat /\ Len(PanicMode) + 1 \in Nat
      BY ConstantsTyped
    <3>2. (Len(PanicMode) + 1) * CharWidth \in Nat
      BY <1>1, <3>1, Multiple
    <3>3. PanicRoom \in Nat
      <4> DEFINE a == (Len(PanicMode) + 1) * CharWidth
      <4>1. PanicRoom = PanicStart.x + a /\ a \in Nat
        BY <3>2 DEF PanicRoom
      <4> HIDE DEF a
      <4> QED BY <1>1, <4>1
    <3> QED BY <1>1, <3>1, <3>3, Multiple
  <2> DEFINE a == (Len(MIT) + 1) * CharWidth
             b == (Len(Roll) + 1) * CharWidth
             c == Len(Roll) * CharWidth
  <2>4. a <= PanicRoom /\ b <= PanicRoom /\ a \in Nat /\ b \in Nat /\ PanicRoom \in Nat
    BY <2>2, <2>3
  <2>5. PanelWidth + c <= PanicRoom /\ c \in Nat /\ PanelWidth \in Nat
    BY <2>3, LayoutAssumption, ScreenAssumption
  <2> HIDE DEF a, b, c
  <2>6. 0 + a <= W /\ 0 + b <= W /\ W >= PanelWidth + c
    BY <1>1, <1>6, <2>4, <2>5
  <2>7. Fits(<<MIT, Roll>>, Origin)
    <3>1. Origin.x = 0 /\ Origin.y = 0 /\ Len(<<MIT, Roll>>) = 2 /\ DOMAIN <<MIT, Roll>> = {1, 2}
      BY DEF Origin
    <3>2. 0 + 2 * CharacterSize <= H
      BY <1>1, <2>1
    <3>3. ASSUME NEW i \in {1, 2} PROVE 0 + (Len(<<MIT, Roll>>[i]) + 1) * CharWidth <= W
      <4>1. CASE i = 1
        BY <2>6, <4>1 DEF a
      <4>2. CASE i = 2
        BY <2>6, <4>2 DEF b
      <4> QED BY <4>1, <4>2
    <3> QED BY <3>1, <3>2, <3>3 DEF Fits, H, W
  <2> QED BY <2>6, <2>7 DEF Room, W, c
<1>13. Visible(fb, PanicStart)
  BY <1>1, <1>9, <1>11 DEF Visible, H, W
<1> QED BY <1>1, <1>2, <1>3, <1>6, <1>8, <1>9, <1>10, <1>12, <1>13 DEF Wide, lines, H, W

-----------------------------------------------------------------------------
(* The kernel's steps leave panic()'s lines alone.                         *)

\* The rows of the panel's line i end above PanicStart.
LEMMA RowsAbove ==
  ASSUME NEW i \in 1 .. Len(Panel)
  PROVE  /\ (2 * i - 1) * CharacterSize \in Nat /\ 2 * i * CharacterSize \in Nat
         /\ 2 * i * CharacterSize = (2 * i - 1) * CharacterSize + CharacterSize
         /\ (2 * (i + 1) - 1) * CharacterSize = 2 * i * CharacterSize + CharacterSize
         /\ 2 * i * CharacterSize + CharacterSize <= PanicStart.y
<1>1. CharacterSize \in Nat /\ Len(Panel) \in Nat /\ i \in Nat \ {0} /\ i <= Len(Panel)
  BY ScreenAssumption, ConstantsTyped
<1> DEFINE m == 2 * i - 1
<1>2. /\ m \in Nat /\ m + 1 = 2 * i /\ m + 2 = 2 * (i + 1) - 1
      /\ m + 2 <= 2 * Len(Panel) + 1 /\ m + 2 \in Nat /\ 2 * Len(Panel) + 1 \in Nat
  BY <1>1
<1> HIDE DEF m
<1>3. /\ m * CharacterSize \in Nat
      /\ (m + 1) * CharacterSize = m * CharacterSize + CharacterSize
      /\ (m + 2) * CharacterSize = m * CharacterSize + CharacterSize + CharacterSize
  BY <1>1, <1>2, Multiple
<1>4. (m + 2) * CharacterSize <= (2 * Len(Panel) + 1) * CharacterSize
  BY <1>1, <1>2, Multiple
<1>5. (2 * Len(Panel) + 1) * CharacterSize <= PanicStart.y
  BY LayoutAssumption
<1>6. (2 * Len(Panel) + 1) * CharacterSize \in Nat /\ PanicStart.y \in Nat
  BY <1>1, <1>2, Multiple, ConstantsTyped DEF Point
<1> DEFINE a == m * CharacterSize
           b == (m + 1) * CharacterSize
           c == (m + 2) * CharacterSize
           d == (2 * Len(Panel) + 1) * CharacterSize
<1>7. /\ a \in Nat /\ b = a + CharacterSize /\ c = a + CharacterSize + CharacterSize
      /\ c <= d /\ d <= PanicStart.y /\ d \in Nat /\ PanicStart.y \in Nat
  BY <1>3, <1>4, <1>5, <1>6
<1> HIDE DEF a, b, c, d
<1>8. b \in Nat /\ c = b + CharacterSize /\ b + CharacterSize <= PanicStart.y
  BY <1>1, <1>7
<1>9. a = (2 * i - 1) * CharacterSize /\ b = 2 * i * CharacterSize
      /\ c = (2 * (i + 1) - 1) * CharacterSize
  <2>1. b = (m + 1) * CharacterSize /\ c = (m + 2) * CharacterSize /\ a = m * CharacterSize
    BY DEF a, b, c
  <2>2. a = (2 * i - 1) * CharacterSize
    BY <2>1 DEF m
  <2> QED BY <1>2, <2>1, <2>2
<1> QED BY <1>7, <1>8, <1>9

\* A character of line i: at most one break goes between two of them.
LEMMA RowPuts ==
  ASSUME TypeOK, Wide, NEW i \in 1 .. Len(Panel), NEW k \in 1 .. Len(Panel[i]),
         NEW P \in Point, Row(fb, i, k, P)
  PROVE  LET q == clamp_draw_position(fb, P)
         IN  /\ q.y + CharacterSize <= PanicStart.y
             /\ Row(fb, i, k + 1, NextChar(fb, q))
<1> DEFINE q == clamp_draw_position(fb, P)
           W == fb.PixelWidth
           odd == (2 * i - 1) * CharacterSize
           even == 2 * i * CharacterSize
<1>1. /\ fb \in Framebuffers /\ W \in Nat /\ fb.PixelHeight \in Nat
      /\ CharacterSize \in Nat /\ CharWidth \in Nat
  BY RoomMeans DEF Wide, TypeOK
<1>2. /\ odd \in Nat /\ even \in Nat /\ even = odd + CharacterSize
      /\ even + CharacterSize <= PanicStart.y
  BY RowsAbove
<1>3. PanicStart.y \in Nat /\ P.x \in Nat /\ P.y \in Nat
  BY ConstantsTyped DEF Point
<1>4. q = At(Lesser(P.x, W), Lesser(P.y, fb.PixelHeight))
  BY DEF clamp_draw_position
<1>5. q.x = Lesser(P.x, W) /\ q.y = Lesser(P.y, fb.PixelHeight)
  BY <1>4 DEF At
<1> DEFINE n == Len(Panel[i])
           left == (n - k) * CharWidth
<1>6. n \in Nat /\ k \in Nat /\ k <= n /\ k >= 1
  <2>1. Panel \in Seq(Seq(Nat))
    BY ConstantsTyped
  <2>2. Panel[i] \in Seq(Nat)
    BY <2>1
  <2> QED BY <2>2
<1>7. (n + 1) * CharWidth <= W
  <2>1. i \in DOMAIN Panel
    BY ConstantsTyped
  <2>2. (n + 1) * CharWidth <= PanicRoom
    BY <2>1, LayoutAssumption
  <2>3. (n + 1) * CharWidth \in Nat /\ (Len(PanicMode) + 1) * CharWidth \in Nat
    <3>1. n + 1 \in Nat /\ Len(PanicMode) + 1 \in Nat
      BY <1>6, ConstantsTyped
    <3> QED BY <1>1, <3>1, Multiple
  <2>4. PanicRoom \in Nat
    <3> DEFINE a == (Len(PanicMode) + 1) * CharWidth
    <3>1. PanicRoom = PanicStart.x + a /\ a \in Nat /\ PanicStart.x \in Nat
      BY <2>3, ConstantsTyped DEF PanicRoom, Point
    <3> HIDE DEF a
    <3> QED BY <3>1
  <2> DEFINE a == (n + 1) * CharWidth
  <2>5. a <= PanicRoom /\ a \in Nat /\ W >= PanicRoom
    BY <2>2, <2>3 DEF Wide
  <2> HIDE DEF a, W
  <2> QED BY <1>1, <2>4, <2>5 DEF a
<1> HIDE DEF q, W, odd, even
<1>8. /\ left \in Nat
      /\ (n - k + 2) * CharWidth = left + CharWidth + CharWidth
      /\ (n - (k + 1) + 2) * CharWidth = left + CharWidth
      /\ left + CharWidth <= W
  <2> DEFINE m == n - k
  <2>1. m \in Nat /\ m + 1 <= n + 1 /\ m + 1 \in Nat /\ n + 1 \in Nat
        /\ n - k + 2 = m + 2 /\ n - (k + 1) + 2 = m + 1
    BY <1>6
  <2>2. left = m * CharWidth
    OBVIOUS
  <2> HIDE DEF m, left, n
  <2>3. /\ m * CharWidth \in Nat /\ (m + 1) * CharWidth = m * CharWidth + CharWidth
        /\ (m + 2) * CharWidth = m * CharWidth + CharWidth + CharWidth
    BY <1>1, <2>1, Multiple
  <2>4. (m + 1) * CharWidth <= (n + 1) * CharWidth
    BY <1>1, <2>1, Multiple
  <2>5. (n + 1) * CharWidth \in Nat
    BY <1>1, <2>1, Multiple
  <2> DEFINE a == (n + 1) * CharWidth
             b == m * CharWidth
             c == (m + 1) * CharWidth
  <2>6. c <= a /\ a <= W /\ c = b + CharWidth /\ a \in Nat /\ b \in Nat
    BY <1>7, <2>3, <2>4, <2>5
  <2>7. b + CharWidth <= W
    <3> HIDE DEF a, b, c
    <3> QED BY <1>1, <2>6
  <2> QED BY <2>1, <2>2, <2>3, <2>7
<1> HIDE DEF n, left
<1>9. Row(fb, i, k, P) <=> \/ P.y <= odd
                           \/ P.y <= even /\ P.x + (n - k + 2) * CharWidth <= W
  BY DEF Row, odd, even, W, n
<1>10. P.y <= odd \/ (P.y <= even /\ P.x + (left + CharWidth + CharWidth) <= W)
  BY <1>8, <1>9
<1>11. /\ q.y \in Nat /\ q.x \in Nat /\ q.y <= P.y
       /\ P.x <= W => q.x = P.x
  BY <1>1, <1>3, <1>5 DEF Lesser
<1>12. q.y + CharacterSize <= PanicStart.y
  BY <1>1, <1>2, <1>3, <1>10, <1>11
<1> DEFINE R == NextChar(fb, q)
<1>13. Row(fb, i, k + 1, R) <=> \/ R.y <= odd
                                \/ R.y <= even /\ R.x + (left + CharWidth) <= W
  BY <1>8 DEF Row, odd, even, W, n
<1>14. \/ /\ q.x + CharWidth + CharWidth > W
          /\ R.x = 0 /\ R.y = q.y + CharacterSize
       \/ R.x = q.x + CharWidth /\ R.y = q.y
  BY DEF NextChar, At, W
<1> HIDE DEF R
<1>15. ASSUME R.x = q.x + CharWidth, R.y = q.y PROVE Row(fb, i, k + 1, R)
  <2>1. CASE P.y <= odd
    BY <1>1, <1>2, <1>3, <1>11, <1>13, <1>15, <2>1
  <2>2. CASE P.y <= even /\ P.x + (left + CharWidth + CharWidth) <= W
    <3>1. q.x = P.x
      BY <1>1, <1>3, <1>8, <1>11, <2>2
    <3>2. R.x + (left + CharWidth) <= W
      BY <1>1, <1>3, <1>8, <1>15, <2>2, <3>1
    <3>3. R.y <= even
      BY <1>2, <1>3, <1>11, <1>15, <2>2
    <3> QED BY <1>13, <3>2, <3>3
  <2> QED BY <1>10, <2>1, <2>2
<1>16. ASSUME q.x + CharWidth + CharWidth > W, R.x = 0, R.y = q.y + CharacterSize
       PROVE  Row(fb, i, k + 1, R)
  <2>1. ~(P.y <= even /\ P.x + (left + CharWidth + CharWidth) <= W)
    <3> SUFFICES ASSUME P.x + (left + CharWidth + CharWidth) <= W PROVE FALSE
      OBVIOUS
    <3>1. q.x = P.x
      BY <1>1, <1>3, <1>8, <1>11
    <3> QED BY <1>1, <1>3, <1>8, <1>16, <3>1
  <2>2. P.y <= odd
    BY <1>10, <2>1
  <2>3. R.y <= even /\ R.x + (left + CharWidth) <= W
    BY <1>1, <1>2, <1>3, <1>8, <1>11, <1>16, <2>2
  <2> QED BY <1>13, <2>3
<1> QED BY <1>12, <1>14, <1>15, <1>16 DEF q, R

LEMMA PanelRows ==
  ASSUME TypeOK, BufferOK, KmainInv, PanelAbove, Wide, CallStep, running = "kernel"
  PROVE  /\ InPanel(fb, pc'["kernel"], char'["kernel"], pos'["kernel"])
         /\ \A b \in 1 .. 2 * Len(Panel) : pc["kernel"] = BootCalls + 10 + b =>
               \/ UNCHANGED buffer
               \/ \E at \in Point : \E pixel :
                     /\ Visible(fb, at) /\ at.y + CharacterSize <= PanicStart.y
                     /\ Paints(Area(fb, at, Glyph), pixel)
<1> DEFINE h == pc["kernel"]
           k == char["kernel"]
           P == pos["kernel"]
           n == Len(Panel)
           L == BootCalls
<1>1. /\ Context = "kernel" /\ here = h /\ call = Kernel(fb)[h] /\ h \in Nat \ {0}
      /\ fb \in Framebuffers /\ P \in Point /\ k \in Nat \ {0} /\ Room
  BY InKernel DEF TypeOK, BufferOK, Contexts, Wide
<1>2. L \in Nat /\ n \in Nat /\ LoopStart = L + 9
  BY <1>1, KernelCalls
<1>3. /\ pc'["kernel"] = h \/ pc'["kernel"] = h + 1
      /\ call.op # "puts" => pc'["kernel"] = h + 1 /\ k = 1 /\ char'["kernel"] = 1
      /\ h <= L + 2 * n + 11
  BY KernelGoes DEF KmainInv
<1>4. InPanel(fb, h, k, P)
  BY DEF PanelAbove
<1> DEFINE Goal == InPanel(fb, pc'["kernel"], char'["kernel"], pos'["kernel"])
           Drawn == \/ UNCHANGED buffer
                    \/ \E at \in Point : \E pixel :
                          /\ Visible(fb, at) /\ at.y + CharacterSize <= PanicStart.y
                          /\ Paints(Area(fb, at, Glyph), pixel)
           InLines == \E b \in 1 .. 2 * n : h = L + 10 + b
<1> SUFFICES Goal /\ (InLines => Drawn)
  OBVIOUS
<1> HIDE DEF h, k, P, n, L, Goal, Drawn, InLines
<1>5. CASE h <= L + 9
  <2>1. pc'["kernel"] <= L + 10 /\ pc'["kernel"] \in Nat /\ ~InLines
    BY <1>1, <1>2, <1>3, <1>5 DEF InLines
  <2>2. \A b \in 1 .. 2 * n : pc'["kernel"] # L + 10 + b
    BY <1>2, <2>1
  <2> QED BY <2>1, <2>2 DEF InPanel, Goal, L, n
<1>6. CASE h = L + 10
  <2>1. call = Crlf(debugInfoX(fb))
    BY <1>1, <1>6, KernelCalls DEF L
  <2>2. call.op = "crlf" /\ call.at.x = debugInfoX(fb)
    BY <2>1 DEF Crlf, Call, At
  <2>3. DoesCrlf
    BY <2>2, CallDone
  <2>4. pos'["kernel"] = crlf(P, debugInfoX(fb)) /\ pc'["kernel"] = L + 11
    BY <1>1, <1>2, <1>3, <1>6, <2>2, <2>3, Gone DEF DoesCrlf, Contexts, P
  <2>5. P = At(debugInfoX(fb), 0)
    BY <1>1, <1>2, <1>6 DEF KmainInv, LinesInv, LinesAt, P, h
  <2>6. pos'["kernel"].y = 0 + CharacterSize
    BY <2>4, <2>5 DEF crlf, At
  <2>7. pos'["kernel"].y <= (2 * 1 - 1) * CharacterSize
    BY <1>1, <2>6, RoomMeans
  <2>8. ASSUME NEW b \in 1 .. 2 * n, pc'["kernel"] = L + 10 + b
        PROVE  b = 1 /\ b % 2 = 1 /\ (b + 1) \div 2 = 1
    <3>1. b = 1
      BY <1>2, <2>4, <2>8
    <3> QED BY <3>1
  <2>9. Row(fb, 1, char'["kernel"], pos'["kernel"])
    BY <2>7 DEF Row
  <2>10. ~InLines
    BY <1>2, <1>6 DEF InLines
  <2> QED BY <2>8, <2>9, <2>10 DEF InPanel, Goal, L, n
<1>7. CASE InLines
  <2>1. PICK b \in 1 .. 2 * n : h = L + 10 + b
    BY <1>7 DEF InLines
  <2> DEFINE i == (b + 1) \div 2
             q == clamp_draw_position(fb, P)
  <2>2. call = BlockCall(Panel, debugInfoX(fb), b)
    BY <1>1, <2>1, KernelCalls DEF L, n
  <2>3. /\ i \in 1 .. n /\ b + 1 \in 1 .. 2 * n + 1
        /\ b % 2 = 1 => (b + 1) % 2 # 1 /\ ((b + 1) + 1) \div 2 = i
        /\ b % 2 # 1 => (b + 1) % 2 = 1 /\ ((b + 1) + 1) \div 2 = i + 1
    BY <1>2, BlockLine
  <2>4. IF b % 2 = 1 THEN Row(fb, i, k, P) ELSE P.y <= 2 * i * CharacterSize
    BY <1>4, <2>1 DEF InPanel, L, n
  <2>5. /\ (2 * i - 1) * CharacterSize \in Nat /\ 2 * i * CharacterSize \in Nat
        /\ 2 * i * CharacterSize = (2 * i - 1) * CharacterSize + CharacterSize
        /\ (2 * (i + 1) - 1) * CharacterSize = 2 * i * CharacterSize + CharacterSize
    BY <2>3, RowsAbove DEF n
  <2>6. CharacterSize \in Nat /\ P.y \in Nat
    BY <1>1, RoomMeans DEF Point
  <2> HIDE DEF i, q
  <2>7. CASE b % 2 = 1 /\ PutsCharacter(Panel[i], k, q)
    <3>1. /\ k <= Len(Panel[i]) /\ pc'["kernel"] = h /\ char'["kernel"] = k + 1
          /\ pos'["kernel"] = NextChar(fb, q) /\ \E pixel : Paints(Area(fb, q, Glyph), pixel)
      BY <1>1, <2>7, Gone DEF PutsCharacter, Contexts
    <3>2. k \in 1 .. Len(Panel[i])
      <4>1. Panel \in Seq(Seq(Nat))
        BY ConstantsTyped
      <4>2. Len(Panel[i]) \in Nat
        BY <2>3, <4>1 DEF n
      <4> QED BY <1>1, <3>1, <4>2
    <3>3. q.y + CharacterSize <= PanicStart.y /\ Row(fb, i, k + 1, NextChar(fb, q))
      BY <1>1, <2>3, <2>4, <2>7, <3>2, RowPuts DEF q, n
    <3>4. q \in Point /\ Visible(fb, q)
      BY <1>1, Clamped DEF Visible, q
    <3>5. Drawn
      BY <3>1, <3>3, <3>4 DEF Drawn
    <3>6. ASSUME NEW d \in 1 .. 2 * n, pc'["kernel"] = L + 10 + d PROVE d = b
      BY <1>2, <2>1, <3>1, <3>6
    <3> QED BY <2>7, <3>1, <3>3, <3>5, <3>6 DEF InPanel, Goal, L, n, i
  <2>8. CASE b % 2 = 1 /\ PutsNoMore(Panel[i], k)
    <3>1. pc'["kernel"] = h + 1 /\ pos'["kernel"] = P /\ buffer' = buffer
      BY <1>1, <2>8, Gone DEF PutsNoMore, Contexts, P
    <3>2. ASSUME NEW d \in 1 .. 2 * n, pc'["kernel"] = L + 10 + d PROVE d = b + 1
      BY <1>2, <2>1, <3>1, <3>2
    <3>3. P.y <= 2 * i * CharacterSize
      <4>1. P.y <= (2 * i - 1) * CharacterSize \/ P.y <= 2 * i * CharacterSize
        BY <2>4, <2>8 DEF Row
      <4> DEFINE u == (2 * i - 1) * CharacterSize
                 v == 2 * i * CharacterSize
      <4>2. (P.y <= u \/ P.y <= v) /\ v = u + CharacterSize /\ u \in Nat /\ v \in Nat
        BY <2>5, <4>1
      <4>3. P.y <= v
        <5> HIDE DEF u, v
        <5> QED BY <2>6, <4>2
      <4> QED BY <4>3
    <3> QED BY <2>3, <2>8, <3>1, <3>2, <3>3 DEF InPanel, Goal, Drawn, L, n
  <2>9. CASE b % 2 # 1
    <3>1. Goes(Context, here + 1, char[Context], crlf(pos[Context], debugInfoX(fb))) /\ buffer' = buffer
      BY <2>2, <2>9, BlockDoes
    <3>2. pc'["kernel"] = h + 1 /\ pos'["kernel"] = crlf(P, debugInfoX(fb)) /\ buffer' = buffer
      BY <1>1, <3>1, Gone DEF Contexts, P
    <3>3. ASSUME NEW d \in 1 .. 2 * n, pc'["kernel"] = L + 10 + d PROVE d = b + 1
      BY <1>2, <2>1, <3>2, <3>3
    <3>4. pos'["kernel"].y <= (2 * (i + 1) - 1) * CharacterSize
      <4>1. pos'["kernel"].y = P.y + CharacterSize
        BY <3>2 DEF crlf, At
      <4> DEFINE u == (2 * (i + 1) - 1) * CharacterSize
                 v == 2 * i * CharacterSize
      <4>2. P.y <= v /\ u = v + CharacterSize /\ v \in Nat
        BY <2>4, <2>5, <2>9
      <4>3. pos'["kernel"].y <= u
        <5> HIDE DEF u, v
        <5> QED BY <2>6, <4>1, <4>2
      <4> QED BY <4>3
    <3>5. Row(fb, i + 1, char'["kernel"], pos'["kernel"])
      BY <3>4 DEF Row
    <3> QED BY <2>3, <2>9, <3>2, <3>3, <3>5 DEF InPanel, Goal, Drawn, L, n
  <2>10. b % 2 = 1 => PutsCharacter(Panel[i], k, q) \/ PutsNoMore(Panel[i], k)
    BY <1>1, <2>2, BlockDoes DEF k, P, i, q
  <2> QED BY <2>7, <2>8, <2>9, <2>10
<1>8. CASE h = L + 2 * n + 11
  <2>1. call.op = "swap"
    <3>1. call = Swap(At(debugInfoX(fb), 0), At(Far, PanelHeight))
      BY <1>1, <1>8, KernelCalls DEF L, n
    <3> QED BY <3>1 DEF Swap, Call
  <2>2. pc'["kernel"] = L + 2 * n + 12 /\ ~InLines
    BY <1>2, <1>3, <1>8, <2>1 DEF InLines
  <2>3. \A b \in 1 .. 2 * n : pc'["kernel"] # L + 10 + b
    BY <1>2, <2>2
  <2> QED BY <2>2, <2>3 DEF InPanel, Goal, L, n
<1>9. \/ h <= L + 2 \/ h = L + 3
      \/ \E b \in 1 .. 4 : h = L + 3 + b
      \/ h = L + 8 \/ h = L + 9 \/ h = L + 10
      \/ InLines
      \/ h = L + 2 * n + 11
  BY <1>1, <1>2, <1>3, KernelPlaces DEF InLines
<1>10. h <= L + 9 \/ h = L + 10 \/ InLines \/ h = L + 2 * n + 11
  BY <1>1, <1>2, <1>9
<1> QED BY <1>5, <1>6, <1>7, <1>8, <1>10

\* What is drawn in rows above a text.
LEMMA BelowMisses ==
  ASSUME NEW f \in Framebuffers, NEW texts \in Seq(Seq(Nat)), NEW p \in Point,
         FitsOn(f, texts, p), NEW q, Visible(f, q), NEW extent \in Point,
         NEW i \in Nat \ {0}, q.y + extent.y <= p.y + (i - 1) * CharacterSize
  PROVE  Misses(f, Area(f, q, extent), texts, p, From(texts, i))
<1> SUFFICES ASSUME NEW c \in From(texts, i)
             PROVE  CellArea(f, p, c) \cap Area(f, q, extent) = {}
  BY DEF Misses
<1>1. c \in Cells(texts) /\ c[1] >= i
  BY DEF From
<1> DEFINE r == Cell(p, c[1], c[2])
<1>2. c[1] \in Nat \ {0} /\ c[2] \in Nat \ {0} /\ Visible(f, r)
  BY <1>1, CellOnScreen
<1>3. /\ r.y = p.y + (c[1] - 1) * CharacterSize /\ (c[1] - 1) * CharacterSize \in Nat
      /\ (i - 1) * CharacterSize \in Nat
  BY <1>2, CellPlace
<1>4. (i - 1) * CharacterSize <= (c[1] - 1) * CharacterSize
  <2>1. CharacterSize \in Nat /\ i - 1 \in Nat /\ c[1] - 1 \in Nat /\ i - 1 <= c[1] - 1
    BY <1>1, <1>2, ScreenAssumption
  <2> QED BY <2>1, Multiple
<1>5. q.y + extent.y <= r.y
  <2> DEFINE a == (i - 1) * CharacterSize
             b == (c[1] - 1) * CharacterSize
  <2>1. q.y + extent.y <= p.y + a /\ a <= b /\ r.y = p.y + b /\ a \in Nat /\ b \in Nat
    BY <1>3, <1>4
  <2>2. q.y \in Nat /\ extent.y \in Nat /\ p.y \in Nat
    BY DEF Visible, Point
  <2> HIDE DEF a, b, r
  <2> QED BY <2>1, <2>2
<1> HIDE DEF r
<1>6. Glyph \in Point
  BY GlyphTyped
<1>7. Area(f, r, Glyph) \cap Area(f, q, extent) = {}
  BY <1>2, <1>5, <1>6, Apart
<1> QED BY <1>7 DEF CellArea, r

LEMMA FromAll == ASSUME NEW texts \in Seq(Seq(Nat)) PROVE From(texts, 1) = Cells(texts)
<1>1. ASSUME NEW c \in Cells(texts) PROVE c[1] >= 1
  BY DEF Cells
<1>2. Cells(texts) \subseteq From(texts, 1)
  BY <1>1 DEF From
<1> QED BY <1>2, SubCells

\* A panic's lines are below all that kmain draws after the boot screen.
LEMMA KernelLeaves ==
  ASSUME TypeOK, BufferOK, KmainInv, PanelAbove, CallStep, running = "kernel", ~BootScreen,
         NEW kind, NEW p, Placed(fb, p), FitsOn(fb, PanicLines(kind), p),
         NEW S \in SUBSET Cells(PanicLines(kind)),
         Both(fb, Target, buffer, PanicLines(kind), p, S)
  PROVE  Both(fb, Target, buffer', PanicLines(kind), p, S)
<1> DEFINE lines == PanicLines(kind)
           h == pc["kernel"]
           n == Len(Panel)
           L == BootCalls
           Goal == Both(fb, Target, buffer', lines, p, S)
<1>1. /\ Context = "kernel" /\ here = h /\ call = Kernel(fb)[h] /\ h \in Nat \ {0}
      /\ fb \in Framebuffers
  BY InKernel
<1>2. L \in Nat /\ n \in Nat /\ h > L + 1
  BY <1>1, KernelCalls DEF BootScreen, BootCalls
<1>3. h <= L + 2 * n + 11
  BY KernelGoes DEF KmainInv
<1>4. /\ Wide /\ Room /\ lines \in Seq(Seq(Nat)) /\ p \in Point
      /\ PanicStart.y <= p.y /\ PanicStart.y \in Nat /\ p.y \in Nat
  BY PanicFits DEF Wide, Point
<1>5. /\ KmainLines \in Seq(Seq(Nat)) /\ Len(KmainLines) = 2 /\ Origin \in Point
      /\ FitsOn(fb, KmainLines, Origin) /\ Origin.x = 0 /\ Origin.y = 0
      /\ CharacterSize \in Nat /\ debugInfoX(fb) \in Nat
  BY <1>4, RoomMeans DEF Origin
<1>6. ASSUME UNCHANGED buffer PROVE Goal
  BY <1>6
<1>7. ASSUME NEW at \in Point, NEW size, call = Swap(at, size),
             at.x <= fb.PixelWidth, at.y <= fb.PixelHeight
      PROVE  Goal
  <2>1. UNCHANGED buffer \/ Copies(Area(fb, at, size))
    BY <1>7, SwapDone
  <2> QED BY <1>4, <1>6, <2>1, BothCopied
<1>8. ASSUME NEW at \in Point, NEW pixel, Visible(fb, at), at.y + CharacterSize <= PanicStart.y,
             Paints(Area(fb, at, Glyph), pixel)
      PROVE  Goal
  <2>1. Glyph \in Point /\ Glyph.y = CharacterSize
    BY GlyphTyped
  <2>2. at.y + Glyph.y <= p.y + (1 - 1) * CharacterSize
    <3>1. at.y \in Nat
      BY DEF Point
    <3>2. (1 - 1) * CharacterSize = 0
      BY <1>5
    <3> QED BY <1>4, <1>5, <1>8, <2>1, <3>1, <3>2
  <2>3. Misses(fb, Area(fb, at, Glyph), lines, p, Cells(lines))
    BY <1>1, <1>4, <1>8, <2>1, <2>2, BelowMisses, FromAll
  <2>4. Misses(fb, Area(fb, at, Glyph), lines, p, S)
    BY <2>3 DEF Misses
  <2>5. \A base \in {"render", "target"} : Keeps(fb, buffer[base], buffer'[base], lines, p, S)
    BY <1>4, <1>8, <2>4, Unpainted
  <2> QED BY <2>5, BothKept
<1> DEFINE InLines == \E b \in 1 .. 4 : h = L + 3 + b
           OfPanel == \E b \in 1 .. 2 * n : h = L + 10 + b
<1> SUFFICES Goal
  OBVIOUS
<1> HIDE DEF h, n, L, Goal, InLines, OfPanel
<1>9. CASE h = L + 2
  <2>1. call = SwapAll
    BY <1>1, <1>9, KernelCalls DEF L
  <2>2. call.op = "swap_all"
    BY <2>1 DEF SwapAll, Call
  <2>3. Copies(Offsets(fb))
    BY <2>2, CallDone DEF DoesSwapAll
  <2> QED BY <1>4, <2>3, BothCopied DEF Goal
<1>10. CASE h = L + 3 \/ h = L + 9 \/ h = L + 10
  <2>1. call = Move(Origin) \/ call = Move(At(debugInfoX(fb), 0)) \/ call = Crlf(debugInfoX(fb))
    BY <1>1, <1>10, KernelCalls DEF L
  <2>2. call.op = "move" \/ call.op = "crlf"
    BY <2>1 DEF Move, Crlf, Call
  <2>3. UNCHANGED buffer
    BY <2>2, CallDone DEF DoesMove, DoesCrlf
  <2> QED BY <1>6, <2>3
<1>11. CASE InLines
  <2>1. PICK b \in 1 .. 4 : h = L + 3 + b
    BY <1>11 DEF InLines
  <2>2. call = BlockCall(KmainLines, Origin.x, b) /\ b \in 1 .. 2 * Len(KmainLines)
    <3>1. call = BlockCall(KmainLines, 0, b)
      BY <1>1, <2>1, KernelCalls DEF L
    <3> QED BY <1>5, <3>1
  <2>3. InBlock(fb, buffer[Target], KmainLines, Origin, b, char[Context], pos[Context])
    <3>1. LinesAt(fb, Target, buffer, h, char["kernel"], pos["kernel"]) /\ b \in 1 .. 5
      BY <1>4 DEF KmainInv, LinesInv, h
    <3> QED BY <1>1, <2>1, <3>1 DEF LinesAt, L
  <2>4. DrewIn(KmainLines, Origin)
    BY <1>5, <2>2, <2>3, BlockStep
  <2>5. ASSUME NEW c \in Cells(KmainLines), NEW pixel, Paints(CellArea(fb, Origin, c), pixel)
        PROVE  Goal
    <3> DEFINE q == Cell(Origin, c[1], c[2])
    <3>1. Visible(fb, q) /\ q.y + CharacterSize <= Origin.y + 2 * CharacterSize
      BY <1>1, <1>5, CellOnScreen
    <3>2. 2 * CharacterSize <= PanicStart.y
      BY LayoutAssumption
    <3>3. Paints(Area(fb, q, Glyph), pixel)
      BY <2>5 DEF CellArea
    <3> HIDE DEF q
    <3>4. q.y + CharacterSize <= PanicStart.y /\ q \in Point
      <4>1. q.y \in Nat /\ q \in Point
        BY <3>1 DEF Visible, Point
      <4> QED BY <1>4, <1>5, <3>1, <3>2, <4>1
    <3> QED BY <1>8, <3>1, <3>3, <3>4
  <2> QED BY <1>6, <2>4, <2>5 DEF DrewIn
<1>12. CASE h = L + 8
  <2>1. call = Swap(Origin, At(Far, 2 * CharacterSize))
    BY <1>1, <1>12, KernelCalls DEF L
  <2>2. Origin.x <= fb.PixelWidth /\ Origin.y <= fb.PixelHeight
    BY <1>4, <1>5, RoomMeans
  <2> QED BY <1>5, <1>7, <2>1, <2>2
<1>13. CASE OfPanel
  <2>1. PICK b \in 1 .. 2 * n : h = L + 10 + b
    BY <1>13 DEF OfPanel
  <2>2. \/ UNCHANGED buffer
        \/ \E at \in Point : \E pixel :
              /\ Visible(fb, at) /\ at.y + CharacterSize <= PanicStart.y
              /\ Paints(Area(fb, at, Glyph), pixel)
    BY <1>4, <2>1, PanelRows DEF h, L, n
  <2> QED BY <1>6, <1>8, <2>2
<1>14. CASE h = L + 2 * n + 11
  <2> DEFINE at == At(debugInfoX(fb), 0)
  <2>1. call = Swap(at, At(Far, PanelHeight))
    BY <1>1, <1>14, KernelCalls DEF L, n
  <2>2. at \in Point /\ at.x <= fb.PixelWidth /\ at.y <= fb.PixelHeight
    <3>1. PanelWidth \in Nat /\ debugInfoX(fb) = fb.PixelWidth - PanelWidth
          /\ fb.PixelWidth \in Nat /\ fb.PixelHeight \in Nat
      BY <1>4, RoomMeans
    <3>2. at.x = debugInfoX(fb) /\ at.y = 0
      BY DEF At
    <3>3. at \in Point
      BY <1>5, PointTyped
    <3> HIDE DEF at
    <3> QED BY <1>5, <3>1, <3>2, <3>3
  <2> QED BY <1>7, <2>1, <2>2
<1>15. \/ h <= L + 2 \/ h = L + 3
       \/ InLines
       \/ h = L + 8 \/ h = L + 9 \/ h = L + 10
       \/ OfPanel
       \/ h = L + 2 * n + 11
  BY <1>1, <1>2, <1>3, KernelPlaces DEF InLines, OfPanel
<1>16. h <= L + 2 => h = L + 2
  BY <1>1, <1>2
<1> QED BY <1>9, <1>10, <1>11, <1>12, <1>13, <1>14, <1>15, <1>16

LEMMA ShownLess ==
  ASSUME NEW f, NEW base, NEW buf, NEW kind, NEW p, NEW lost \in BOOLEAN, NEW more \in BOOLEAN,
         lost => more, Shown(f, base, buf, kind, p, lost)
  PROVE  Shown(f, base, buf, kind, p, more)
<1>1. From(PanicLines(kind), First(more, p)) \subseteq From(PanicLines(kind), First(lost, p))
  <2>1. First(lost, p) \in {1, 2} /\ First(more, p) \in {1, 2} /\ First(lost, p) <= First(more, p)
    BY DEF First
  <2> HIDE DEF First
  <2> SUFFICES ASSUME NEW c \in Cells(PanicLines(kind)), c[1] >= First(more, p)
               PROVE  c[1] >= First(lost, p)
    BY DEF From
  <2>2. c[1] \in Nat
    BY DEF Cells
  <2> QED BY <2>1, <2>2
<1> QED BY <1>1 DEF Shown, Both, Has

\* A panic that is over leaves the machine halted, or is of a kind that returns.
LEMMA NotLost ==
  ASSUME Reports, running # "halted"
  PROVE  /\ LineLost <=> running = "page_fault"
         /\ \A r \in reported : r.kind \in Returning
BY DEF Reports, LineLost, Returning

LEMMA PanicInvKernel ==
  ASSUME TypeOK, BufferOK, KmainInv, PanicInv, CallStep, running = "kernel"
  PROVE  PanicInv'
<1>1. /\ fb' = fb /\ running' = running /\ began' = began
      /\ reported' = reported \/ reported' = {}
      /\ pc["kernel"] \in Nat \ {0}
  BY CallDone, InKernel
<1>2. /\ pos'["panic"] = pos["panic"]
      /\ pc'["kernel"] = pc["kernel"] \/ pc'["kernel"] = pc["kernel"] + 1
  BY KernelGoes DEF KmainInv
<1>3. /\ Target' = Target /\ (Room' <=> Room) /\ (Wide' <=> Wide)
  BY <1>1, SameScreen DEF Wide
<1>4. PanelAbove'
  <2>1. Wide => InPanel(fb, pc'["kernel"], char'["kernel"], pos'["kernel"])
    BY PanelRows DEF PanicInv
  <2> QED BY <1>1, <1>3, <2>1 DEF PanelAbove
<1>5. Idle'
  BY <1>1, <1>2 DEF PanicInv, Idle
<1>6. OwnInv'
  BY <1>1 DEF OwnInv, Kinds
<1>7. CASE reported' = {}
  BY <1>4, <1>5, <1>6, <1>7 DEF PanicInv, Reports
<1>8. CASE reported' = reported
  <2>1. ~AddressStage /\ ~AddressStage'
    BY <1>1 DEF AddressStage
  <2>a. LineLost' = LineLost
    BY <1>1, <1>8 DEF LineLost
  <2>2. ASSUME BootScreen', ~BootScreen PROVE FALSE
    <3>1. BootCalls \in Nat
      BY KernelCalls DEF TypeOK
    <3> QED BY <1>1, <1>2, <2>2, <3>1 DEF BootScreen, BootCalls
  <2>3. CASE BootScreen /\ ~BootScreen'
    <3>1. pc["kernel"] = BootCalls + 1
      <4>1. BootCalls \in Nat
        BY KernelCalls DEF TypeOK
      <4> QED BY <1>1, <1>2, <2>3, <4>1 DEF BootScreen, BootCalls
    <3>2. call = Call("clear", <<>>, Origin, Origin)
      BY <3>1, InKernel, KernelCalls
    <3>3. call.op = "clear"
      BY <3>2 DEF Call
    <3>4. reported' = {}
      BY <3>3, CallDone
    <3> QED BY <1>4, <1>5, <1>6, <3>4 DEF PanicInv, Reports
  <2>4. CASE BootScreen <=> BootScreen'
    <3>1. ASSUME NEW r \in reported
          PROVE  /\ r.kind \in Kinds /\ Placed(fb, r.at)
                 /\ r.kind \notin Returning => running = "halted"
                 /\ ~(BootScreen /\ r.kind \in Returning) =>
                       Shown(fb, Target, buffer', r.kind, r.at, LineLost)
                 /\ Over(fb, r.kind, r.at, pos["panic"].y)
      <4>1. /\ r.kind \in Kinds /\ Placed(fb, r.at)
            /\ r.kind \notin Returning => running = "halted"
            /\ ~(BootScreen /\ r.kind \in Returning) =>
                  Shown(fb, Target, buffer, r.kind, r.at, LineLost)
            /\ Over(fb, r.kind, r.at, pos["panic"].y)
        BY <2>1 DEF PanicInv, Reports
      <4>2. r.kind \in Returning
        BY <4>1
      <4>3. ASSUME ~BootScreen PROVE Shown(fb, Target, buffer', r.kind, r.at, LineLost)
        <5> DEFINE S == From(PanicLines(r.kind), First(LineLost, r.at))
        <5>1. SUFFICES ASSUME FitsOn(fb, PanicLines(r.kind), r.at)
                       PROVE  Both(fb, Target, buffer', PanicLines(r.kind), r.at, S)
          BY DEF Shown
        <5>2. Both(fb, Target, buffer, PanicLines(r.kind), r.at, S)
          BY <4>1, <4>3, <5>1 DEF Shown
        <5>3. S \in SUBSET Cells(PanicLines(r.kind))
          BY SubCells
        <5> HIDE DEF S
        <5> QED BY <4>1, <4>3, <5>1, <5>2, <5>3, KernelLeaves DEF PanicInv
      <4> QED BY <4>1, <4>2, <4>3
    <3>2. Reports'
      BY <1>1, <1>2, <1>3, <1>8, <2>1, <2>a, <2>4, <3>1 DEF Reports
    <3> QED BY <1>4, <1>5, <1>6, <3>2 DEF PanicInv
  <2> QED BY <2>2, <2>3, <2>4
<1> QED BY <1>1, <1>7, <1>8

LEMMA PanicInvLoops == ASSUME TypeOK, BufferOK, KmainInv, PanicInv, kmainLoops PROVE PanicInv'
<1>1. /\ running = "kernel" /\ pc' = [pc EXCEPT !["kernel"] = LoopStart]
      /\ here > Len(Program)
      /\ UNCHANGED <<fb, buffer, running, char, pos, began, reported>>
  BY DEF kmainLoops
<1>2. /\ BootCalls \in Nat /\ Len(Panel) \in Nat /\ LoopStart = BootCalls + 9
      /\ pc["kernel"] > BootCalls + 2 * Len(Panel) + 11 /\ pc["kernel"] \in Nat
  BY <1>1, InKernel, KernelCalls
<1>3. pc'["kernel"] = LoopStart /\ pc'["panic"] = pc["panic"]
  BY <1>1 DEF TypeOK
<1>4. /\ Target' = Target /\ (Room' <=> Room) /\ (Wide' <=> Wide)
  BY <1>1, SameScreen DEF Wide
<1>5. InPanel(fb, LoopStart, char["kernel"], pos["kernel"])
  BY <1>2 DEF InPanel
<1>6. PanelAbove'
  BY <1>1, <1>3, <1>4, <1>5 DEF PanelAbove
<1>7. ~BootScreen /\ ~BootScreen'
  BY <1>2, <1>3 DEF BootScreen, BootCalls
<1>8. Idle' /\ OwnInv'
  BY <1>1 DEF PanicInv, Idle, OwnInv, Kinds
<1>9. ~AddressStage /\ ~AddressStage'
  BY <1>1 DEF AddressStage
<1>a. LineLost' = LineLost
  BY <1>1 DEF LineLost
<1>10. Reports'
  BY <1>1, <1>4, <1>7, <1>9, <1>a DEF PanicInv, Reports
<1> QED BY <1>6, <1>8, <1>10 DEF PanicInv

\* A panic begins where the last one ended.
LEMMA PanicInvBegins ==
  ASSUME TypeOK, BufferOK, PanicInv, NEW kind \in Kinds, panic(kind)
  PROVE  PanicInv'
<1>1. /\ running = "kernel" /\ running' = kind /\ began' = pos["panic"]
      /\ pc'["panic"] = 1 /\ char'["panic"] = 1
      /\ pc'["kernel"] = pc["kernel"] /\ char'["kernel"] = char["kernel"]
      /\ UNCHANGED <<fb, buffer, pos, reported>>
  BY DEF panic, TypeOK, BufferOK, Contexts
<1>2. /\ Target' = Target /\ (Room' <=> Room) /\ (Wide' <=> Wide) /\ (BootScreen' <=> BootScreen)
  BY <1>1, SameScreen DEF Wide, BootScreen
<1>3. PanelAbove'
  BY <1>1, <1>2 DEF PanelAbove, PanicInv
<1>4. Idle'
  BY <1>1 DEF Idle, Kinds
<1>5. /\ PanicEnd(kind) \in Nat /\ PanicEnd(kind) >= 5
      /\ Len(Panic(kind)) \in Nat /\ Len(Panic(kind)) >= 5
  BY PanicCalls
<1>6. OwnInv'
  <2>1. Placed(fb, pos["panic"]) /\ pos["panic"] \in Point
    BY <1>1 DEF PanicInv, Idle, Placed
  <2>2. PanicLines(kind) \in Seq(Seq(Nat))
    BY PanicLinesTyped
  <2>3. OwnText(fb, Target, buffer, kind, pos["panic"], 1, 1, pos["panic"])
    <3>1. InBlock(fb, buffer[Target], PanicLines(kind), pos["panic"], 1, 1, pos["panic"])
      BY <2>1, <2>2, BlockStarts
    <3>2. BlockOf(1) = 1
      BY DEF BlockOf
    <3> QED BY <1>5, <3>1, <3>2 DEF OwnText
  <2>4. AddressText(fb, buffer[Target], kind, 1, 1, pos["panic"])
    BY <1>5 DEF AddressText
  <2>5. Resting(fb, kind, 1, pos["panic"])
    BY <1>5 DEF Resting
  <2>6. OwnCall(kind, 1, 1)
    BY <1>5 DEF OwnCall
  <2> QED BY <1>1, <1>2, <2>1, <2>3, <2>4, <2>5, <2>6 DEF OwnInv, OwnAt
<1>7. Reports'
  <2>1. ~AddressStage /\ ~AddressStage'
    BY <1>1, <1>5 DEF AddressStage
  <2>2. LineLost => LineLost'
    BY <1>1 DEF LineLost
  <2>3. LineLost \in BOOLEAN /\ LineLost' \in BOOLEAN
    BY DEF LineLost
  <2>4. ASSUME NEW r \in reported
        PROVE  /\ r.kind \in Kinds /\ Placed(fb, r.at)
               /\ r.kind \in Returning
               /\ ~(BootScreen /\ r.kind \in Returning) =>
                     Shown(fb, Target, buffer, r.kind, r.at, LineLost')
               /\ Over(fb, r.kind, r.at, pos["panic"].y)
    <3>1. /\ r.kind \in Kinds /\ Placed(fb, r.at)
          /\ r.kind \in Returning
          /\ ~(BootScreen /\ r.kind \in Returning) =>
                Shown(fb, Target, buffer, r.kind, r.at, LineLost)
          /\ Over(fb, r.kind, r.at, pos["panic"].y)
      BY <1>1, <2>1 DEF PanicInv, Reports
    <3>2. ASSUME Shown(fb, Target, buffer, r.kind, r.at, LineLost)
          PROVE  Shown(fb, Target, buffer, r.kind, r.at, LineLost')
      BY <2>2, <2>3, <3>2, ShownLess
    <3> QED BY <3>1, <3>2
  <2> QED BY <1>1, <1>2, <2>4 DEF Reports
<1> QED BY <1>3, <1>4, <1>6, <1>7 DEF PanicInv

-----------------------------------------------------------------------------
(* The steps of panic(), for its own lines and those of panics before it.  *)

\* What is drawn in rows below a text.
LEMMA EndMisses ==
  ASSUME NEW f \in Framebuffers, NEW texts \in Seq(Seq(Nat)), NEW p \in Point,
         FitsOn(f, texts, p), NEW q, Visible(f, q), NEW extent \in Point,
         p.y + Len(texts) * CharacterSize <= q.y
  PROVE  Misses(f, Area(f, q, extent), texts, p, Cells(texts))
<1> SUFFICES ASSUME NEW c \in Cells(texts)
             PROVE  CellArea(f, p, c) \cap Area(f, q, extent) = {}
  BY DEF Misses
<1> DEFINE r == Cell(p, c[1], c[2])
           h == Len(texts) * CharacterSize
<1>1. Visible(f, r) /\ r.y + CharacterSize <= p.y + h
  BY CellOnScreen
<1>2. p.y + h <= q.y
  OBVIOUS
<1>3. h \in Nat /\ p.y \in Nat /\ CharacterSize \in Nat
  <2>1. Len(texts) \in Nat /\ CharacterSize \in Nat
    BY ScreenAssumption
  <2>2. h \in Nat
    BY <2>1, Multiple
  <2> HIDE DEF h
  <2> QED BY <2>1, <2>2 DEF Point
<1>4. Glyph \in Point /\ Glyph.y = CharacterSize
  BY GlyphTyped
<1> HIDE DEF r, h
<1>5. r.y + Glyph.y <= q.y
  <2>1. r.y \in Nat /\ q.y \in Nat
    BY <1>1 DEF Visible, Point
  <2> QED BY <1>1, <1>2, <1>3, <1>4, <2>1
<1>6. Area(f, r, Glyph) \cap Area(f, q, extent) = {}
  BY <1>1, <1>4, <1>5, Apart
<1> QED BY <1>6 DEF CellArea, r

\* A text that ends where panic() is stays as it is, and so does its end.
LEMMA PanicLeaves ==
  ASSUME TypeOK, BufferOK, CallStep, running # "kernel", call.op # "move",
         NEW texts \in Seq(Seq(Nat)), NEW p \in Point, FitsOn(fb, texts, p),
         p.y + Len(texts) * CharacterSize <= pos["panic"].y
  PROVE  /\ p.y + Len(texts) * CharacterSize <= pos'["panic"].y
         /\ \A S \in SUBSET Cells(texts) :
               Both(fb, Target, buffer, texts, p, S) => Both(fb, Target, buffer', texts, p, S)
<1> DEFINE P == pos["panic"]
           q == clamp_draw_position(fb, P)
           end == p.y + Len(texts) * CharacterSize
<1>1. /\ Context = "panic" /\ here = pc["panic"] /\ fb \in Framebuffers
      /\ PanicOp(call) /\ P \in Point
  BY CallDone, InPanicProgram DEF TypeOK
<1>2. /\ P.y \in Nat /\ CharacterSize \in Nat /\ fb.PixelHeight \in Nat
      /\ Visible(fb, q) /\ q.y = Lesser(P.y, fb.PixelHeight)
  <2>1. P.y \in Nat /\ CharacterSize \in Nat /\ fb.PixelHeight \in Nat
    BY <1>1, ScreenAssumption DEF Point, Framebuffer
  <2>2. Visible(fb, q)
    BY <1>1, Clamped DEF Visible
  <2>3. q.y = Lesser(P.y, fb.PixelHeight)
    BY DEF clamp_draw_position, At
  <2> QED BY <2>1, <2>2, <2>3
<1>3. end <= P.y /\ end <= fb.PixelHeight
  BY DEF FitsOn
<1>4. end \in Nat
  <2> DEFINE h == Len(texts) * CharacterSize
  <2>1. Len(texts) \in Nat
    OBVIOUS
  <2>2. h \in Nat /\ p.y \in Nat
    BY <1>2, <2>1, Multiple DEF Point
  <2>3. end = p.y + h
    OBVIOUS
  <2> HIDE DEF h, end
  <2> QED BY <2>2, <2>3
<1> DEFINE Goal == \A S \in SUBSET Cells(texts) :
                      Both(fb, Target, buffer, texts, p, S) => Both(fb, Target, buffer', texts, p, S)
<1> SUFFICES end <= pos'["panic"].y /\ Goal
  OBVIOUS
<1>5. ASSUME UNCHANGED buffer PROVE Goal
  BY <1>5
<1>6. CASE call.op = "puts"
  <2>1. end <= q.y
    <3> HIDE DEF end, q, P
    <3> QED BY <1>2, <1>3 DEF Lesser
  <2>2. CASE PutsCharacter(call.text, char[Context], clamp_draw_position(fb, pos[Context]))
    <3>1. Goes("panic", here, char["panic"] + 1, NextChar(fb, q))
      BY <1>1, <2>2 DEF PutsCharacter
    <3>2. Paints(Area(fb, q, Glyph), call.text[char["panic"]])
      BY <1>1, <2>2 DEF PutsCharacter
    <3>3. Misses(fb, Area(fb, q, Glyph), texts, p, Cells(texts))
      BY <1>1, <1>2, <2>1, EndMisses, GlyphTyped
    <3>4. pos'["panic"] = NextChar(fb, q)
      BY <3>1, Gone DEF Contexts
    <3> HIDE DEF q
    <3>5. \A base \in {"render", "target"} :
             Keeps(fb, buffer[base], buffer'[base], texts, p, Cells(texts))
      BY <3>2, <3>3, Unpainted
    <3>6. Goal
      BY <3>5, BothKept
    <3>7. NextChar(fb, q).y = q.y + CharacterSize \/ NextChar(fb, q).y = q.y
      BY DEF NextChar, At
    <3>8. end <= pos'["panic"].y
      <4>1. q.y \in Nat
        BY <1>2 DEF Visible, Point
      <4> HIDE DEF end
      <4> QED BY <1>2, <1>4, <2>1, <3>4, <3>7, <4>1
    <3> QED BY <3>6, <3>8
  <2>3. CASE PutsNoMore(call.text, char[Context])
    <3>1. pos'["panic"] = P /\ UNCHANGED buffer
      BY <1>1, <2>3, Gone DEF PutsNoMore, Contexts
    <3> QED BY <1>3, <1>5, <3>1
  <2>4. DoesPuts
    BY <1>6, CallDone
  <2> QED BY <2>2, <2>3, <2>4 DEF DoesPuts
<1>7. CASE call.op = "crlf"
  <2>1. pos'["panic"] = crlf(P, call.at.x) /\ UNCHANGED buffer
    BY <1>1, <1>7, CallDone, Gone DEF DoesCrlf, Contexts
  <2>2. pos'["panic"].y = P.y + CharacterSize
    BY <2>1 DEF crlf, At
  <2>3. end <= pos'["panic"].y
    <3> HIDE DEF end, P
    <3> QED BY <1>2, <1>3, <1>4, <2>2
  <2> QED BY <1>5, <2>1, <2>3
<1>8. CASE \E size \in Point : call = Swap(PanicStart, size)
  <2>1. call.op = "swap"
    BY <1>8 DEF Swap, Call
  <2>2. DoesSwap
    BY <2>1, CallDone
  <2>3. pos'["panic"] = P
    BY <1>1, <2>2, Gone DEF DoesSwap, Contexts
  <2>4. UNCHANGED buffer \/ Copies(Area(fb, call.at, call.size))
    BY <2>2 DEF DoesSwap
  <2>5. Goal
    BY <1>5, <2>4, BothCopied
  <2> QED BY <1>3, <2>3, <2>5
<1> QED BY <1>1, <1>6, <1>7, <1>8 DEF PanicOp

\* panic() goes to the next call, or stays at one of puts.
LEMMA PanicGoes ==
  ASSUME TypeOK, BufferOK, OwnInv, CallStep, running # "kernel"
  PROVE  /\ running \in Kinds /\ Context = "panic" /\ here = pc["panic"]
         /\ call = Panic(running)[pc["panic"]] /\ fb \in Framebuffers
         /\ pc["panic"] \in 1 .. Len(Panic(running)) /\ PanicOp(call)
         /\ \/ pc'["panic"] = pc["panic"] /\ call.op = "puts"
            \/ pc'["panic"] = pc["panic"] + 1
         /\ call.op # "puts" =>
               pc'["panic"] = pc["panic"] + 1 /\ char["panic"] = 1 /\ char'["panic"] = 1
         /\ OwnCall(running, pc'["panic"], char'["panic"])
<1>1. /\ running \in Kinds /\ Context = "panic" /\ here = pc["panic"]
      /\ call = Panic(running)[pc["panic"]] /\ fb \in Framebuffers
      /\ pc["panic"] \in 1 .. Len(Panic(running)) /\ PanicOp(call)
  BY CallDone, InPanicProgram
<1>2. Len(Panic(running)) \in Nat /\ pc["panic"] \in Nat
  BY <1>1, PanicCalls
<1>3. call.op # "puts" => char["panic"] = 1
  BY <1>1 DEF OwnInv, OwnAt, OwnCall
<1>4. CASE call.op # "puts"
  <2>1. \E P : Goes("panic", pc["panic"] + 1, char["panic"], P)
    <3>1. call.op = "crlf" \/ call.op = "move" \/ call.op = "swap"
      <4>1. ASSUME NEW size, call = Swap(PanicStart, size) PROVE call.op = "swap"
        BY <4>1 DEF Swap, Call
      <4>2. call.op = "crlf" \/ call.op = "move" \/ \E size \in Point : call = Swap(PanicStart, size)
        BY <1>1, <1>4 DEF PanicOp
      <4> QED BY <4>1, <4>2
    <3>2. CASE call.op = "crlf"
      BY <1>1, <3>2, CallDone DEF DoesCrlf
    <3>3. CASE call.op = "move"
      BY <1>1, <3>3, CallDone DEF DoesMove
    <3>4. CASE call.op = "swap"
      BY <1>1, <3>4, CallDone DEF DoesSwap
    <3> QED BY <3>1, <3>2, <3>3, <3>4
  <2>2. pc'["panic"] = pc["panic"] + 1 /\ char'["panic"] = 1
    BY <1>3, <1>4, <2>1, Gone DEF Contexts
  <2>3. OwnCall(running, pc'["panic"], char'["panic"])
    BY <1>1, <1>2, <2>2 DEF OwnCall
  <2> QED BY <1>1, <1>3, <1>4, <2>2, <2>3
<1>5. CASE call.op = "puts"
  <2>1. \/ \E k, P : Goes("panic", pc["panic"], k, P)
        \/ \E P : Goes("panic", pc["panic"] + 1, 1, P)
    BY <1>1, <1>5, CallDone DEF DoesPuts, PutsCharacter, PutsNoMore
  <2>2. \/ pc'["panic"] = pc["panic"]
        \/ pc'["panic"] = pc["panic"] + 1 /\ char'["panic"] = 1
    BY <2>1, Gone DEF Contexts
  <2>3. OwnCall(running, pc'["panic"], char'["panic"])
    BY <1>1, <1>2, <1>5, <2>2 DEF OwnCall
  <2> QED BY <1>1, <1>5, <2>2, <2>3
<1> QED BY <1>4, <1>5

\* Where panic() is in its calls.
LEMMA PanicPlaces ==
  ASSUME NEW kind, NEW h \in 1 .. Len(Panic(kind))
  PROVE  LET e == PanicEnd(kind)
             c == Panic(kind)[h]
             lines == PanicLines(kind)
         IN  \/ /\ h \in 1 .. 4 \/ h \in 6 .. e - 1
                /\ h < e /\ BlockOf(h) \in 1 .. 2 * Len(lines)
                /\ BlockOf(h + 1) = BlockOf(h) + 1
                /\ c = BlockCall(lines, PanicStart.x, BlockOf(h))
                /\ h + 1 = 5 \/ h + 1 = e => BlockOf(h) % 2 # 1
             \/ h = 5 /\ h < e /\ c = PanicUpdate
             \/ h = e /\ c = PanicUpdate /\ BlockOf(h) = 2 * Len(lines) + 1
             \/ /\ kind = "page_fault"
                /\ \/ h = e + 1 /\ c = Move(PanicStart)
                   \/ h = e + 2 /\ c = BlockCall(<<Address>>, PanicStart.x, 1)
                   \/ h = e + 3 /\ c = Swap(PanicStart, AddressArea)
<1> DEFINE e == PanicEnd(kind)
           n == Len(Texts(kind))
           Q == Panic(kind)
           lines == PanicLines(kind)
<1>1. /\ e \in Nat /\ e >= 5 /\ e = IF n = 0 THEN 5 ELSE 2 * n + 6
      /\ Len(Q) = IF kind = "page_fault" THEN e + 3 ELSE e
      /\ \A b \in 1 .. 4 : Q[b] = BlockCall(lines, PanicStart.x, b)
      /\ Q[5] = PanicUpdate
      /\ \A b \in 5 .. e - 2 : Q[b + 1] = BlockCall(lines, PanicStart.x, b)
      /\ Q[e] = PanicUpdate
      /\ kind = "page_fault" =>
            /\ Q[e + 1] = Move(PanicStart)
            /\ Q[e + 2] = BlockCall(<<Address>>, PanicStart.x, 1)
            /\ Q[e + 3] = Swap(PanicStart, AddressArea)
  BY PanicCalls
<1>2. n \in Nat /\ Len(lines) = n + 2
  BY PanicLinesTyped
<1> HIDE DEF e, n, Q, lines
<1>3. h \in 1 .. Len(Q)
  BY DEF Q
<1>4. CASE h \in 1 .. 4
  <2>1. BlockOf(h) = h /\ BlockOf(h + 1) = h + 1 /\ h < e /\ h \in 1 .. 2 * Len(lines)
    BY <1>1, <1>2, <1>4 DEF BlockOf
  <2>2. Q[h] = BlockCall(lines, PanicStart.x, h)
    BY <1>1, <1>4
  <2>3. h + 1 = 5 \/ h + 1 = e => h % 2 # 1
    <3>1. h + 1 = e => h + 1 = 5
      BY <1>1, <1>4
    <3>2. h + 1 = 5 => h = 4
      BY <1>4
    <3> QED BY <3>1, <3>2
  <2> QED BY <1>4, <2>1, <2>2, <2>3 DEF e, Q, lines
<1>5. CASE h \in 6 .. e - 1
  <2>1. n # 0 /\ e = 2 * n + 6
    BY <1>1, <1>5
  <2>2. /\ BlockOf(h) = h - 1 /\ BlockOf(h + 1) = (h - 1) + 1 /\ h < e
        /\ h - 1 \in 1 .. 2 * Len(lines) /\ h - 1 \in 5 .. e - 2
    BY <1>1, <1>2, <1>5, <2>1 DEF BlockOf
  <2>3. Q[(h - 1) + 1] = BlockCall(lines, PanicStart.x, h - 1) /\ (h - 1) + 1 = h
    BY <1>1, <1>5, <2>2
  <2>4. h + 1 = 5 \/ h + 1 = e => (h - 1) % 2 # 1
    BY <1>2, <1>5, <2>1
  <2>5. Q[h] = BlockCall(lines, PanicStart.x, h - 1)
    BY <2>3
  <2> QED BY <1>5, <2>2, <2>4, <2>5 DEF e, Q, lines
<1>6. CASE h = 5 /\ h < e
  BY <1>1, <1>6 DEF e, Q, lines
<1>7. CASE h = e
  <2>1. BlockOf(h) = 2 * Len(lines) + 1
    BY <1>1, <1>2, <1>7 DEF BlockOf
  <2> QED BY <1>1, <1>7, <2>1 DEF e, Q, lines
<1>8. CASE h > e
  <2>1. kind = "page_fault" /\ (h = e + 1 \/ h = e + 2 \/ h = e + 3)
    <3>1. h \in Nat /\ h <= Len(Q)
      BY <1>1, <1>3
    <3>2. kind = "page_fault"
      <4>1. Len(Q) = e => FALSE
        BY <1>1, <1>8, <3>1
      <4> QED BY <1>1, <4>1
    <3>3. Len(Q) = e + 3
      BY <1>1, <3>2
    <3>4. e \in Nat
      BY <1>1
    <3>5. h <= e + 3
      BY <3>1, <3>3
    <3>6. h = e + 1 \/ h = e + 2 \/ h = e + 3
      BY <1>8, <3>1, <3>4, <3>5
    <3> QED BY <3>2, <3>6
  <2> QED BY <1>1, <2>1 DEF e, Q, lines
<1> QED BY <1>1, <1>3, <1>4, <1>5, <1>6, <1>7, <1>8

\* panic() breaks its last line before each swap.
LEMMA RestingStep ==
  ASSUME TypeOK, BufferOK, Progress, OwnInv, CallStep, running # "kernel"
  PROVE  Resting(fb, running, pc'["panic"], pos'["panic"])
<1> DEFINE h == pc["panic"]
           e == PanicEnd(running)
           P == pos["panic"]
           l == Lesser(PanicStart.y, fb.PixelHeight)
           Goal == Resting(fb, running, pc'["panic"], pos'["panic"])
<1>1. /\ running \in Kinds /\ Context = "panic" /\ here = h
      /\ call = Panic(running)[h] /\ fb \in Framebuffers /\ h \in 1 .. Len(Panic(running))
      /\ (pc'["panic"] = h /\ call.op = "puts") \/ pc'["panic"] = h + 1
  BY PanicGoes
<1>2. e \in Nat /\ e >= 5 /\ h \in Nat /\ P \in Point
  BY <1>1, PanicCalls DEF TypeOK
<1>3. P.y >= l /\ l \in Nat /\ P.y \in Nat /\ CharacterSize \in Nat /\ PanicStart.x \in Nat
  <2>1. /\ PanicStart.y \in Nat /\ fb.PixelHeight \in Nat /\ CharacterSize \in Nat
        /\ PanicStart.x \in Nat
    BY <1>1, ConstantsTyped, ScreenAssumption DEF Point, Framebuffer
  <2> QED BY <1>2, <2>1 DEF Progress, Lesser, Point
<1>4. Resting(fb, running, h, P)
  BY <1>1 DEF OwnInv, OwnAt
<1> SUFFICES Goal
  OBVIOUS
<1> HIDE DEF h, e, P, l, Goal
<1>5. ASSUME pc'["panic"] \notin {5, e, e + 1} PROVE Goal
  BY <1>5 DEF Goal, Resting, e
<1>6. ASSUME pos'["panic"].x = PanicStart.x, pos'["panic"].y >= l + CharacterSize PROVE Goal
  BY <1>6 DEF Goal, Resting, l
<1>7. CASE /\ h \in 1 .. 4 \/ h \in 6 .. e - 1
           /\ h < e
           /\ call = BlockCall(PanicLines(running), PanicStart.x, BlockOf(h))
           /\ h + 1 = 5 \/ h + 1 = e => BlockOf(h) % 2 # 1
  <2>1. h # 5 /\ h # e /\ h # e + 1 /\ h + 1 # e + 1
    BY <1>2, <1>7
  <2>2. CASE pc'["panic"] = h \/ ~(h + 1 = 5 \/ h + 1 = e)
    BY <1>1, <1>5, <2>1, <2>2
  <2>3. CASE h + 1 = 5 \/ h + 1 = e
    <3>1. call.op = "crlf" /\ call.at.x = PanicStart.x
      BY <1>7, <2>3 DEF BlockCall, Crlf, Call, At
    <3>2. pos'["panic"] = crlf(P, PanicStart.x)
      BY <1>1, <3>1, CallDone, Gone DEF DoesCrlf, Contexts, P
    <3>3. pos'["panic"].x = PanicStart.x /\ pos'["panic"].y = P.y + CharacterSize
      BY <3>2 DEF crlf, At
    <3> QED BY <1>3, <1>6, <3>3
  <2> QED BY <2>2, <2>3
<1>8. CASE call = PanicUpdate /\ (h = 5 \/ h = e)
  <2>1. call.op = "swap"
    BY <1>8 DEF PanicUpdate, Swap, Call
  <2>2. pos'["panic"] = P /\ pc'["panic"] = h + 1
    BY <1>1, <2>1, CallDone, Gone DEF DoesSwap, Contexts, P
  <2>3. P.x = PanicStart.x /\ P.y >= l + CharacterSize
    BY <1>4, <1>8 DEF Resting, e, l
  <2> QED BY <1>6, <2>2, <2>3
<1>9. CASE h = e + 1 /\ call = Move(PanicStart)
  <2>1. call.op = "move"
    BY <1>9 DEF Move, Call
  <2>2. pc'["panic"] = e + 2
    BY <1>1, <1>2, <1>9, <2>1
  <2>3. e + 2 \notin {5, e, e + 1}
    BY <1>2
  <2> QED BY <1>5, <2>2, <2>3
<1>10. CASE h = e + 2 \/ h = e + 3
  <2>1. pc'["panic"] \notin {5, e, e + 1}
    BY <1>1, <1>2, <1>10
  <2> QED BY <1>5, <2>1
<1>11. \/ /\ h \in 1 .. 4 \/ h \in 6 .. e - 1
          /\ h < e
          /\ call = BlockCall(PanicLines(running), PanicStart.x, BlockOf(h))
          /\ h + 1 = 5 \/ h + 1 = e => BlockOf(h) % 2 # 1
       \/ call = PanicUpdate /\ (h = 5 \/ h = e)
       \/ h = e + 1 /\ call = Move(PanicStart)
       \/ h = e + 2 \/ h = e + 3
  BY <1>1, PanicPlaces DEF e, h
<1> QED BY <1>7, <1>8, <1>9, <1>10, <1>11

\* Where the address fits: where the lines of a panic do.
LEMMA AddressFits ==
  ASSUME TypeOK, NEW kind \in Returning \cup {"page_fault"}, NEW p, Placed(fb, p),
         FitsOn(fb, PanicLines(kind), p)
  PROVE  /\ <<Address>> \in Seq(Seq(Nat)) /\ Len(<<Address>>) = 1
         /\ FitsOn(fb, <<Address>>, PanicStart)
<1> DEFINE lines == PanicLines(kind)
           W == fb.PixelWidth
           H == fb.PixelHeight
<1>1. <<Address>> \in Seq(Seq(Nat)) /\ Len(<<Address>>) = 1 /\ DOMAIN <<Address>> = {1}
  BY ConstantsTyped
<1>2. /\ fb \in Framebuffers /\ W \in Nat /\ H \in Nat /\ CharWidth \in Nat
      /\ PanicStart.x \in Nat /\ PanicStart.y \in Nat /\ CharacterSize \in Nat
  <2>1. fb \in Framebuffers /\ W \in Nat /\ H \in Nat
    BY ScreenAssumption DEF TypeOK, Framebuffer
  <2>2. CharWidth \in Nat /\ CharacterSize \in Nat /\ PanicStart \in Point
    BY ScreenAssumption
  <2> QED BY <2>1, <2>2 DEF Point
<1>3. /\ lines \in Seq(Seq(Nat)) /\ p \in Point /\ p.y \in Nat /\ p.x = PanicStart.x
      /\ PanicStart.y <= p.y /\ p.y + CharacterSize <= H
  BY PanicFits DEF Placed, Point
<1>4. PICK i \in DOMAIN lines : Len(Address) <= Len(lines[i])
  BY LayoutAssumption
<1>5. PanicStart.x + (Len(lines[i]) + 1) * CharWidth <= W
  BY <1>3, <1>4 DEF FitsOn
<1> DEFINE a == (Len(Address) + 1) * CharWidth
           b == (Len(lines[i]) + 1) * CharWidth
<1>6. a \in Nat /\ b \in Nat /\ a <= b
  <2>1. Len(Address) \in Nat
    BY ConstantsTyped
  <2>2. lines[i] \in Seq(Nat)
    BY <1>3, <1>4
  <2>3. Len(lines[i]) \in Nat
    BY <2>2
  <2> DEFINE m == Len(Address)
             n == Len(lines[i])
  <2>4. m \in Nat /\ n \in Nat /\ m <= n /\ a = (m + 1) * CharWidth /\ b = (n + 1) * CharWidth
    BY <1>4, <2>1, <2>3
  <2> HIDE DEF m, n, a, b
  <2>5. m + 1 \in Nat /\ n + 1 \in Nat /\ m + 1 <= n + 1
    BY <2>4
  <2> QED BY <1>2, <2>4, <2>5, Multiple
<1>7. PanicStart.x + a <= W
  <2>1. PanicStart.x + b <= W
    BY <1>5
  <2> HIDE DEF a, b, W
  <2> QED BY <1>2, <1>6, <2>1
<1>8. PanicStart.y + 1 * CharacterSize <= H
  <2> HIDE DEF H
  <2> QED BY <1>2, <1>3
<1>9. <<Address>>[1] = Address
  OBVIOUS
<1> HIDE DEF H
<1>10. \A j \in DOMAIN <<Address>> : PanicStart.x + (Len(<<Address>>[j]) + 1) * CharWidth <= W
  BY <1>1, <1>7, <1>9
<1> QED BY <1>1, <1>8, <1>10 DEF FitsOn, H

\* Drawing the address touches no panic's lines but a first at PanicStart.
LEMMA AddressMisses ==
  ASSUME TypeOK, NEW kind \in Returning \cup {"page_fault"}, NEW p, Placed(fb, p),
         FitsOn(fb, PanicLines(kind), p), NEW c \in Cells(<<Address>>)
  PROVE  Misses(fb, CellArea(fb, PanicStart, c), PanicLines(kind), p,
                From(PanicLines(kind), First(TRUE, p)))
<1> DEFINE q == Cell(PanicStart, c[1], c[2])
           i == First(TRUE, p)
<1>1. /\ <<Address>> \in Seq(Seq(Nat)) /\ Len(<<Address>>) = 1
      /\ FitsOn(fb, <<Address>>, PanicStart) /\ fb \in Framebuffers
  BY AddressFits DEF TypeOK
<1>2. /\ PanicLines(kind) \in Seq(Seq(Nat)) /\ p \in Point /\ PanicStart \in Point
      /\ p = PanicStart \/ PanicStart.y + CharacterSize <= p.y
  BY PanicFits
<1>3. Visible(fb, q) /\ q.y + CharacterSize <= PanicStart.y + 1 * CharacterSize
  BY <1>1, <1>2, CellOnScreen
<1>4. CharacterSize \in Nat /\ Glyph \in Point /\ Glyph.y = CharacterSize
  BY ScreenAssumption, GlyphTyped
<1>5. q.y \in Nat /\ PanicStart.y \in Nat /\ p.y \in Nat
  BY <1>2, <1>3 DEF Visible, Point
<1> HIDE DEF q
<1>6. CASE p = PanicStart
  <2>1. i = 2
    BY <1>6 DEF First
  <2>2. (2 - 1) * CharacterSize = CharacterSize
    BY <1>4
  <2>3. q.y + Glyph.y <= p.y + (2 - 1) * CharacterSize
    BY <1>3, <1>4, <1>5, <1>6, <2>2
  <2>4. Misses(fb, Area(fb, q, Glyph), PanicLines(kind), p, From(PanicLines(kind), 2))
    BY <1>1, <1>2, <1>3, <1>4, <2>3, BelowMisses
  <2> QED BY <2>1, <2>4 DEF CellArea, q
<1>7. CASE p # PanicStart
  <2>1. i = 1
    BY <1>7 DEF First
  <2>2. (1 - 1) * CharacterSize = 0
    BY <1>4
  <2>3. q.y + Glyph.y <= p.y + (1 - 1) * CharacterSize
    BY <1>2, <1>3, <1>4, <1>5, <1>7, <2>2
  <2>4. Misses(fb, Area(fb, q, Glyph), PanicLines(kind), p, From(PanicLines(kind), 1))
    BY <1>1, <1>2, <1>3, <1>4, <2>3, BelowMisses
  <2> QED BY <2>1, <2>4 DEF CellArea, q
<1> QED BY <1>6, <1>7

LEMMA AddressKeeps ==
  ASSUME TypeOK, BufferOK, OwnInv, CallStep, running = "page_fault",
         pc["panic"] > PanicEnd(running),
         NEW kind \in Returning \cup {"page_fault"}, NEW p, Placed(fb, p),
         Shown(fb, Target, buffer, kind, p, TRUE)
  PROVE  Shown(fb, Target, buffer', kind, p, TRUE)
<1> DEFINE lines == PanicLines(kind)
           S == From(lines, First(TRUE, p))
           e == PanicEnd(running)
           h == pc["panic"]
<1> SUFFICES ASSUME FitsOn(fb, lines, p) PROVE Both(fb, Target, buffer', lines, p, S)
  BY DEF Shown
<1>1. /\ Context = "panic" /\ here = h /\ call = Panic(running)[h] /\ fb \in Framebuffers
      /\ h \in 1 .. Len(Panic(running)) /\ running \in Kinds
  BY PanicGoes
<1>2. lines \in Seq(Seq(Nat)) /\ p \in Point /\ PanicStart \in Point /\ S \in SUBSET Cells(lines)
  BY PanicFits, SubCells
<1>3. Both(fb, Target, buffer, lines, p, S)
  BY DEF Shown
<1>4. e \in Nat
  BY PanicCalls
<1> DEFINE Goal == Both(fb, Target, buffer', lines, p, S)
<1> SUFFICES Goal
  OBVIOUS
<1>5. ASSUME UNCHANGED buffer PROVE Goal
  BY <1>3, <1>5
<1> HIDE DEF S, Goal
<1>6. CASE h = e + 1 /\ call = Move(PanicStart)
  <2>1. call.op = "move"
    BY <1>6 DEF Move, Call
  <2>2. UNCHANGED buffer
    BY <2>1, CallDone DEF DoesMove
  <2> QED BY <1>5, <2>2
<1>7. CASE h = e + 2 /\ call = BlockCall(<<Address>>, PanicStart.x, 1)
  <2>1. /\ <<Address>> \in Seq(Seq(Nat)) /\ Len(<<Address>>) = 1
        /\ FitsOn(fb, <<Address>>, PanicStart)
    BY AddressFits
  <2>2. InBlock(fb, buffer[Target], <<Address>>, PanicStart, 1, char["panic"], pos["panic"])
    <3>1. AddressText(fb, buffer[Target], running, h, char["panic"], pos["panic"])
      BY <1>1, <2>1 DEF OwnInv, OwnAt
    <3>2. h = PanicEnd(running) + 1 + 1
      BY <1>4, <1>7
    <3> QED BY <3>1, <3>2 DEF AddressText
  <2>3. 1 \in 1 .. 2 * Len(<<Address>>)
    BY <2>1
  <2>4. DrewIn(<<Address>>, PanicStart)
    BY <1>1, <1>2, <1>7, <2>1, <2>2, <2>3, BlockStep
  <2>5. ASSUME NEW c \in Cells(<<Address>>), NEW pixel, Paints(CellArea(fb, PanicStart, c), pixel)
        PROVE  Goal
    <3>1. Misses(fb, CellArea(fb, PanicStart, c), lines, p, S)
      BY AddressMisses DEF S
    <3>2. \A base \in {"render", "target"} : Keeps(fb, buffer[base], buffer'[base], lines, p, S)
      BY <1>2, <2>5, <3>1, Unpainted
    <3> QED BY <1>3, <3>2, BothKept DEF Goal
  <2> QED BY <1>5, <2>4, <2>5 DEF DrewIn
<1>8. CASE h = e + 3 /\ call = Swap(PanicStart, AddressArea)
  <2>1. call.op = "swap"
    BY <1>8 DEF Swap, Call
  <2>2. UNCHANGED buffer \/ Copies(Area(fb, call.at, call.size))
    BY <2>1, CallDone DEF DoesSwap
  <2>3. ASSUME Copies(Area(fb, call.at, call.size)) PROVE Goal
    BY <1>2, <1>3, <2>3, BothCopied DEF Goal
  <2> QED BY <1>5, <2>2, <2>3
<1> DEFINE BeforeEnd == h < e \/ h = e
<1>9. \/ BeforeEnd
      \/ h = e + 1 /\ call = Move(PanicStart)
      \/ h = e + 2 /\ call = BlockCall(<<Address>>, PanicStart.x, 1)
      \/ h = e + 3 /\ call = Swap(PanicStart, AddressArea)
  BY <1>1, PanicPlaces
<1>10. ~BeforeEnd
  <2>1. h \in Nat
    BY <1>1 DEF TypeOK
  <2> QED BY <1>4, <2>1
<1> QED BY <1>6, <1>7, <1>8, <1>9, <1>10

\* What panic()'s swaps copy covers its lines.
LEMMA UpdateCovers ==
  ASSUME TypeOK, NEW kind, NEW p, Placed(fb, p), FitsOn(fb, PanicLines(kind), p),
         NEW c \in Cells(PanicLines(kind))
  PROVE  CellArea(fb, p, c) \subseteq Area(fb, PanicStart, At(Far, Far))
<1> DEFINE q == Cell(p, c[1], c[2])
           W == fb.PixelWidth
           H == fb.PixelHeight
<1>1. /\ PanicLines(kind) \in Seq(Seq(Nat)) /\ p \in Point /\ p.x = PanicStart.x
      /\ PanicStart.y <= p.y /\ Visible(fb, PanicStart) /\ PanicStart \in Point
  BY PanicFits DEF Placed
<1>2. fb \in Framebuffers /\ W \in Nat /\ H \in Nat /\ W <= Far /\ H <= Far /\ Far \in Nat
  BY LayoutAssumption, ScreenAssumption DEF TypeOK, Framebuffer
<1>3. Visible(fb, q) /\ p.x <= q.x /\ p.y <= q.y
  BY <1>1, <1>2, CellOnScreen
<1>4. /\ q.x \in Nat /\ q.y \in Nat /\ p.x \in Nat /\ p.y \in Nat
      /\ PanicStart.x \in Nat /\ PanicStart.y \in Nat
  BY <1>1, <1>3 DEF Visible, Point
<1>5. At(Far, Far) \in Point /\ At(Far, Far).x = Far /\ At(Far, Far).y = Far
  BY <1>2, PointTyped DEF At
<1> HIDE DEF q, W, H
<1>6. /\ PanicStart.x <= q.x /\ W <= PanicStart.x + Far
      /\ PanicStart.y <= q.y /\ H <= PanicStart.y + Far
  BY <1>1, <1>2, <1>3, <1>4
<1>7. Area(fb, q, Glyph) \subseteq Area(fb, PanicStart, At(Far, Far))
  BY <1>1, <1>2, <1>3, <1>5, <1>6, GlyphTyped, Inside DEF W, H
<1> QED BY <1>7 DEF CellArea, q

LEMMA BothShown ==
  ASSUME NEW f, NEW base, NEW buf, NEW kind, NEW p, NEW lost,
         Both(f, base, buf, PanicLines(kind), p, Cells(PanicLines(kind)))
  PROVE  Shown(f, base, buf, kind, p, lost)
<1>1. From(PanicLines(kind), First(lost, p)) \subseteq Cells(PanicLines(kind))
  BY DEF From
<1> QED BY <1>1 DEF Shown, Both, Has

LEMMA OwnTextStep ==
  ASSUME TypeOK, BufferOK, OwnInv, CallStep, running # "kernel",
         FitsOn(fb, PanicLines(running), began)
  PROVE  OwnText(fb, Target, buffer', running, began, pc'["panic"], char'["panic"], pos'["panic"])
<1> DEFINE h == pc["panic"]
           k == char["panic"]
           P == pos["panic"]
           e == PanicEnd(running)
           lines == PanicLines(running)
           n == Len(lines)
           Goal == OwnText(fb, Target, buffer', running, began, pc'["panic"], char'["panic"], pos'["panic"])
<1>1. /\ running \in Kinds /\ Context = "panic" /\ here = h
      /\ call = Panic(running)[h] /\ fb \in Framebuffers /\ h \in 1 .. Len(Panic(running))
      /\ (pc'["panic"] = h /\ call.op = "puts") \/ pc'["panic"] = h + 1
      /\ call.op # "puts" => pc'["panic"] = h + 1 /\ k = 1 /\ char'["panic"] = 1
  BY PanicGoes
<1>2. e \in Nat /\ e >= 5 /\ h \in Nat
  BY <1>1, PanicCalls DEF TypeOK
<1>3. Placed(fb, began) /\ OwnText(fb, Target, buffer, running, began, h, k, P)
  BY <1>1 DEF OwnInv, OwnAt
<1>4. lines \in Seq(Seq(Nat)) /\ began \in Point /\ began.x = PanicStart.x /\ n \in Nat
  BY <1>3, PanicFits, PanicLinesTyped DEF Placed
<1> SUFFICES Goal
  OBVIOUS
<1> HIDE DEF h, k, P, e, n, Goal
<1>5. ASSUME pc'["panic"] <= e, pc'["panic"] \in Nat,
             InBlock(fb, buffer'[Target], lines, began, BlockOf(pc'["panic"]), char'["panic"], pos'["panic"])
      PROVE  Goal
  <2>1. ~(pc'["panic"] = e + 1) /\ ~(pc'["panic"] > e)
    BY <1>2, <1>5
  <2> QED BY <1>5, <2>1 DEF Goal, OwnText, e
<1>6. CASE /\ h < e /\ BlockOf(h) \in 1 .. 2 * Len(lines)
           /\ BlockOf(h + 1) = BlockOf(h) + 1
           /\ call = BlockCall(lines, PanicStart.x, BlockOf(h))
  <2> DEFINE b == BlockOf(h)
  <2>1. InBlock(fb, buffer[Target], lines, began, b, char[Context], pos[Context])
    <3>1. h <= e
      BY <1>2, <1>6
    <3> QED BY <1>1, <1>3, <3>1 DEF OwnText, e, k, P
  <2> HIDE DEF b
  <2>2. b \in 1 .. 2 * Len(lines) /\ call = BlockCall(lines, began.x, b)
    BY <1>4, <1>6 DEF b
  <2>3. BlockGoes(lines, began, b, b) \/ BlockGoes(lines, began, b, b + 1)
    BY <1>1, <1>4, <2>1, <2>2, BlockStep
  <2>4. b \in Int /\ h <= e /\ h + 1 <= e /\ h + 1 \in Nat
    <3>1. 2 * Len(lines) \in Nat
      BY <1>4 DEF n
    <3>2. b \in Int
      BY <2>2, <3>1
    <3> QED BY <1>2, <1>6, <3>2
  <2>5. CASE BlockGoes(lines, began, b, b)
    <3>1. /\ pc'["panic"] = h + (b - b)
          /\ InBlock(fb, buffer'[Target], lines, began, b, char'["panic"], pos'["panic"])
      BY <1>1, <2>5 DEF BlockGoes
    <3>2. pc'["panic"] = h
      BY <1>2, <2>4, <3>1
    <3> QED BY <1>2, <1>5, <2>4, <3>1, <3>2 DEF b
  <2>6. CASE BlockGoes(lines, began, b, b + 1)
    <3>1. /\ pc'["panic"] = h + ((b + 1) - b)
          /\ InBlock(fb, buffer'[Target], lines, began, b + 1, char'["panic"], pos'["panic"])
      BY <1>1, <2>6 DEF BlockGoes
    <3>2. pc'["panic"] = h + 1
      BY <1>2, <2>4, <3>1
    <3>3. BlockOf(pc'["panic"]) = b + 1
      BY <1>6, <3>2 DEF b
    <3> QED BY <1>5, <2>4, <3>1, <3>2, <3>3
  <2> QED BY <2>3, <2>5, <2>6
<1>7. CASE call = PanicUpdate /\ (h = 5 \/ h = e)
  <2>1. call = Swap(PanicStart, At(Far, Far)) /\ PanicStart \in Point /\ Visible(fb, PanicStart)
    BY <1>3, <1>7, PanicFits DEF PanicUpdate
  <2>2. call.op = "swap"
    BY <2>1 DEF Swap, Call
  <2>3. /\ Goes(Context, here + 1, char[Context], pos[Context])
        /\ \/ Target = "render" /\ UNCHANGED buffer
           \/ Copies(Area(fb, PanicStart, At(Far, Far)))
    BY <2>1, SwapDone DEF Visible
  <2>4. pc'["panic"] = h + 1 /\ char'["panic"] = k /\ pos'["panic"] = P
    BY <1>1, <2>3, Gone DEF Contexts, k, P
  <2>5. InBlock(fb, buffer[Target], lines, began, BlockOf(h), k, P)
    <3>1. h <= e
      BY <1>2, <1>7
    <3> QED BY <1>3, <3>1 DEF OwnText, e
  <2>6. CASE h = 5 /\ h < e
    <3>1. BlockOf(h) = 5 /\ BlockOf(h + 1) = 5 /\ h + 1 <= e /\ h + 1 \in Nat
      BY <1>2, <2>6 DEF BlockOf
    <3>2. buffer'[Target] = buffer[Target]
      <4>1. ASSUME Target # "render", Copies(Area(fb, PanicStart, At(Far, Far)))
            PROVE  buffer'[Target] = buffer[Target]
        <5>1. Target \in DOMAIN buffer
          BY TargetTyped DEF BufferOK
        <5> QED BY <4>1, <5>1 DEF Copies
      <4>2. ASSUME Target = "render", Copies(Area(fb, PanicStart, At(Far, Far)))
            PROVE  buffer'[Target] = buffer[Target]
        <5>1. UNCHANGED buffer
          BY <2>2, <4>2, CallDone DEF DoesSwap
        <5> QED BY <5>1
      <4> QED BY <2>3, <4>1, <4>2
    <3>3. InBlock(fb, buffer'[Target], lines, began, BlockOf(h + 1), k, P)
      BY <2>5, <3>1, <3>2
    <3> QED BY <1>5, <2>4, <3>1, <3>3
  <2>7. CASE h = e /\ BlockOf(h) = 2 * Len(lines) + 1
    <3>1. /\ Has(fb, buffer[Target], lines, began, Cells(lines))
          /\ P = Cell(began, Len(lines) + 1, 1)
      BY <1>4, <2>5, <2>7, BlockEnds
    <3>2. \A c \in Cells(lines) : CellArea(fb, began, c) \subseteq Area(fb, PanicStart, At(Far, Far))
      BY <1>3, UpdateCovers
    <3>3. Both(fb, Target, buffer', lines, began, Cells(lines))
      BY <1>4, <2>3, <3>1, <3>2, Swapped
    <3>4. Shown(fb, Target, buffer', running, began, running = "page_fault")
      BY <3>3, BothShown
    <3>5. P.y = began.y + n * CharacterSize
      <4>1. n + 1 \in Nat \ {0} /\ 1 \in Nat \ {0} /\ (n + 1) - 1 = n
        BY <1>4
      <4>2. P.y = began.y + ((n + 1) - 1) * CharacterSize
        BY <1>4, <3>1, <4>1, CellPlace DEF n
      <4> QED BY <4>1, <4>2
    <3>6. pc'["panic"] = e + 1 /\ ~(pc'["panic"] <= e)
      BY <1>2, <2>4, <2>7
    <3> QED BY <2>4, <3>4, <3>5, <3>6 DEF Goal, OwnText, e, n
  <2>8. CASE h = e /\ BlockOf(h) # 2 * Len(lines) + 1
    BY <1>1, <1>2, <2>8, PanicPlaces DEF e
  <2>9. (h = 5 /\ h < e) \/ h = e
    BY <1>2, <1>7
  <2> QED BY <2>6, <2>7, <2>8, <2>9
<1>8. CASE h > e /\ running = "page_fault"
  <2>1. Shown(fb, Target, buffer, running, began, TRUE)
    BY <1>2, <1>3, <1>8 DEF OwnText, e
  <2>2. Shown(fb, Target, buffer', running, began, TRUE)
    BY <1>3, <1>8, <2>1, AddressKeeps DEF e, h
  <2>3. h = e + 1 => call = Move(PanicStart)
    BY <1>1, <1>2, <1>8, PanicCalls DEF e
  <2>4. h = e + 1 => pc'["panic"] = h + 1
    <3>1. Move(PanicStart).op # "puts"
      BY DEF Move, Call
    <3> QED BY <1>1, <2>3, <3>1
  <2>5. pc'["panic"] > e /\ pc'["panic"] # e + 1 /\ ~(pc'["panic"] <= e)
    BY <1>1, <1>2, <1>8, <2>4
  <2>6. (running = "page_fault") = TRUE
    BY <1>8
  <2> QED BY <2>2, <2>5, <2>6 DEF Goal, OwnText, e
<1>9. \/ /\ h < e /\ BlockOf(h) \in 1 .. 2 * Len(lines)
         /\ BlockOf(h + 1) = BlockOf(h) + 1
         /\ call = BlockCall(lines, PanicStart.x, BlockOf(h))
      \/ call = PanicUpdate /\ (h = 5 \/ h = e)
      \/ running = "page_fault" /\ (h = e + 1 \/ h = e + 2 \/ h = e + 3)
  BY <1>1, PanicPlaces DEF e, h
<1>10. h = e + 1 \/ h = e + 2 \/ h = e + 3 => h > e
  BY <1>2
<1> QED BY <1>6, <1>7, <1>8, <1>9, <1>10

LEMMA AddressTextStep ==
  ASSUME TypeOK, BufferOK, OwnInv, CallStep, running # "kernel", FitsOn(fb, <<Address>>, PanicStart)
  PROVE  AddressText(fb, buffer'[Target], running, pc'["panic"], char'["panic"], pos'["panic"])
<1> DEFINE h == pc["panic"]
           e == PanicEnd(running)
           Drawn(b) == InBlock(fb, buffer'[Target], <<Address>>, PanicStart, b, char'["panic"], pos'["panic"])
<1>1. /\ Context = "panic" /\ here = h
      /\ call = Panic(running)[h] /\ fb \in Framebuffers /\ h \in 1 .. Len(Panic(running))
      /\ (pc'["panic"] = h /\ call.op = "puts") \/ pc'["panic"] = h + 1
      /\ call.op # "puts" => pc'["panic"] = h + 1 /\ char'["panic"] = 1
  BY PanicGoes
<1>2. e \in Nat /\ h \in Nat
  BY <1>1, PanicCalls DEF TypeOK
<1>3. AddressText(fb, buffer[Target], running, h, char["panic"], pos["panic"])
  BY PanicGoes DEF OwnInv, OwnAt
<1>4. <<Address>> \in Seq(Seq(Nat)) /\ Len(<<Address>>) = 1 /\ PanicStart \in Point
  BY ConstantsTyped
<1> SUFFICES ASSUME running = "page_fault", NEW b \in 1 .. 2, pc'["panic"] = e + 1 + b PROVE Drawn(b)
  BY DEF AddressText
<1>5. /\ Panic(running)[e + 1] = Move(PanicStart)
      /\ Panic(running)[e + 2] = BlockCall(<<Address>>, PanicStart.x, 1)
      /\ Panic(running)[e + 3] = Swap(PanicStart, AddressArea)
  BY PanicCalls
<1> HIDE DEF h, e, Drawn
<1>6. CASE h = e + 1
  <2>1. call = Move(PanicStart)
    BY <1>1, <1>5, <1>6
  <2>2. call.op = "move" /\ call.at = PanicStart
    BY <2>1 DEF Move, Call
  <2>3. pos'["panic"] = PanicStart /\ char'["panic"] = 1
    BY <1>1, <2>2, CallDone, Gone DEF DoesMove, Contexts
  <2>4. b = 1
    BY <1>1, <1>2, <1>6
  <2> QED BY <1>4, <2>3, <2>4, BlockStarts DEF Drawn
<1>7. CASE h = e + 2
  <2>1. call = BlockCall(<<Address>>, PanicStart.x, 1)
    BY <1>1, <1>5, <1>7
  <2>2. InBlock(fb, buffer[Target], <<Address>>, PanicStart, 1, char[Context], pos[Context])
    <3>1. h = PanicEnd(running) + 1 + 1
      BY <1>2, <1>7 DEF e
    <3> QED BY <1>1, <1>3, <3>1 DEF AddressText
  <2>3. 1 \in 1 .. 2 * Len(<<Address>>)
    BY <1>4
  <2>4. \/ BlockGoes(<<Address>>, PanicStart, 1, 1)
        \/ BlockGoes(<<Address>>, PanicStart, 1, 1 + 1)
    BY <1>1, <1>4, <2>1, <2>2, <2>3, BlockStep
  <2>5. \/ pc'["panic"] = h + (1 - 1) /\ Drawn(1)
        \/ pc'["panic"] = h + ((1 + 1) - 1) /\ Drawn(2)
    BY <1>1, <2>4 DEF BlockGoes, Drawn
  <2> QED BY <1>2, <1>7, <2>5
<1>8. CASE h = e + 3
  <2>1. call = Swap(PanicStart, AddressArea)
    BY <1>1, <1>5, <1>8
  <2>2. call.op # "puts"
    BY <2>1 DEF Swap, Call
  <2> QED BY <1>1, <1>2, <1>8, <2>2
<1>9. h = e + 1 \/ h = e + 2 \/ h = e + 3
  BY <1>1, <1>2
<1> QED BY <1>6, <1>7, <1>8, <1>9

LEMMA OwnInvStep ==
  ASSUME TypeOK, BufferOK, Progress, OwnInv, CallStep, running # "kernel"
  PROVE  OwnInv'
<1>1. fb' = fb /\ running' = running /\ began' = began /\ running \in Kinds
  BY CallDone, PanicGoes
<1>2. Target' = Target
  BY <1>1, SameScreen
<1>3. OwnCall(running, pc'["panic"], char'["panic"])
  BY PanicGoes
<1>4. Resting(fb, running, pc'["panic"], pos'["panic"])
  BY RestingStep
<1>5. FitsOn(fb, PanicLines(running), began) =>
        OwnText(fb, Target, buffer', running, began, pc'["panic"], char'["panic"], pos'["panic"])
  BY OwnTextStep
<1>6. FitsOn(fb, <<Address>>, PanicStart) =>
        AddressText(fb, buffer'[Target], running, pc'["panic"], char'["panic"], pos'["panic"])
  BY AddressTextStep
<1>7. OwnAt(fb, Target, buffer', running, began, pc'["panic"], char'["panic"], pos'["panic"])
  BY <1>3, <1>4, <1>5, <1>6 DEF OwnAt
<1>8. Placed(fb, began)
  BY <1>1 DEF OwnInv
<1> QED BY <1>1, <1>2, <1>7, <1>8 DEF OwnInv

\* The reports of panics before the one that runs.
LEMMA ReportKept ==
  ASSUME TypeOK, BufferOK, OwnInv, Reports, CallStep, running # "kernel", NEW r \in reported
  PROVE  /\ ~(BootScreen /\ r.kind \in Returning) =>
              Shown(fb, Target, buffer', r.kind, r.at, LineLost)
         /\ pc'["panic"] <= PanicEnd(running) + 1 => Over(fb, r.kind, r.at, pos'["panic"].y)
<1> DEFINE lines == PanicLines(r.kind)
           h == pc["panic"]
           e == PanicEnd(running)
           S == From(lines, First(LineLost, r.at))
<1>1. /\ running \in Kinds /\ fb \in Framebuffers /\ h \in 1 .. Len(Panic(running))
      /\ call = Panic(running)[h] /\ here = h
      /\ (pc'["panic"] = h /\ call.op = "puts") \/ pc'["panic"] = h + 1
      /\ call.op # "puts" => pc'["panic"] = h + 1
  BY PanicGoes
<1>2. running # "halted"
  BY CallDone
<1>3. /\ Placed(fb, r.at) /\ r.kind \in Returning
      /\ ~(BootScreen /\ r.kind \in Returning) =>
            Shown(fb, Target, buffer, r.kind, r.at, LineLost)
      /\ ~AddressStage => Over(fb, r.kind, r.at, pos["panic"].y)
  BY <1>2 DEF Reports
<1>4. e \in Nat /\ h \in Nat
  BY <1>1, PanicCalls DEF TypeOK
<1>5. LineLost <=> running = "page_fault"
  BY <1>2, NotLost
<1> DEFINE Kept == ~(BootScreen /\ r.kind \in Returning) =>
                     Shown(fb, Target, buffer', r.kind, r.at, LineLost)
           Below == Over(fb, r.kind, r.at, pos'["panic"].y)
<1> SUFFICES Kept /\ (pc'["panic"] <= e + 1 => Below)
  OBVIOUS
<1>6. CASE h <= e
  <2>1. ~AddressStage
    BY <1>4, <1>6 DEF AddressStage
  <2>2. call.op # "move"
    <3>2. CASE h < e /\ call = BlockCall(PanicLines(running), PanicStart.x, BlockOf(h))
      BY <3>2 DEF BlockCall, Puts, Crlf, Call
    <3>3. CASE call = PanicUpdate
      BY <3>3 DEF PanicUpdate, Swap, Call
    <3>4. \/ h < e /\ call = BlockCall(PanicLines(running), PanicStart.x, BlockOf(h))
          \/ call = PanicUpdate
          \/ h = e + 1 \/ h = e + 2 \/ h = e + 3
      BY <1>1, PanicPlaces
    <3>5. ~(h = e + 1 \/ h = e + 2 \/ h = e + 3)
      <4> HIDE DEF h, e
      <4> QED BY <1>4, <1>6
    <3> QED BY <3>2, <3>3, <3>4, <3>5
  <2>3. ASSUME FitsOn(fb, lines, r.at)
        PROVE  /\ Kept /\ r.at.y + Len(lines) * CharacterSize <= pos'["panic"].y
    <3>1. lines \in Seq(Seq(Nat)) /\ r.at \in Point /\ S \in SUBSET Cells(lines)
      BY <1>3, <2>3, PanicFits, SubCells
    <3>2. r.at.y + Len(lines) * CharacterSize <= pos["panic"].y
      BY <1>3, <2>1, <2>3 DEF Over, Ends
    <3>3. /\ r.at.y + Len(lines) * CharacterSize <= pos'["panic"].y
          /\ Both(fb, Target, buffer, lines, r.at, S) => Both(fb, Target, buffer', lines, r.at, S)
      BY <2>2, <2>3, <3>1, <3>2, PanicLeaves
    <3>4. ASSUME Shown(fb, Target, buffer, r.kind, r.at, LineLost)
          PROVE  Shown(fb, Target, buffer', r.kind, r.at, LineLost)
      BY <2>3, <3>3, <3>4 DEF Shown
    <3> QED BY <1>3, <3>3, <3>4
  <2>4. ASSUME ~FitsOn(fb, lines, r.at) PROVE Kept /\ Below
    BY <2>4 DEF Shown, Over, Ends
  <2>5. ASSUME r.at.y + Len(lines) * CharacterSize <= pos'["panic"].y PROVE Below
    BY <2>5 DEF Over, Ends
  <2> QED BY <2>3, <2>4, <2>5
<1>7. CASE h > e
  <2>1. running = "page_fault"
    <3>1. h <= Len(Panic(running)) /\ Len(Panic(running)) = IF running = "page_fault" THEN e + 3 ELSE e
      BY <1>1, PanicCalls
    <3> HIDE DEF h, e
    <3>2. running # "page_fault" => h <= e
      BY <3>1
    <3> QED BY <1>4, <1>7, <3>2
  <2>2. LineLost = TRUE
    BY <1>5, <2>1 DEF LineLost
  <2>3. ASSUME Shown(fb, Target, buffer, r.kind, r.at, TRUE)
        PROVE  Shown(fb, Target, buffer', r.kind, r.at, TRUE)
    BY <1>3, <1>7, <2>1, <2>3, AddressKeeps
  <2>4. ~(pc'["panic"] <= e + 1)
    <3>1. h = e + 1 => call = Move(PanicStart)
      BY <1>1, <2>1, PanicCalls
    <3>2. h = e + 1 => call.op # "puts"
      BY <3>1 DEF Move, Call
    <3> HIDE DEF h, e
    <3> QED BY <1>1, <1>4, <1>7, <3>2
  <2> QED BY <1>3, <2>2, <2>3, <2>4
<1>8. h <= e \/ h > e
  <2> HIDE DEF h, e
  <2> QED BY <1>4
<1> QED BY <1>6, <1>7, <1>8

LEMMA PanicInvPanic ==
  ASSUME TypeOK, BufferOK, KmainInv, PanicInv, CallStep, running # "kernel"
  PROVE  PanicInv'
<1> DEFINE e == PanicEnd(running)
<1>1. /\ fb' = fb /\ running' = running /\ running \in Kinds /\ running # "halted"
      /\ call.op # "clear"
  <2>1. PanicOp(call) /\ running \in Kinds
    BY PanicGoes DEF PanicInv
  <2>2. ASSUME NEW size, call = Swap(PanicStart, size) PROVE call.op # "clear"
    BY <2>2 DEF Swap, Call
  <2>3. call.op # "clear"
    BY <2>1, <2>2 DEF PanicOp
  <2> QED BY <2>1, <2>3, CallDone
<1>2. reported' = reported
  BY <1>1, CallDone
<1>3. /\ pc'["kernel"] = pc["kernel"] /\ char'["kernel"] = char["kernel"]
      /\ pos'["kernel"] = pos["kernel"]
  BY PanicKeeps DEF KmainInv, Progress
<1>4. Target' = Target /\ (Room' <=> Room) /\ (Wide' <=> Wide)
  BY <1>1, SameScreen DEF Wide
<1>5. PanelAbove'
  BY <1>1, <1>3, <1>4 DEF PanelAbove, PanicInv
<1>6. Idle'
  BY <1>1 DEF Idle, Kinds
<1>7. OwnInv'
  BY OwnInvStep DEF KmainInv, PanicInv
<1>8. LineLost' = LineLost /\ BootScreen' = BootScreen
  BY <1>1, <1>2, <1>3 DEF LineLost, BootScreen
<1>9. ~AddressStage' => pc'["panic"] <= e + 1
  <2>1. pc'["panic"] <= Len(Panic(running)) + 1
    BY PanicGoes DEF PanicInv, OwnCall
  <2>2. e \in Nat /\ (running # "page_fault" => Len(Panic(running)) = e)
    BY PanicCalls
  <2>3. pc'["panic"] \in Nat
    <3>1. /\ pc'["panic"] = pc["panic"] \/ pc'["panic"] = pc["panic"] + 1
          /\ pc["panic"] \in Nat
      BY PanicGoes DEF PanicInv, TypeOK
    <3> QED BY <3>1
  <2>4. AddressStage' <=> running = "page_fault" /\ pc'["panic"] > e + 1
    BY <1>1 DEF AddressStage
  <2> HIDE DEF e
  <2>5. CASE running = "page_fault"
    BY <2>2, <2>3, <2>4, <2>5
  <2>6. CASE running # "page_fault"
    BY <2>1, <2>2, <2>6
  <2> QED BY <2>5, <2>6
<1>10. ASSUME NEW r \in reported
       PROVE  /\ r.kind \in Kinds /\ Placed(fb, r.at) /\ r.kind \in Returning
              /\ ~(BootScreen /\ r.kind \in Returning) =>
                    Shown(fb, Target, buffer', r.kind, r.at, LineLost)
              /\ ~AddressStage' => Over(fb, r.kind, r.at, pos'["panic"].y)
  <2>1. r.kind \in Kinds /\ Placed(fb, r.at) /\ r.kind \in Returning
    BY <1>1 DEF PanicInv, Reports
  <2>2. /\ ~(BootScreen /\ r.kind \in Returning) =>
              Shown(fb, Target, buffer', r.kind, r.at, LineLost)
        /\ pc'["panic"] <= PanicEnd(running) + 1 => Over(fb, r.kind, r.at, pos'["panic"].y)
    BY ReportKept DEF PanicInv
  <2> QED BY <1>9, <2>1, <2>2
<1>11. Reports'
  BY <1>1, <1>2, <1>4, <1>8, <1>10 DEF Reports
<1> QED BY <1>5, <1>6, <1>7, <1>11 DEF PanicInv

\* The panic is over: its text is on the screen, where it has not drawn the address.
LEMMA PanicInvReturns ==
  ASSUME TypeOK, BufferOK, PanicInv, panicReturns
  PROVE  PanicInv'
<1> DEFINE h == pc["panic"]
           P == pos["panic"]
           e == PanicEnd(running)
           lines == PanicLines(running)
           own == [kind |-> running, at |-> began]
<1>1. /\ running \in Kinds /\ here > Len(Program)
      /\ reported' = reported \cup {own}
      /\ running' = IF running \in Returning THEN "kernel" ELSE "halted"
      /\ UNCHANGED <<fb, buffer, pc, char, pos>>
  BY DEF panicReturns
<1>2. running # "kernel" /\ running # "halted" /\ running' \in {"kernel", "halted"}
  BY <1>1 DEF Kinds
<1>3. h > Len(Panic(running)) /\ P \in Point /\ h \in Nat
  BY <1>1, <1>2 DEF here, Program, Context, TypeOK
<1>4. Target' = Target /\ (Room' <=> Room) /\ (Wide' <=> Wide) /\ BootScreen' = BootScreen
  BY <1>1, SameScreen DEF Wide, BootScreen
<1>5. PanelAbove'
  BY <1>1, <1>4 DEF PanelAbove, PanicInv
<1>6. OwnInv'
  BY <1>2 DEF OwnInv, Kinds
<1>7. Placed(fb, began) /\ OwnAt(fb, Target, buffer, running, began, h, char["panic"], P)
  BY <1>1 DEF PanicInv, OwnInv
<1>8. /\ e \in Nat /\ Len(Panic(running)) \in Nat /\ Len(Panic(running)) >= e
      /\ running \in Returning => Len(Panic(running)) = e
  <2>1. e \in Nat /\ Len(Panic(running)) = IF running = "page_fault" THEN e + 3 ELSE e
    BY PanicCalls
  <2>2. running \in Returning => running # "page_fault"
    BY DEF Returning
  <2> HIDE DEF e
  <2> QED BY <2>1, <2>2
<1>9. h > e /\ (running \in Returning => h = e + 1)
  <2>1. h <= Len(Panic(running)) + 1
    BY <1>7 DEF OwnAt, OwnCall
  <2> HIDE DEF h, e
  <2> QED BY <1>3, <1>8, <2>1
<1>10. Idle'
  <2>1. SUFFICES ASSUME running \in Returning PROVE Placed(fb, P)
    BY <1>1 DEF Idle
  <2>2. Resting(fb, running, h, P)
    BY <1>7 DEF OwnAt
  <2> QED BY <1>3, <1>9, <2>1, <2>2 DEF Resting, Placed
<1>12. ~AddressStage'
  BY <1>2 DEF AddressStage
<1>13. /\ \A r \in reported : r.kind \in Returning
       /\ LineLost <=> running = "page_fault"
  BY <1>2, NotLost DEF PanicInv
<1>14. LineLost' <=> running = "page_fault"
  <2>1. LineLost' <=> \E r \in reported' : r.kind = "page_fault"
    BY <1>2 DEF LineLost
  <2>2. own.kind = running
    OBVIOUS
  <2> HIDE DEF own
  <2> QED BY <1>1, <1>13, <2>1, <2>2 DEF Returning
<1>15. LineLost' = (running = "page_fault") /\ LineLost' = LineLost
  BY <1>13, <1>14 DEF LineLost
<1> DEFINE Kept(r) ==
             /\ r.kind \in Kinds /\ Placed(fb, r.at)
             /\ r.kind \notin Returning => running' = "halted"
             /\ ~(BootScreen /\ r.kind \in Returning) =>
                   Shown(fb, Target, buffer, r.kind, r.at, LineLost')
             /\ running' # "halted" => Over(fb, r.kind, r.at, P.y)
<1>16. ASSUME NEW r \in reported PROVE Kept(r)
  <2>1. /\ r.kind \in Kinds /\ Placed(fb, r.at) /\ r.kind \in Returning
        /\ ~(BootScreen /\ r.kind \in Returning) =>
              Shown(fb, Target, buffer, r.kind, r.at, LineLost)
        /\ running \in Returning => Over(fb, r.kind, r.at, P.y)
    BY <1>2, <1>13 DEF PanicInv, Reports, AddressStage, Returning
  <2>2. running' # "halted" => running \in Returning
    BY <1>1
  <2> QED BY <1>15, <2>1, <2>2
<1>17. Kept(own)
  <2>1. Shown(fb, Target, buffer, running, began, running = "page_fault")
    <3>1. CASE FitsOn(fb, lines, began)
      BY <1>7, <1>9, <3>1 DEF OwnAt, OwnText
    <3>2. CASE ~FitsOn(fb, lines, began)
      BY <3>2 DEF Shown
    <3> QED BY <3>1, <3>2
  <2>2. ASSUME running \in Returning PROVE Over(fb, running, began, P.y)
    <3>1. SUFFICES ASSUME FitsOn(fb, lines, began)
                   PROVE  began.y + Len(lines) * CharacterSize <= P.y
      BY DEF Over, Ends
    <3>2. P.y = began.y + Len(lines) * CharacterSize
      BY <1>7, <1>9, <2>2, <3>1 DEF OwnAt, OwnText
    <3>3. P.y \in Nat
      BY <1>3 DEF Point
    <3> QED BY <3>2, <3>3
  <2>3. own.kind = running /\ own.at = began
    OBVIOUS
  <2>4. Shown(fb, Target, buffer, running, began, LineLost')
    BY <1>15, <2>1
  <2>5. running' # "halted" => running \in Returning
    BY <1>1
  <2> HIDE DEF own
  <2> QED BY <1>1, <1>7, <2>2, <2>3, <2>4, <2>5
<1> HIDE DEF own, P
<1>18. \A r \in reported' : Kept(r)
  BY <1>1, <1>16, <1>17
<1>19. Reports'
  BY <1>1, <1>4, <1>18 DEF Reports, P
<1> QED BY <1>5, <1>6, <1>10, <1>19 DEF PanicInv

LEMMA PanicInvInit == Init => PanicInv
<1> SUFFICES ASSUME Init PROVE PanicInv
  OBVIOUS
<1>1. /\ running = "kernel" /\ reported = {} /\ pc["kernel"] = 1 /\ pos["panic"] = PanicStart
      /\ fb \in Framebuffers
  BY DEF Init
<1>2. BootCalls \in Nat /\ Len(Panel) \in Nat
  BY <1>1, KernelCalls
<1>3. PanelAbove
  BY <1>1, <1>2 DEF PanelAbove, InPanel
<1>4. Reports /\ OwnInv
  BY <1>1 DEF Reports, OwnInv, Kinds
<1>5. Idle
  BY <1>1, ConstantsTyped DEF Idle, Placed
<1> QED BY <1>3, <1>4, <1>5 DEF PanicInv

LEMMA PanicInvStep ==
  ASSUME TypeOK, BufferOK, KmainInv, PanicInv, [Next]_vars
  PROVE  PanicInv'
<1>1. CASE CallStep
  BY <1>1, PanicInvKernel, PanicInvPanic
<1>2. CASE kmainLoops
  BY <1>2, PanicInvLoops
<1>3. ASSUME NEW kind \in Kinds, panic(kind) PROVE PanicInv'
  BY <1>3, PanicInvBegins
<1>4. CASE panicReturns
  BY <1>4, PanicInvReturns
<1>5. CASE UNCHANGED vars
  <2>1. UNCHANGED <<fb, buffer, running, pc, char, pos, began, reported>>
    BY <1>5 DEF vars
  <2>2. Target' = Target /\ (Wide' <=> Wide)
    BY <2>1, SameScreen DEF Wide
  <2>3. LineLost' = LineLost /\ BootScreen' = BootScreen /\ AddressStage' = AddressStage
    BY <2>1 DEF LineLost, BootScreen, AddressStage
  <2>4. PanelAbove'
    BY <2>1, <2>2 DEF PanicInv, PanelAbove
  <2>5. Reports'
    BY <2>1, <2>2, <2>3 DEF PanicInv, Reports
  <2>6. Idle' /\ OwnInv'
    BY <2>1, <2>2 DEF PanicInv, Idle, OwnInv
  <2> QED BY <2>4, <2>5, <2>6 DEF PanicInv
<1> QED BY <1>1, <1>2, <1>3, <1>4, <1>5 DEF Next, CallStep

\* The cells from the second line on are those of the lines after the first.
LEMMA TailReadable ==
  ASSUME NEW texts \in Seq(Seq(Nat)), texts # <<>>, NEW p \in Point,
         Has(fb, buffer["render"], texts, p, From(texts, 2))
  PROVE  LinesReadable(Tail(texts), At(p.x, p.y + CharacterSize))
<1> DEFINE rest == Tail(texts)
<1>1. Len(rest) = Len(texts) - 1 /\ Len(texts) \in Nat /\ \A i \in 1 .. Len(rest) : rest[i] = texts[i + 1]
  OBVIOUS
<1>2. DOMAIN rest = 1 .. Len(rest) /\ rest \in Seq(Seq(Nat))
  OBVIOUS
<1> DEFINE Square(i, k) ==
             Area(fb, At(p.x + (k - 1) * CharWidth, p.y + CharacterSize + (i - 1) * CharacterSize), Glyph)
<1> HIDE DEF rest
<1>3. ASSUME NEW i \in DOMAIN rest, NEW k \in DOMAIN rest[i], NEW o \in Square(i, k)
      PROVE  buffer["render"][o] = rest[i][k]
  <2>1. i \in 1 .. Len(rest) /\ Len(rest) \in Nat /\ Len(rest) + 1 = Len(texts) /\ texts \in Seq(Seq(Nat))
    BY <1>1, <1>2
  <2>2. i \in Nat /\ i >= 1 /\ i + 1 \in 1 .. Len(texts)
    BY <2>1
  <2>3. i + 1 \in DOMAIN texts /\ rest[i] = texts[i + 1] /\ texts[i + 1] \in Seq(Nat)
    BY <1>1, <2>1, <2>2
  <2>4. k \in Nat /\ k \in DOMAIN texts[i + 1]
    BY <2>3
  <2> DEFINE c == <<i + 1, k>>
  <2>5. c[1] = i + 1 /\ c[2] = k /\ i + 1 \in Nat /\ i + 1 >= 2
    BY <2>2
  <2>6. c \in From(texts, 2)
    <3>1. c \in Nat \X Nat
      BY <2>4, <2>5
    <3> HIDE DEF c
    <3> QED BY <2>3, <2>4, <2>5, <3>1 DEF From, Cells
  <2>7. p.y + CharacterSize + (i - 1) * CharacterSize = p.y + ((i + 1) - 1) * CharacterSize
    <3>1. /\ CharacterSize \in Nat /\ p.y \in Nat
      BY ScreenAssumption DEF Point
    <3> DEFINE m == i - 1
    <3>2. m \in Nat /\ (i + 1) - 1 = m + 1
      BY <2>2
    <3> DEFINE a == m * CharacterSize
               b == (m + 1) * CharacterSize
    <3>3. a \in Nat /\ b = a + CharacterSize
      <4> HIDE DEF m
      <4> QED BY <3>1, <3>2, Multiple
    <3>4. p.y + CharacterSize + a = p.y + b
      <4> HIDE DEF a, b
      <4> QED BY <3>1, <3>3
    <3> QED BY <3>2, <3>4
  <2>8. Square(i, k) = CellArea(fb, p, c)
    BY <2>5, <2>7 DEF CellArea, Cell
  <2> QED BY <2>3, <2>5, <2>6, <2>8 DEF Has
<1>4. LinesReadable(rest, At(p.x, p.y + CharacterSize))
  BY <1>3 DEF LinesReadable, Readable, At, Glyph
<1> QED BY <1>4 DEF rest

LEMMA PanicInvMeans == ASSUME TypeOK, PanicInv PROVE PanicReadable
<1> SUFFICES ASSUME NEW r \in reported, Fits(PanicLines(r.kind), r.at),
                    ~(BootScreen /\ r.kind \in Returning)
             PROVE  IF r.at = PanicStart /\ LineLost
                    THEN LinesReadable(Tail(PanicLines(r.kind)), At(r.at.x, r.at.y + CharacterSize))
                    ELSE LinesReadable(PanicLines(r.kind), r.at)
  BY DEF PanicReadable
<1> DEFINE lines == PanicLines(r.kind)
<1>1. FitsOn(fb, lines, r.at)
  BY DEF Fits, FitsOn
<1>2. Placed(fb, r.at) /\ Shown(fb, Target, buffer, r.kind, r.at, LineLost)
  BY DEF PanicInv, Reports
<1>3. Has(fb, buffer["render"], lines, r.at, From(lines, First(LineLost, r.at)))
  BY <1>1, <1>2 DEF Shown, Both
<1>4. lines \in Seq(Seq(Nat)) /\ lines # <<>> /\ r.at \in Point
  <2>1. lines \in Seq(Seq(Nat)) /\ Len(lines) >= 2
    BY PanicLinesTyped
  <2> QED BY <1>2, <2>1 DEF Placed
<1> HIDE DEF lines
<1>5. CASE r.at = PanicStart /\ LineLost
  <2>1. First(LineLost, r.at) = 2
    BY <1>5 DEF First
  <2>2. LinesReadable(Tail(lines), At(r.at.x, r.at.y + CharacterSize))
    BY <1>3, <1>4, <2>1, TailReadable
  <2> QED BY <1>5, <2>2 DEF lines
<1>6. CASE ~(r.at = PanicStart /\ LineLost)
  <2>1. First(LineLost, r.at) = 1
    BY <1>6 DEF First
  <2>2. LinesReadable(lines, r.at)
    BY <1>3, <1>4, <2>1, FromAll, CellsReadable
  <2> QED BY <1>6, <2>2 DEF lines
<1> QED BY <1>5, <1>6

\* What panic() has written can be read on the framebuffer from its return on:
\* the swaps copy all of it, the panics after it write below, and neither kmain's
\* redrawing nor the address of a page fault goes over it, on any screen that
\* has room for it and wherever the kernel was interrupted; only a panic that
\* returns to the boot screen may lose it there, to the shapes, until that screen
\* is cleared.
THEOREM PanicStaysReadable == Spec => []PanicReadable
<1>1. Init => TypeOK /\ BufferOK /\ KmainInv /\ PanicInv
  BY InitInv, BufferInit, KmainInvInit, PanicInvInit DEF IInv
<1>2. IInv /\ BufferOK /\ KmainInv /\ PanicInv /\ [Next]_vars => BufferOK' /\ KmainInv' /\ PanicInv'
  BY BufferStep, KmainInvStep, PanicInvStep DEF IInv
<1>3. IInv /\ PanicInv => PanicReadable
  BY PanicInvMeans DEF IInv
<1>4. Init => IInv
  BY InitInv
<1>5. IInv /\ [Next]_vars => IInv'
  BY StepInv
<1> QED BY <1>1, <1>2, <1>3, <1>4, <1>5, PTL DEF Spec
=============================================================================
