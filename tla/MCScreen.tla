------------------------------ MODULE MCScreen ------------------------------
(***************************************************************************)
(* Characters of two by two pixels.  Screens with room for everything, one *)
(* on which the panic message does not fit, one that ends before the panel *)
(* and the message begin, and one narrower than the panel.                 *)
(***************************************************************************)
EXTENDS Screen

MCPanicStart == At(4, 10)
MCAddressArea == At(10, 4)
MCShape == << [at |-> At(3, 5), size |-> At(4, 3), pixel |-> 1],
              [at |-> At(4, 12), size |-> At(6, 3), pixel |-> 2] >>
MCBootLine == << 10, 11, 12 >>
MCMIT == << 13, 14, 15 >>
MCRoll == << 16 >>
MCPanel == << << 20, 21 >>, << 22 >> >>
MCPanicMode == << 30, 31 >>
MCMessage == << 32, 33, 34 >>
MCFrameLines == << << 35, 36 >> >>
MCErrorLines == << << 37, 36 >>, << 35 >> >>
MCAddress == << 38, 39 >>

Screen(w, h, pitch, deferred) ==
    [PixelWidth |-> w, PixelHeight |-> h, PixelsPerScanLine |-> pitch, deferred |-> deferred]
MCFramebuffers ==
    { Screen(14, 26, 15, TRUE), Screen(14, 19, 14, FALSE), Screen(11, 15, 12, TRUE),
      Screen(3, 4, 4, TRUE), Screen(5, 6, 5, FALSE) }
=============================================================================
