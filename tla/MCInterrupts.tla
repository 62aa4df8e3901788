---------------------------- MODULE MCInterrupts ----------------------------
(***************************************************************************)
(* A serial chip without and one with a FIFO: of 4 bytes, with trigger     *)
(* level 2, for the real 16 and 14.  Devices: none, the timer on the first *)
(* chip, the clock and the mouse on the second.                            *)
(***************************************************************************)
EXTENDS Interrupts

MCFirmwareMasks == {<<184, 142>>, <<255, 255>>}
MCDeviceSets == {{}, {0}, {8, 12}}
MCChips == {[depth |-> 1, trigger |-> 1], [depth |-> 4, trigger |-> 2]}
=============================================================================
