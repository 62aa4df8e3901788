--------------------------- MODULE InterruptsProofs ---------------------------
(***************************************************************************)
(* For every firmware, set of devices, serial chip and number of bytes:    *)
(* lines arrive on their vectors, the masks survive remap_pic, nothing is  *)
(* left in service, and only a line without a handler halts the kernel.    *)
(***************************************************************************)
EXTENDS Interrupts, TLAPS

(***************************************************************************)
(* The inductive invariant.                                                *)
(***************************************************************************)
Typed ==
    /\ pic \in [1 .. 2 -> ChipType]
    /\ firmware \in Byte \X Byte
    /\ saved \in Byte \X Byte
    /\ devices \subseteq Line \ {2, IRQ_UART_COM1}
    /\ pc \in {"cli", "remap", "install", "uart", "disable_all", "enable_com1",
               "sti", "running"}
    /\ at \in Nat
    /\ handler \in {"none", "read", "eoi", "iret", "halted"}
    /\ service \in [line : Line, vector : Byte]

\* Interrupts are on in the running kernel only, and off in handlers.
Enabled ==
    /\ IF_ => pc = "running" /\ handler = "none"
    /\ handler # "none" => pc = "running"
    /\ pc = "install" => at = 0
    /\ pc = "uart" => at \in 0 .. 6
    /\ pc \notin {"cli", "remap", "install"} => idt = Handlers

\* Before remap_pic the chips are as the firmware left them; within it they
\* have been given the first at - 1 writes.
Expected(k) ==
    CASE k < 2 -> "mask"
      [] k \in 2 .. 3 -> "icw2"
      [] k \in 4 .. 5 -> "icw3"
      [] k \in 6 .. 7 -> "icw4"
      [] k > 7 -> "mask"
Remapping ==
    /\ pc = "cli" => \A c \in 1 .. 2 : /\ pic[c].mask = firmware[c]
                                       /\ pic[c].expects = "mask"
    /\ pc = "cli" => at = 0
    /\ pc = "remap" =>
          /\ at \in 0 .. 10
          /\ at = 0 => \A c \in 1 .. 2 : pic[c].mask = firmware[c]
          /\ at > 0 => saved = <<firmware[1], firmware[2]>>
          /\ pic[1].expects = Expected(at)
          /\ pic[2].expects = Expected(IF at = 0 THEN 0 ELSE at - 1)
          /\ at > 3 => pic[1].base = PIC_IRQ_VECTOR_OFFSET
          /\ at > 4 => pic[2].base = PIC_IRQ_VECTOR_OFFSET + 8
          /\ at > 9 => pic[1].mask = firmware[1]

Remapped ==
    pc \notin {"cli", "remap"} =>
        /\ pic[1].base = PIC_IRQ_VECTOR_OFFSET
        /\ pic[2].base = PIC_IRQ_VECTOR_OFFSET + 8
        /\ \A c \in 1 .. 2 : pic[c].expects = "mask"

\* Requests come from COM1 and the devices of the machine.
Requests ==
    \A c \in 1 .. 2 : \A p \in pic[c].irr :
        \E line \in devices \cup {IRQ_UART_COM1} : c = ChipOf(line) /\ p = Pin(line)

InService ==
    /\ handler \in {"none", "iret"} => pic[1].isr = {} /\ pic[2].isr = {}
    /\ handler \in {"read", "eoi"} => pic[1].isr = {4} /\ pic[2].isr = {}

IInv ==
    /\ Typed
    /\ Enabled
    /\ Remapping
    /\ Remapped
    /\ MasksSurviveRemap
    /\ Requests
    /\ InService
    /\ LinesHaveTheirVectors
    /\ OnlyOthersHalt

-----------------------------------------------------------------------------
(* The lowest of some pins is one of them: a chip serves a pin that asks.  *)
LEMMA MinPin ==
  ASSUME NEW S \in SUBSET (0 .. 7), S # {}
  PROVE  Min(S) \in S
<1> SUFFICES ASSUME \A x \in S : \E y \in S : y < x PROVE FALSE
  <2>1. \E x \in S : \A y \in S : x <= y
    OBVIOUS
  <2> QED BY <2>1 DEF Min
<1>1. 0 \notin S /\ 1 \notin S /\ 2 \notin S /\ 3 \notin S
  OBVIOUS
<1>2. 4 \notin S /\ 5 \notin S /\ 6 \notin S /\ 7 \notin S
  BY <1>1
<1>3. PICK x \in S : TRUE
  OBVIOUS
<1>4. x \in 0 .. 7
  OBVIOUS
<1> QED BY <1>1, <1>2, <1>3, <1>4

(* Raising a line adds a request to one chip and changes nothing else.     *)
LEMMA RaiseAddsRequest ==
  ASSUME Typed, NEW line \in Line
  PROVE  /\ Raise(pic, line) \in [1 .. 2 -> ChipType]
         /\ \A c \in 1 .. 2 :
               /\ Raise(pic, line)[c].mask = pic[c].mask
               /\ Raise(pic, line)[c].base = pic[c].base
               /\ Raise(pic, line)[c].expects = pic[c].expects
               /\ Raise(pic, line)[c].isr = pic[c].isr
               /\ \A p \in Raise(pic, line)[c].irr \ pic[c].irr :
                     c = ChipOf(line) /\ p = Pin(line)
BY DEF Typed, Raise, ChipType, ChipOf, Pin, Line

(* The line the controllers present is one that has been raised, and its   *)
(* vector, once they are remapped, is its own.                             *)
LEMMA ChosenLine ==
  ASSUME Typed, Requests, Pending(pic), pic[1].base = PIC_IRQ_VECTOR_OFFSET,
         pic[2].base = PIC_IRQ_VECTOR_OFFSET + 8
  PROVE  /\ Chosen(pic) \in devices \cup {IRQ_UART_COM1}
         /\ Vector(pic, Chosen(pic)) = PIC_IRQ_VECTOR_OFFSET + Chosen(pic)
<1> DEFINE ready1 == Ready(WithCascade(pic))
           ready2 == Ready(pic[2])
<1>1. pic[1] \in ChipType /\ pic[2] \in ChipType
  BY DEF Typed
<1>2. ready2 \in SUBSET (0 .. 7) /\ ready2 \subseteq pic[2].irr
  BY <1>1 DEF Ready, ChipType
<1>3. /\ ready1 \in SUBSET (0 .. 7)
      /\ \A p \in ready1 : p \in pic[1].irr \/ (p = 2 /\ ready2 # {})
  BY <1>1 DEF Ready, WithCascade, ChipType
<1>4. Min(ready1) \in ready1
  BY <1>3, MinPin DEF Pending
<1>5. CASE Min(ready1) = 2 /\ ready2 # {}
  <2>1. Min(ready2) \in ready2
    BY <1>2, <1>5, MinPin
  <2>2. PICK line \in devices \cup {IRQ_UART_COM1} :
               2 = ChipOf(line) /\ Min(ready2) = Pin(line)
    BY <2>1, <1>2 DEF Requests
  <2>3. line \in Line
    BY DEF Typed, Line, IRQ_UART_COM1
  <2>4. line = 8 + Min(ready2)
    BY <2>2, <2>3 DEF ChipOf, Pin, Line
  <2>5. Chosen(pic) = line
    BY <2>4, <1>5 DEF Chosen
  <2> QED BY <2>2, <2>3, <2>5 DEF Vector, ChipOf, Pin, Line, PIC_IRQ_VECTOR_OFFSET
<1>6. CASE ~(Min(ready1) = 2 /\ ready2 # {})
  <2>1. Min(ready1) \in pic[1].irr
    BY <1>3, <1>4, <1>6
  <2>2. PICK line \in devices \cup {IRQ_UART_COM1} :
               1 = ChipOf(line) /\ Min(ready1) = Pin(line)
    BY <2>1 DEF Requests
  <2>3. line \in Line
    BY DEF Typed, Line, IRQ_UART_COM1
  <2>4. line = Min(ready1)
    BY <2>2, <2>3 DEF ChipOf, Pin, Line
  <2>5. Chosen(pic) = line
    BY <2>4, <1>6 DEF Chosen
  <2> QED BY <2>2, <2>3, <2>5 DEF Vector, ChipOf, Pin, Line, PIC_IRQ_VECTOR_OFFSET
<1> QED BY <1>5, <1>6

-----------------------------------------------------------------------------
(* What the invariant speaks of besides the controllers and kstage1's      *)
(* place in its own code.                                                  *)
seen == <<IF_, saved, idt, handler, machine, service>>

(* A step that at most raises a line preserves the invariant, also when it *)
(* is one of UART::initialize.                                             *)
LEMMA RaisePreserves ==
  ASSUME IInv, UNCHANGED seen,
         \/ UNCHANGED <<pc, at>>
         \/ pc = "uart" /\ pc' = "uart" /\ at' \in 0 .. 6
         \/ pc = "uart" /\ pc' = "disable_all" /\ at' = 0,
         NEW line \in devices \cup {IRQ_UART_COM1},
         pic' = pic \/ pic' = Raise(pic, line)
  PROVE  IInv'
<1> USE DEF seen, machine
<1>1. line \in Line
  BY DEF IInv, Typed, Line, IRQ_UART_COM1
<1>2. CASE pic' = pic
  BY <1>2 DEF IInv, Typed, Enabled, Remapping, Remapped, MasksSurviveRemap, Requests,
              InService, LinesHaveTheirVectors, OnlyOthersHalt
<1>3. CASE pic' = Raise(pic, line)
  <2>1. /\ pic' \in [1 .. 2 -> ChipType]
        /\ \A c \in 1 .. 2 :
               /\ pic'[c].mask = pic[c].mask
               /\ pic'[c].base = pic[c].base
               /\ pic'[c].expects = pic[c].expects
               /\ pic'[c].isr = pic[c].isr
               /\ \A p \in pic'[c].irr \ pic[c].irr :
                     c = ChipOf(line) /\ p = Pin(line)
    BY <1>1, <1>3, RaiseAddsRequest DEF IInv
  <2>2. Typed' /\ Enabled' /\ LinesHaveTheirVectors' /\ OnlyOthersHalt'
    BY <2>1 DEF IInv, Typed, Enabled, LinesHaveTheirVectors, OnlyOthersHalt
  <2>3. Remapping' /\ Remapped' /\ MasksSurviveRemap' /\ InService'
    BY <2>1 DEF IInv, Remapping, Remapped, MasksSurviveRemap, InService
  <2>4. Requests'
    BY <2>1 DEF IInv, Requests
  <2> QED BY <2>2, <2>3, <2>4 DEF IInv
<1> QED BY <1>2, <1>3

-----------------------------------------------------------------------------
(* One lemma per step of kstage1.                                          *)

LEMMA InitEstablishes ==
  ASSUME Init
  PROVE  IInv
<1> USE InterruptsAssumption DEF Init
<1>1. firmware \in Byte \X Byte /\ devices \subseteq Line \ {2, IRQ_UART_COM1}
  OBVIOUS
<1>2. Typed
  BY <1>1 DEF Typed, ChipType, Byte, Line, PIC_IRQ_VECTOR_OFFSET
<1>3. Remapping /\ Remapped /\ MasksSurviveRemap /\ Requests
  BY DEF Remapping, Remapped, MasksSurviveRemap, Requests
<1>4. Enabled /\ InService /\ LinesHaveTheirVectors /\ OnlyOthersHalt
  BY DEF Enabled, InService, LinesHaveTheirVectors, OnlyOthersHalt, PIC_IRQ_VECTOR_OFFSET
<1> QED BY <1>2, <1>3, <1>4 DEF IInv

LEMMA CliPreserves ==
  ASSUME IInv, cli
  PROVE  IInv'
<1> USE DEF IInv, cli, Main, Done, Quiet, machine, After
<1>1. Typed' /\ Enabled'
  BY DEF Typed, Enabled
<1>2. Remapping' /\ Remapped' /\ MasksSurviveRemap'
  BY DEF Remapping, Remapped, MasksSurviveRemap, Expected
<1>3. Requests' /\ InService' /\ LinesHaveTheirVectors' /\ OnlyOthersHalt'
  BY DEF Requests, InService, LinesHaveTheirVectors, OnlyOthersHalt
<1> QED BY <1>1, <1>2, <1>3

(* What one write does to the chip it goes to.                             *)
LEMMA InitialiseChip ==
  ASSUME NEW c \in ChipType, NEW r, r = WriteCommand(c, ICW1)
  PROVE  r \in ChipType /\ r.irr = {} /\ r.isr = {} /\ r.expects = "icw2"
<1>1. ICW1 # PIC_EOI
  BY DEF ICW1, PIC_EOI
<1>2. r = [c EXCEPT !.mask = 0, !.irr = {}, !.isr = {}, !.expects = "icw2"]
  BY <1>1 DEF WriteCommand
<1>3. 0 \in Byte
  BY DEF Byte
<1> QED BY <1>2, <1>3 DEF ChipType

LEMMA WriteIcw2 ==
  ASSUME NEW c \in ChipType, NEW value \in Byte, c.expects = "icw2"
  PROVE  /\ WriteData(c, value) \in ChipType
         /\ WriteData(c, value).base = value
         /\ WriteData(c, value).expects = "icw3"
         /\ WriteData(c, value).mask = c.mask
         /\ WriteData(c, value).irr = c.irr
         /\ WriteData(c, value).isr = c.isr
<1>1. WriteData(c, value) = [c EXCEPT !.base = value, !.expects = "icw3"]
  BY DEF WriteData
<1> QED BY <1>1 DEF ChipType

LEMMA WriteIcw3 ==
  ASSUME NEW c \in ChipType, NEW value \in Byte, c.expects = "icw3"
  PROVE  /\ WriteData(c, value) \in ChipType
         /\ WriteData(c, value) = [c EXCEPT !.expects = "icw4"]
<1>1. WriteData(c, value) = [c EXCEPT !.expects = "icw4"]
  BY DEF WriteData
<1> QED BY <1>1 DEF ChipType

LEMMA WriteIcw4 ==
  ASSUME NEW c \in ChipType, NEW value \in Byte, c.expects = "icw4"
  PROVE  /\ WriteData(c, value) \in ChipType
         /\ WriteData(c, value) = [c EXCEPT !.expects = "mask"]
<1>1. WriteData(c, value) = [c EXCEPT !.expects = "mask"]
  BY DEF WriteData
<1> QED BY <1>1 DEF ChipType

LEMMA WriteMask ==
  ASSUME NEW c \in ChipType, NEW value \in Byte, c.expects = "mask"
  PROVE  /\ WriteData(c, value) \in ChipType
         /\ WriteData(c, value) = [c EXCEPT !.mask = value]
<1>1. WriteData(c, value) = [c EXCEPT !.mask = value]
  BY DEF WriteData
<1> QED BY <1>1 DEF ChipType

(* Reading the masks, then the ten writes one after the other.             *)
LEMMA RemapPreserves ==
  ASSUME IInv, RemapPic
  PROVE  IInv'
<1> USE DEF IInv, RemapPic, Main, Done, Turn, Quiet, machine, After
<1>1. /\ pc = "remap" /\ handler = "none" /\ at \in 0 .. 10
      /\ pic \in [1 .. 2 -> ChipType]
      /\ firmware \in Byte \X Byte
      /\ saved \in Byte \X Byte
  BY DEF Remapping, Typed
<1>2. CASE at = 0
  <2>1. pic' = pic /\ saved' = <<pic[1].mask, pic[2].mask>> /\ at' = 1 /\ pc' = pc
    BY <1>2
  <2>2. Typed' /\ Enabled'
    BY <1>1, <2>1 DEF Typed, Enabled, ChipType
  <2>3. Remapping'
    BY <1>1, <1>2, <2>1 DEF Remapping, Expected
  <2>4. Remapped' /\ MasksSurviveRemap' /\ Requests' /\ InService'
        /\ LinesHaveTheirVectors' /\ OnlyOthersHalt'
    BY <1>1, <2>1 DEF Remapped, MasksSurviveRemap, Requests, InService,
                     LinesHaveTheirVectors, OnlyOthersHalt
  <2> QED BY <2>2, <2>3, <2>4
<1>3. CASE at > 0
  <2> DEFINE write == remap_pic(firmware[1], firmware[2])[at]
             Result ==
               /\ pic' \in [1 .. 2 -> ChipType]
               /\ \A d \in 1 .. 2 : /\ pic'[d].irr \subseteq pic[d].irr
                                    /\ pic'[d].isr \subseteq pic[d].isr
               /\ pic'[1].expects = Expected(at + 1)
               /\ pic'[2].expects = Expected(at)
               /\ at > 2 => pic'[1].base = PIC_IRQ_VECTOR_OFFSET
               /\ at > 3 => pic'[2].base = PIC_IRQ_VECTOR_OFFSET + 8
               /\ at > 8 => pic'[1].mask = firmware[1]
               /\ at > 9 => pic'[2].mask = firmware[2]
  <2>1. saved[1] = firmware[1] /\ saved[2] = firmware[2]
    BY <1>1, <1>3 DEF Remapping
  <2>2. Len(remap_pic(firmware[1], firmware[2])) = 10
    BY DEF remap_pic
  <2>3. /\ pic' = Write(pic, write)
        /\ saved' = saved
        /\ IF at = 10 THEN pc' = "install" /\ at' = 0 ELSE pc' = pc /\ at' = at + 1
    BY <1>1, <1>3, <2>1, <2>2
  <2>4. /\ pic[1].expects = Expected(at)
        /\ pic[2].expects = Expected(at - 1)
        /\ at > 3 => pic[1].base = PIC_IRQ_VECTOR_OFFSET
        /\ at > 4 => pic[2].base = PIC_IRQ_VECTOR_OFFSET + 8
        /\ at > 9 => pic[1].mask = firmware[1]
    BY <1>1, <1>3 DEF Remapping
  <2>5. /\ pic \in [1 .. 2 -> ChipType]
        /\ pic[1] \in ChipType /\ pic[2] \in ChipType
        /\ firmware[1] \in Byte /\ firmware[2] \in Byte
    BY <1>1
  <2> HIDE DEF IInv, RemapPic, Main, Done, Turn, Quiet, machine, After
  <2>6. ASSUME at = 1 PROVE Result
    <3>1. pic' = [pic EXCEPT ![1] = WriteCommand(pic[1], ICW1)]
      BY <2>3, <2>6 DEF remap_pic, Write, Command
    <3>2. pic'[1] = WriteCommand(pic[1], ICW1) /\ pic'[2] = pic[2]
      BY <2>5, <3>1
    <3> QED BY <2>4, <2>5, <2>6, <3>1, <3>2, InitialiseChip DEF Expected
  <2>7. ASSUME at = 2 PROVE Result
    <3>1. pic' = [pic EXCEPT ![2] = WriteCommand(pic[2], ICW1)]
      BY <2>3, <2>7 DEF remap_pic, Write, Command
    <3>2. pic'[2] = WriteCommand(pic[2], ICW1) /\ pic'[1] = pic[1]
      BY <2>5, <3>1
    <3> QED BY <2>4, <2>5, <2>7, <3>1, <3>2, InitialiseChip DEF Expected
  <2>8. ASSUME at = 3 PROVE Result
    <3>1. pic' = [pic EXCEPT ![1] = WriteData(pic[1], PIC_IRQ_VECTOR_OFFSET)]
      BY <2>3, <2>8 DEF remap_pic, Write, Data
    <3>2. pic'[1] = WriteData(pic[1], PIC_IRQ_VECTOR_OFFSET) /\ pic'[2] = pic[2]
      BY <2>5, <3>1
    <3>3. pic[1].expects = "icw2"
      BY <2>4, <2>8 DEF Expected
    <3>4. PIC_IRQ_VECTOR_OFFSET \in Byte
      BY DEF Byte, PIC_IRQ_VECTOR_OFFSET
    <3>5. /\ pic'[1] \in ChipType /\ pic'[1].expects = "icw3"
          /\ pic'[1].irr = pic[1].irr /\ pic'[1].isr = pic[1].isr
          /\ pic'[1].base = PIC_IRQ_VECTOR_OFFSET /\ pic'[1].mask = pic[1].mask
      BY <2>5, <3>2, <3>3, <3>4, WriteIcw2
    <3> QED BY <2>4, <2>5, <2>8, <3>1, <3>2, <3>5 DEF Expected
  <2>9. ASSUME at = 4 PROVE Result
    <3>1. pic' = [pic EXCEPT ![2] = WriteData(pic[2], PIC_IRQ_VECTOR_OFFSET + 8)]
      BY <2>3, <2>9 DEF remap_pic, Write, Data
    <3>2. pic'[2] = WriteData(pic[2], PIC_IRQ_VECTOR_OFFSET + 8) /\ pic'[1] = pic[1]
      BY <2>5, <3>1
    <3>3. pic[2].expects = "icw2"
      BY <2>4, <2>9 DEF Expected
    <3>4. PIC_IRQ_VECTOR_OFFSET + 8 \in Byte
      BY DEF Byte, PIC_IRQ_VECTOR_OFFSET
    <3>5. /\ pic'[2] \in ChipType /\ pic'[2].expects = "icw3"
          /\ pic'[2].irr = pic[2].irr /\ pic'[2].isr = pic[2].isr
          /\ pic'[2].base = PIC_IRQ_VECTOR_OFFSET + 8 /\ pic'[2].mask = pic[2].mask
      BY <2>5, <3>2, <3>3, <3>4, WriteIcw2
    <3> QED BY <2>4, <2>5, <2>9, <3>1, <3>2, <3>5 DEF Expected
  <2>10. ASSUME at = 5 PROVE Result
    <3>1. pic' = [pic EXCEPT ![1] = WriteData(pic[1], 4)]
      BY <2>3, <2>10 DEF remap_pic, Write, Data
    <3>2. pic'[1] = WriteData(pic[1], 4) /\ pic'[2] = pic[2]
      BY <2>5, <3>1
    <3>3. pic[1].expects = "icw3"
      BY <2>4, <2>10 DEF Expected
    <3>4. 4 \in Byte
      BY DEF Byte
    <3>5. /\ pic'[1] \in ChipType /\ pic'[1].expects = "icw4"
          /\ pic'[1].irr = pic[1].irr /\ pic'[1].isr = pic[1].isr
          /\ pic'[1].base = pic[1].base /\ pic'[1].mask = pic[1].mask
      BY <2>5, <3>2, <3>3, <3>4, WriteIcw3 DEF ChipType
    <3> QED BY <2>4, <2>5, <2>10, <3>1, <3>2, <3>5 DEF Expected
  <2>11. ASSUME at = 6 PROVE Result
    <3>1. pic' = [pic EXCEPT ![2] = WriteData(pic[2], 2)]
      BY <2>3, <2>11 DEF remap_pic, Write, Data
    <3>2. pic'[2] = WriteData(pic[2], 2) /\ pic'[1] = pic[1]
      BY <2>5, <3>1
    <3>3. pic[2].expects = "icw3"
      BY <2>4, <2>11 DEF Expected
    <3>4. 2 \in Byte
      BY DEF Byte
    <3>5. /\ pic'[2] \in ChipType /\ pic'[2].expects = "icw4"
          /\ pic'[2].irr = pic[2].irr /\ pic'[2].isr = pic[2].isr
          /\ pic'[2].base = pic[2].base /\ pic'[2].mask = pic[2].mask
      BY <2>5, <3>2, <3>3, <3>4, WriteIcw3 DEF ChipType
    <3> QED BY <2>4, <2>5, <2>11, <3>1, <3>2, <3>5 DEF Expected
  <2>12. ASSUME at = 7 PROVE Result
    <3>1. pic' = [pic EXCEPT ![1] = WriteData(pic[1], ICW4_8086)]
      BY <2>3, <2>12 DEF remap_pic, Write, Data
    <3>2. pic'[1] = WriteData(pic[1], ICW4_8086) /\ pic'[2] = pic[2]
      BY <2>5, <3>1
    <3>3. pic[1].expects = "icw4"
      BY <2>4, <2>12 DEF Expected
    <3>4. ICW4_8086 \in Byte
      BY DEF Byte, ICW4_8086
    <3>5. /\ pic'[1] \in ChipType /\ pic'[1].expects = "mask"
          /\ pic'[1].irr = pic[1].irr /\ pic'[1].isr = pic[1].isr
          /\ pic'[1].base = pic[1].base /\ pic'[1].mask = pic[1].mask
      BY <2>5, <3>2, <3>3, <3>4, WriteIcw4 DEF ChipType
    <3> QED BY <2>4, <2>5, <2>12, <3>1, <3>2, <3>5 DEF Expected
  <2>13. ASSUME at = 8 PROVE Result
    <3>1. pic' = [pic EXCEPT ![2] = WriteData(pic[2], ICW4_8086)]
      BY <2>3, <2>13 DEF remap_pic, Write, Data
    <3>2. pic'[2] = WriteData(pic[2], ICW4_8086) /\ pic'[1] = pic[1]
      BY <2>5, <3>1
    <3>3. pic[2].expects = "icw4"
      BY <2>4, <2>13 DEF Expected
    <3>4. ICW4_8086 \in Byte
      BY DEF Byte, ICW4_8086
    <3>5. /\ pic'[2] \in ChipType /\ pic'[2].expects = "mask"
          /\ pic'[2].irr = pic[2].irr /\ pic'[2].isr = pic[2].isr
          /\ pic'[2].base = pic[2].base /\ pic'[2].mask = pic[2].mask
      BY <2>5, <3>2, <3>3, <3>4, WriteIcw4 DEF ChipType
    <3> QED BY <2>4, <2>5, <2>13, <3>1, <3>2, <3>5 DEF Expected
  <2>14. ASSUME at = 9 PROVE Result
    <3>1. pic' = [pic EXCEPT ![1] = WriteData(pic[1], firmware[1])]
      BY <2>3, <2>14 DEF remap_pic, Write, Data
    <3>2. pic'[1] = WriteData(pic[1], firmware[1]) /\ pic'[2] = pic[2]
      BY <2>5, <3>1
    <3>3. pic[1].expects = "mask"
      BY <2>4, <2>14 DEF Expected
    <3>4. firmware[1] \in Byte
      BY <2>5
    <3>5. /\ pic'[1] \in ChipType /\ pic'[1].expects = "mask"
          /\ pic'[1].irr = pic[1].irr /\ pic'[1].isr = pic[1].isr
          /\ pic'[1].base = pic[1].base /\ pic'[1].mask = firmware[1]
      BY <2>5, <3>2, <3>3, <3>4, WriteMask DEF ChipType
    <3> QED BY <2>4, <2>5, <2>14, <3>1, <3>2, <3>5 DEF Expected
  <2>15. ASSUME at = 10 PROVE Result
    <3>1. pic' = [pic EXCEPT ![2] = WriteData(pic[2], firmware[2])]
      BY <2>3, <2>15 DEF remap_pic, Write, Data
    <3>2. pic'[2] = WriteData(pic[2], firmware[2]) /\ pic'[1] = pic[1]
      BY <2>5, <3>1
    <3>3. pic[2].expects = "mask"
      BY <2>4, <2>15 DEF Expected
    <3>4. firmware[2] \in Byte
      BY <2>5
    <3>5. /\ pic'[2] \in ChipType /\ pic'[2].expects = "mask"
          /\ pic'[2].irr = pic[2].irr /\ pic'[2].isr = pic[2].isr
          /\ pic'[2].base = pic[2].base /\ pic'[2].mask = firmware[2]
      BY <2>5, <3>2, <3>3, <3>4, WriteMask DEF ChipType
    <3> QED BY <2>4, <2>5, <2>15, <3>1, <3>2, <3>5 DEF Expected
  <2>16. Result
    BY <1>1, <1>3, <2>6, <2>7, <2>8, <2>9, <2>10, <2>11, <2>12, <2>13, <2>14, <2>15
  <2> HIDE DEF Result
  <2>17. Typed' /\ Enabled'
    BY <1>1, <1>3, <2>3, <2>16 DEF Typed, Enabled, Result, IInv, RemapPic, Quiet, machine
  <2>18. Remapping'
    BY <1>1, <1>3, <2>1, <2>3, <2>16 DEF Remapping, Result, Typed, IInv, RemapPic, Quiet, machine
  <2>19. Remapped' /\ MasksSurviveRemap'
    BY <1>1, <1>3, <2>3, <2>16 DEF Remapped, MasksSurviveRemap, Result,
       Expected, IInv, RemapPic, Quiet, machine
  <2>20. Requests' /\ InService'
    BY <1>1, <2>16 DEF Requests, InService, Result, IInv, RemapPic, Quiet, machine
  <2>21. LinesHaveTheirVectors' /\ OnlyOthersHalt'
    BY DEF LinesHaveTheirVectors, OnlyOthersHalt, IInv, RemapPic, Quiet, machine
  <2> QED BY <2>17, <2>18, <2>19, <2>20, <2>21 DEF IInv
<1> QED BY <1>1, <1>2, <1>3

LEMMA InstallPreserves ==
  ASSUME IInv, InstallHandlers
  PROVE  IInv'
<1> USE DEF IInv, InstallHandlers, Main, Done, Quiet, machine, After
<1>1. Typed' /\ Enabled'
  BY DEF Typed, Enabled
<1>2. Remapping' /\ Remapped' /\ MasksSurviveRemap'
  BY DEF Remapping, Remapped, MasksSurviveRemap
<1>3. Requests' /\ InService' /\ LinesHaveTheirVectors' /\ OnlyOthersHalt'
  BY DEF Requests, InService, LinesHaveTheirVectors, OnlyOthersHalt
<1> QED BY <1>1, <1>2, <1>3

LEMMA UartInitializePreserves ==
  ASSUME IInv, UartInitialize
  PROVE  IInv'
<1>1. pc = "uart" /\ at \in 0 .. 6
  BY DEF IInv, Enabled, UartInitialize, Main
<1>2. pic' = pic \/ pic' = Raise(pic, IRQ_UART_COM1)
  <2> USE DEF UartInitialize, Uart
  <2> HIDE DEF IInv
  <2>1. CASE at = 0
    BY <2>1
  <2>2. CASE at = 1
    BY <2>2
  <2>3. CASE at = 2
    BY <2>3
  <2>4. CASE at = 3
    BY <2>4
  <2>5. CASE at = 4
    BY <2>5
  <2>6. CASE at = 5
    BY <2>6
  <2>7. CASE at = 6
    BY <2>7
  <2> QED BY <1>1, <2>1, <2>2, <2>3, <2>4, <2>5, <2>6, <2>7
<1>3. UNCHANGED seen
  BY DEF UartInitialize, Quiet, seen, machine
<1>4. \/ pc' = "uart" /\ at' \in 0 .. 6
      \/ pc' = "disable_all" /\ at' = 0
  BY <1>1 DEF UartInitialize, Done, Turn, After
<1> QED BY <1>1, <1>2, <1>3, <1>4, RaisePreserves

LEMMA DisableAllPreserves ==
  ASSUME IInv, DisableAll
  PROVE  IInv'
<1> USE DEF IInv, DisableAll, Mask, Main, Done, Quiet, machine, After
<1>1. /\ pic \in [1 .. 2 -> ChipType]
      /\ pic[1] \in ChipType /\ pic[2] \in ChipType /\ 0 \in Byte
      /\ pic[1].expects = "mask" /\ pic[2].expects = "mask"
  BY DEF Typed, Remapped, Byte
<1>2. pic' = [pic EXCEPT ![1] = WriteData(pic[1], 0), ![2] = WriteData(pic[2], 0)]
  BY DEF disable_all_interrupts
<1>3. /\ pic'[1] = [pic[1] EXCEPT !.mask = 0]
      /\ pic'[2] = [pic[2] EXCEPT !.mask = 0]
      /\ pic'[1] \in ChipType /\ pic'[2] \in ChipType
  BY <1>1, <1>2, WriteMask
<1>4. \A c \in 1 .. 2 : /\ pic'[c].base = pic[c].base
                        /\ pic'[c].expects = pic[c].expects
                        /\ pic'[c].irr = pic[c].irr
                        /\ pic'[c].isr = pic[c].isr
  BY <1>1, <1>3 DEF ChipType
<1>5. Typed' /\ Enabled'
  BY <1>1, <1>2, <1>3 DEF Typed, Enabled
<1>6. Remapping' /\ Remapped' /\ MasksSurviveRemap'
  BY <1>4 DEF Remapping, Remapped, MasksSurviveRemap
<1>7. Requests' /\ InService' /\ LinesHaveTheirVectors' /\ OnlyOthersHalt'
  BY <1>4 DEF Requests, InService, LinesHaveTheirVectors, OnlyOthersHalt
<1> QED BY <1>5, <1>6, <1>7

LEMMA EnableCom1Preserves ==
  ASSUME IInv, EnableCom1
  PROVE  IInv'
<1> USE DEF IInv, EnableCom1, Mask, Main, Done, Quiet, machine, After
<1> DEFINE value == ClearBit(pic[1].mask, 4)
<1>1. /\ pic \in [1 .. 2 -> ChipType]
      /\ pic[1] \in ChipType /\ pic[2] \in ChipType
      /\ pic[1].expects = "mask"
  BY DEF Typed, Remapped
<1>2. value \in Byte
  <2>1. pic[1].mask \in 0 .. 255
    BY <1>1 DEF ChipType, Byte
  <2>2. 2 ^ 4 = 16
    OBVIOUS
  <2> QED BY <2>1, <2>2 DEF ClearBit, Bit, Byte
<1>3. pic' = [pic EXCEPT ![1] = WriteData(pic[1], value)]
  BY DEF enable_interrupt, ChipOf, Pin, IRQ_UART_COM1
<1> HIDE DEF value
<1>4. pic'[1] = [pic[1] EXCEPT !.mask = value] /\ pic'[1] \in ChipType /\ pic'[2] = pic[2]
  BY <1>1, <1>2, <1>3, WriteMask
<1>5. \A c \in 1 .. 2 : /\ pic'[c].base = pic[c].base
                        /\ pic'[c].expects = pic[c].expects
                        /\ pic'[c].irr = pic[c].irr
                        /\ pic'[c].isr = pic[c].isr
  BY <1>1, <1>4 DEF ChipType
<1>6. Typed' /\ Enabled'
  BY <1>1, <1>3, <1>4 DEF Typed, Enabled
<1>7. Remapping' /\ Remapped' /\ MasksSurviveRemap'
  BY <1>5 DEF Remapping, Remapped, MasksSurviveRemap
<1>8. Requests' /\ InService' /\ LinesHaveTheirVectors' /\ OnlyOthersHalt'
  BY <1>5 DEF Requests, InService, LinesHaveTheirVectors, OnlyOthersHalt
<1> QED BY <1>6, <1>7, <1>8

LEMMA StiPreserves ==
  ASSUME IInv, sti
  PROVE  IInv'
<1> USE DEF IInv, sti, Main, Done, Quiet, machine, After
<1>1. Typed' /\ Enabled'
  BY DEF Typed, Enabled
<1>2. Remapping' /\ Remapped' /\ MasksSurviveRemap'
  BY DEF Remapping, Remapped, MasksSurviveRemap
<1>3. Requests' /\ InService' /\ LinesHaveTheirVectors' /\ OnlyOthersHalt'
  BY DEF Requests, InService, LinesHaveTheirVectors, OnlyOthersHalt
<1> QED BY <1>1, <1>2, <1>3

-----------------------------------------------------------------------------
(* One lemma per step of an interrupt.                                     *)

LEMMA InterruptPreserves ==
  ASSUME IInv, Interrupt
  PROVE  IInv'
<1> DEFINE line == Chosen(pic)
           vector == Vector(pic, line)
<1>1. /\ pc = "running" /\ handler = "none" /\ Pending(pic)
      /\ pic' = Acknowledge(pic, line)
      /\ service' = [line |-> line, vector |-> vector]
      /\ handler' = IF vector \in idt /\ vector = PIC_IRQ_VECTOR_OFFSET + IRQ_UART_COM1
                    THEN "read" ELSE "halted"
      /\ IF_' = FALSE
      /\ UNCHANGED <<pc, at, saved, idt, devices, firmware>>
  BY DEF IInv, Enabled, Interrupt, machine
<1>2. /\ pic \in [1 .. 2 -> ChipType]
      /\ pic[1] \in ChipType /\ pic[2] \in ChipType
      /\ pic[1].isr = {} /\ pic[2].isr = {}
      /\ pic[1].base = PIC_IRQ_VECTOR_OFFSET /\ pic[2].base = PIC_IRQ_VECTOR_OFFSET + 8
      /\ pic[1].expects = "mask" /\ pic[2].expects = "mask"
      /\ idt = Handlers
  BY <1>1 DEF IInv, Typed, InService, Remapped, Enabled
<1>3. line \in devices \cup {IRQ_UART_COM1} /\ vector = PIC_IRQ_VECTOR_OFFSET + line
  BY <1>1, <1>2, ChosenLine DEF IInv
<1> HIDE DEF line, vector
<1>4. line \in Line
  <2>1. devices \subseteq Line /\ IRQ_UART_COM1 \in Line
    BY DEF IInv, Typed, Line, IRQ_UART_COM1
  <2> QED BY <1>3, <2>1
<1>5. /\ pic' \in [1 .. 2 -> ChipType]
      /\ \A c \in 1 .. 2 : /\ pic'[c].base = pic[c].base
                           /\ pic'[c].expects = pic[c].expects
                           /\ pic'[c].irr \subseteq pic[c].irr
      /\ line = 4 => pic'[1].isr = {4} /\ pic'[2].isr = {}
  <2>1. CASE line < 8
    <3>1. pic' = [pic EXCEPT ![1] = Serve(pic[1], line)] /\ line \in 0 .. 7
      BY <1>1, <1>2, <1>4, <2>1 DEF Acknowledge, Line
    <3>2. pic'[1] = Serve(pic[1], line) /\ pic'[2] = pic[2]
      BY <1>2, <3>1
    <3>3. /\ Serve(pic[1], line) \in ChipType
          /\ Serve(pic[1], line).base = pic[1].base
          /\ Serve(pic[1], line).expects = pic[1].expects
          /\ Serve(pic[1], line).irr \subseteq pic[1].irr
          /\ Serve(pic[1], line).isr = {line}
      BY <1>2, <3>1 DEF Serve, ChipType
    <3> QED BY <1>2, <3>1, <3>2, <3>3
  <2>2. CASE line >= 8
    <3>1. /\ pic' = [pic EXCEPT ![1] = Serve(pic[1], 2), ![2] = Serve(pic[2], line - 8)]
          /\ line - 8 \in 0 .. 7
      BY <1>1, <1>2, <1>4, <2>2 DEF Acknowledge, Line
    <3>2. pic'[1] = Serve(pic[1], 2) /\ pic'[2] = Serve(pic[2], line - 8)
      BY <1>2, <3>1
    <3>3. \A c \in 1 .. 2 : \A p \in 0 .. 7 :
             /\ Serve(pic[c], p) \in ChipType
             /\ Serve(pic[c], p).base = pic[c].base
             /\ Serve(pic[c], p).expects = pic[c].expects
             /\ Serve(pic[c], p).irr \subseteq pic[c].irr
      BY <1>2 DEF Serve, ChipType
    <3> QED BY <1>2, <2>2, <3>1, <3>2, <3>3
  <2> QED BY <1>4, <2>1, <2>2 DEF Line
<1>6. /\ handler' \in {"read", "halted"}
      /\ handler' = "read" => line = 4
      /\ handler' = "halted" => line \in devices
  BY <1>1, <1>2, <1>3, <1>4 DEF Handlers, PIC_IRQ_VECTOR_OFFSET, IRQ_UART_COM1, Line
<1>7. service'.line = line /\ service'.vector = vector
      /\ service' \in [line : Line, vector : Byte]
  BY <1>1, <1>3, <1>4 DEF Line, Byte, PIC_IRQ_VECTOR_OFFSET
<1>8. Typed' /\ Enabled'
  BY <1>1, <1>2, <1>5, <1>6, <1>7 DEF IInv, Typed, Enabled
<1>9. Remapping' /\ Remapped' /\ MasksSurviveRemap'
  BY <1>1, <1>2, <1>5 DEF Remapping, Remapped, MasksSurviveRemap
<1>10. Requests' /\ InService'
  BY <1>1, <1>5, <1>6 DEF IInv, Requests, InService
<1>11. LinesHaveTheirVectors' /\ OnlyOthersHalt'
  BY <1>1, <1>3, <1>6, <1>7 DEF LinesHaveTheirVectors, OnlyOthersHalt
<1> QED BY <1>8, <1>9, <1>10, <1>11 DEF IInv

(* A step of the handler that leaves what is in service alone.             *)
LEMMA HandlerPreserves ==
  ASSUME IInv, Interrupted,
         \/ pic' = pic
         \/ pic' = Raise(pic, IRQ_UART_COM1),
         \/ handler = "read" /\ handler' \in {"read", "eoi"} /\ UNCHANGED IF_
         \/ handler = "iret" /\ handler' = "none" /\ IF_' = TRUE
  PROVE  IInv'
<1> USE DEF Interrupted, machine
<1>1. /\ pic' \in [1 .. 2 -> ChipType]
      /\ \A c \in 1 .. 2 :
             /\ pic'[c].mask = pic[c].mask
             /\ pic'[c].base = pic[c].base
             /\ pic'[c].expects = pic[c].expects
             /\ pic'[c].isr = pic[c].isr
             /\ \A p \in pic'[c].irr \ pic[c].irr :
                   c = ChipOf(IRQ_UART_COM1) /\ p = Pin(IRQ_UART_COM1)
  <2>1. IRQ_UART_COM1 \in Line /\ pic \in [1 .. 2 -> ChipType]
    BY DEF IInv, Typed, Line, IRQ_UART_COM1
  <2> QED BY <2>1, RaiseAddsRequest DEF IInv
<1>2. pc = "running"
  BY DEF IInv, Enabled
<1>3. Typed' /\ Enabled' /\ LinesHaveTheirVectors' /\ OnlyOthersHalt'
  BY <1>1, <1>2 DEF IInv, Typed, Enabled, LinesHaveTheirVectors, OnlyOthersHalt
<1>4. Remapping' /\ Remapped' /\ MasksSurviveRemap' /\ InService'
  BY <1>1, <1>2 DEF IInv, Remapping, Remapped, MasksSurviveRemap, InService
<1>5. Requests'
  BY <1>1 DEF IInv, Requests
<1> QED BY <1>3, <1>4, <1>5 DEF IInv

LEMMA EndOfInterruptPreserves ==
  ASSUME IInv, EndOfInterrupt
  PROVE  IInv'
<1> USE DEF EndOfInterrupt, InHandler, Interrupted, machine
<1>1. /\ pic \in [1 .. 2 -> ChipType]
      /\ pic[1] \in ChipType /\ pic[2] \in ChipType
      /\ pic[1].isr = {4} /\ pic[2].isr = {}
      /\ pc = "running"
  BY DEF IInv, Typed, InService, Enabled
<1>2. pic' = [pic EXCEPT ![1] = WriteCommand(pic[1], PIC_EOI)]
  <2>1. pic' = [pic EXCEPT ![1] = WriteCommand(pic[1], PIC_EOI), ![2] = pic[2]]
    BY DEF end_of_interrupt, IRQ_UART_COM1
  <2> QED BY <1>1, <2>1
<1>3. WriteCommand(pic[1], PIC_EOI) = [pic[1] EXCEPT !.isr = {4} \ {Min({4})}]
  <2>1. PIC_EOI # ICW1 /\ PIC_EOI = PIC_EOI
    BY DEF PIC_EOI, ICW1
  <2>2. pic[1].isr # {}
    BY <1>1
  <2> QED BY <1>1, <2>1, <2>2 DEF WriteCommand, ChipType
<1>4. {4} \ {Min({4})} = {}
  <2>1. Min({4}) \in {4}
    BY MinPin
  <2> QED BY <2>1
<1>5. /\ pic'[1] = [pic[1] EXCEPT !.isr = {}] /\ pic'[2] = pic[2]
      /\ pic' \in [1 .. 2 -> ChipType]
  BY <1>1, <1>2, <1>3, <1>4 DEF ChipType
<1>6. /\ \A c \in 1 .. 2 : /\ pic'[c].base = pic[c].base
                           /\ pic'[c].expects = pic[c].expects
                           /\ pic'[c].irr = pic[c].irr
      /\ pic'[1].isr = {} /\ pic'[2].isr = {}
  BY <1>1, <1>5 DEF ChipType
<1>7. Typed' /\ Enabled' /\ LinesHaveTheirVectors' /\ OnlyOthersHalt'
  BY <1>1, <1>5 DEF IInv, Typed, Enabled, LinesHaveTheirVectors, OnlyOthersHalt
<1>8. Remapping' /\ Remapped' /\ MasksSurviveRemap' /\ Requests' /\ InService'
  BY <1>1, <1>6 DEF IInv, Remapping, Remapped, MasksSurviveRemap, Requests, InService
<1> QED BY <1>7, <1>8 DEF IInv

LEMMA WorldPreserves ==
  ASSUME IInv, World
  PROVE  IInv'
<1> USE DEF World, Outside, machine
<1>1. UNCHANGED seen /\ UNCHANGED <<pc, at>>
  BY DEF Arrive, CharacterTimeout, Tick, seen
<1>2. CASE Arrive \/ CharacterTimeout
  <2>1. pic' = pic \/ pic' = Raise(pic, IRQ_UART_COM1)
    BY <1>2 DEF Arrive, CharacterTimeout, Uart
  <2> QED BY <1>1, <2>1, RaisePreserves
<1>3. ASSUME NEW line \in devices, Tick(line)
      PROVE  IInv'
  BY <1>1, <1>3, RaisePreserves DEF Tick
<1> QED BY <1>2, <1>3

-----------------------------------------------------------------------------
(* The invariant and what it says of the code.                             *)

LEMMA NextPreserves ==
  ASSUME IInv, [Next]_vars
  PROVE  IInv'
<1>1. CASE kstage1
  BY <1>1, CliPreserves, RemapPreserves, InstallPreserves, UartInitializePreserves,
     DisableAllPreserves, EnableCom1Preserves, StiPreserves DEF kstage1
<1>2. CASE Interrupt
  BY <1>2, InterruptPreserves
<1>3. CASE ReadNothing \/ ReadWaits \/ ReadByte \/ iret
  <2>1. Interrupted
    BY <1>3 DEF ReadNothing, ReadWaits, ReadByte, iret
  <2>2. pic' = pic \/ pic' = Raise(pic, IRQ_UART_COM1)
    BY <1>3 DEF ReadNothing, ReadWaits, ReadByte, iret, Uart
  <2>3. \/ handler = "read" /\ handler' \in {"read", "eoi"} /\ UNCHANGED IF_
        \/ handler = "iret" /\ handler' = "none" /\ IF_' = TRUE
    BY <1>3 DEF ReadNothing, ReadWaits, ReadByte, iret, InHandler
  <2> QED BY <2>1, <2>2, <2>3, HandlerPreserves
<1>4. CASE EndOfInterrupt
  BY <1>4, EndOfInterruptPreserves
<1>5. CASE World
  BY <1>5, WorldPreserves
<1>6. CASE UNCHANGED vars
  BY <1>6 DEF vars, machine, IInv, Typed, Enabled, Remapping, Remapped, MasksSurviveRemap,
              Requests, InService, LinesHaveTheirVectors, OnlyOthersHalt
<1> QED BY <1>1, <1>2, <1>3, <1>4, <1>5, <1>6 DEF Next, uart_com1_handler

\* The inductive invariant holds from kstage1's cli on, in every step of the
\* set-up, of the handler and of the world.
THEOREM Invariant == Spec => []IInv
<1>1. Init => IInv
  BY InitEstablishes
<1>2. IInv /\ [Next]_vars => IInv'
  BY NextPreserves
<1> QED BY <1>1, <1>2, PTL DEF Spec

\* After remap_pic every line of either chip arrives on the vector
\* PIC_IRQ_VECTOR_OFFSET above its number, above the processor's exceptions.
THEOREM LinesAlwaysHaveTheirVectors == Spec => []LinesHaveTheirVectors
<1>1. IInv => LinesHaveTheirVectors
  BY DEF IInv
<1> QED BY <1>1, Invariant, PTL

\* remap_pic leaves both masks as the firmware had them.
THEOREM MasksAlwaysSurvive == Spec => []MasksSurviveRemap
<1>1. IInv => MasksSurviveRemap
  BY DEF IInv
<1> QED BY <1>1, Invariant, PTL

\* When uart_com1_handler has returned, its end_of_interrupt has taken its
\* line out of service on the chip it was served on.
THEOREM NothingStaysInService == Spec => []NothingLeftInService
<1>1. IInv => NothingLeftInService
  BY DEF IInv, InService, NothingLeftInService
<1> QED BY <1>1, Invariant, PTL

\* COM1's line always finds its handler; what halts the kernel is the line of
\* another device, for which prepare_interrupts installs none.
THEOREM OnlyUnhandledLinesHalt == Spec => []OnlyOthersHalt
<1>1. IInv => OnlyOthersHalt
  BY DEF IInv
<1> QED BY <1>1, Invariant, PTL

=============================================================================
