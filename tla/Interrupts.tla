------------------------------ MODULE Interrupts ------------------------------
(***************************************************************************)
(* Interrupts from kstage1's cli on: remap_pic, the interrupt descriptor   *)
(* table, the receiving half of the COM1 driver, the masks, sti, and the   *)
(* interrupts of the running kernel.  Devices and the serial line act      *)
(* between any two steps of the processor.                                 *)
(*                                                                         *)
(* Every port write that a chip could tell from its neighbours is a step.  *)
(* Left out, because they change nothing here: what kstage1 does between   *)
(* these calls with interrupts off, baud rate, character format, output.   *)
(* arrived, taken and service are history.                                 *)
(***************************************************************************)
EXTENDS PIC, Sequences

CONSTANTS
    FirmwareMasks,   \* the masks the firmware may leave: pairs
    DeviceSets,      \* sets of lines, besides COM1's, whose devices interrupt
    Chips,           \* serial chips: [depth, trigger]; depth 1 is "no FIFO"
    maxSpins,        \* (uint16_t)1000000 = 16960
    MaxBytes         \* bound: bytes that arrive on the line

IRQ_UART_COM1 == 4

ASSUME InterruptsAssumption ==
    /\ FirmwareMasks \subseteq Byte \X Byte
    /\ \A D \in DeviceSets : D \subseteq Line \ {2, IRQ_UART_COM1}
    /\ Chips \subseteq [depth : Nat \ {0}, trigger : Nat \ {0}]
    /\ \A c \in Chips : c.trigger <= c.depth
    /\ maxSpins \in Nat \ {0}
    /\ MaxBytes \in Nat

VARIABLES
    pc, at,          \* the step of kstage1, and the turn within it
    IF_,             \* RFLAGS.IF
    saved,           \* parentMasks and childMasks
    pic,
    idt,             \* the vectors with a handler
    uart,
    Initialized,
    handler,         \* the interrupt handler that is running
    spins,           \* its maxSpins
    devices, chip, firmware,   \* chosen once
    service,         \* the last interrupt: its line and vector
    arrived, taken

machine == <<devices, chip, firmware>>
vars == <<pc, at, IF_, saved, pic, idt, uart, Initialized, handler, spins,
          machine, service, arrived, taken>>

-----------------------------------------------------------------------------
(* COM1: received bytes, and the request line to the interrupt controller. *)

Fresh == "line"        \* a byte from outside
TestByte == "0xae"

Receive(fifo, b) ==
    CASE chip.depth = 1 -> <<b>>
      [] chip.depth > 1 /\ Len(fifo) < chip.depth -> Append(fifo, b)
      [] chip.depth > 1 /\ Len(fifo) >= chip.depth -> fifo

Interrupting(u) ==
    /\ u.ier
    /\ ~u.loopback
    /\ u.fifo # <<>>
    /\ Len(u.fifo) >= chip.trigger \/ u.timeout

\* The chip changes; the controller sees its line rise.
Uart(u) ==
    /\ uart' = u
    /\ pic' = IF Interrupting(u) /\ ~Interrupting(uart)
              THEN Raise(pic, IRQ_UART_COM1) ELSE pic

-----------------------------------------------------------------------------
Init ==
    /\ pc = "cli"
    /\ at = 0
    /\ IF_ = FALSE                     \* _start's cli
    /\ saved = <<0, 0>>
    /\ firmware \in FirmwareMasks
    /\ devices \in DeviceSets
    /\ chip \in Chips
    /\ pic = [c \in 1 .. 2 |-> [mask |-> firmware[c], irr |-> {}, isr |-> {},
                                base |-> IF c = 1 THEN 8 ELSE 112,
                                expects |-> "mask"]]
    /\ idt = {}
    /\ uart \in [ier : BOOLEAN, loopback : {FALSE}, timeout : {FALSE},
                 fifo : {<<>>, <<Fresh>>}]
    /\ Initialized = FALSE
    /\ handler = "none"
    /\ spins = 0
    /\ service = [line |-> 0, vector |-> PIC_IRQ_VECTOR_OFFSET]
    /\ arrived = 0
    /\ taken = 0

\* Mutant: the serial port is set up before the controllers are remapped.
After_UartFirst ==
    [cli |-> "install", install |-> "uart", uart |-> "remap", remap |-> "disable_all",
     disable_all |-> "enable_com1", enable_com1 |-> "sti", sti |-> "running"]

\* The order of kstage1 and prepare_interrupts.
After ==
    [cli |-> "remap", remap |-> "install", install |-> "uart", uart |-> "disable_all",
     disable_all |-> "enable_com1", enable_com1 |-> "sti", sti |-> "running"]

Done == pc' = After[pc] /\ at' = 0
Turn == at' = at + 1 /\ UNCHANGED pc

\* The processor is in kstage1 or kmain.
Main(label) == pc = label /\ handler = "none"
Quiet == UNCHANGED <<handler, spins, machine, service, arrived, taken>>

cli ==
    /\ Main("cli")
    /\ IF_' = FALSE
    /\ Done
    /\ UNCHANGED <<saved, pic, idt, uart, Initialized>> /\ Quiet

RemapPic ==
    /\ Main("remap")
    /\ LET writes == remap_pic(saved[1], saved[2]) IN
       IF at = 0
       THEN /\ saved' = <<pic[1].mask, pic[2].mask>>
            /\ Turn
            /\ UNCHANGED pic
       ELSE /\ pic' = Write(pic, writes[at])
            /\ IF at = Len(writes) THEN Done ELSE Turn
            /\ UNCHANGED saved
    /\ UNCHANGED <<IF_, idt, uart, Initialized>> /\ Quiet

\* Mutant: the serial handler is installed at the number of its line.
Handlers_AtLine == {IRQ_UART_COM1, 0, 8, 12, 13, 14, 19}

\* uart_com1_handler, and the handlers of exceptions.
Handlers == {PIC_IRQ_VECTOR_OFFSET + IRQ_UART_COM1, 0, 8, 12, 13, 14, 19}

InstallHandlers ==
    /\ Main("install")
    /\ idt' = Handlers
    /\ Done
    /\ UNCHANGED <<IF_, saved, pic, uart, Initialized>> /\ Quiet

\* UART::initialize: interrupts off, FIFO cleared (where there is one), test
\* byte looped back and compared, loop-back off, interrupts on.  A failed test
\* returns with the chip looped back.
UartInitialize ==
    /\ Main("uart")
    /\ CASE at = 0 -> Uart([uart EXCEPT !.ier = FALSE])
         [] at = 1 -> IF chip.depth > 1
                      THEN Uart([uart EXCEPT !.fifo = <<>>, !.timeout = FALSE])
                      ELSE UNCHANGED <<uart, pic>>
         [] at = 2 -> Uart([uart EXCEPT !.loopback = TRUE])
         [] at = 3 -> Uart([uart EXCEPT !.fifo = Receive(@, TestByte)])
         [] at = 4 -> Uart([uart EXCEPT !.fifo = Tail(@), !.timeout = FALSE])
         [] at = 5 -> Uart([uart EXCEPT !.loopback = FALSE])
         [] at = 6 -> Uart([uart EXCEPT !.ier = TRUE])
    /\ Initialized' = (at = 6)
    /\ IF at = 6 \/ (at = 4 /\ Head(uart.fifo) # TestByte) THEN Done ELSE Turn
    /\ UNCHANGED <<IF_, saved, idt>> /\ Quiet

Mask(label, result) ==
    /\ Main(label)
    /\ pic' = result
    /\ Done
    /\ UNCHANGED <<IF_, saved, idt, uart, Initialized>> /\ Quiet

DisableAll == Mask("disable_all", disable_all_interrupts(pic))
EnableCom1 == Mask("enable_com1", enable_interrupt(pic, IRQ_UART_COM1))

sti ==
    /\ Main("sti")
    /\ IF_' = TRUE
    /\ Done
    /\ UNCHANGED <<saved, pic, idt, uart, Initialized>> /\ Quiet

kstage1 ==
    cli \/ RemapPic \/ InstallHandlers \/ UartInitialize \/ DisableAll \/ EnableCom1 \/ sti

-----------------------------------------------------------------------------
(* Interrupts.                                                             *)

\* The processor's response.  The gates are interrupt gates: handlers run
\* with interrupts off.  Through a gate that is not present it raises an
\* exception, that one's gate is not present either, and so it ends in
\* double_fault_handler; like all handlers of exceptions it panics and halts.
Interrupt ==
    /\ IF_
    /\ Pending(pic)
    /\ LET line   == Chosen(pic)
           vector == Vector(pic, line)
       IN /\ pic' = Acknowledge(pic, line)
          /\ service' = [line |-> line, vector |-> vector]
          /\ handler' = IF vector \in idt /\ vector = PIC_IRQ_VECTOR_OFFSET + IRQ_UART_COM1
                        THEN "read" ELSE "halted"
    /\ IF_' = FALSE
    /\ spins' = maxSpins
    /\ UNCHANGED <<pc, at, saved, idt, uart, Initialized, machine, arrived, taken>>

InHandler(label) == handler = label
Interrupted ==
    UNCHANGED <<pc, at, saved, idt, Initialized, machine, service, arrived>>

\* UART::read, called by uart_com1_handler: without a driver nothing is read.
ReadNothing ==
    /\ InHandler("read")
    /\ ~Initialized \/ spins = 0
    /\ handler' = "eoi"
    /\ UNCHANGED <<IF_, pic, uart, spins, taken>> /\ Interrupted

\* Mutant: the wait is not bounded.
ReadWaits_Forever ==
    /\ InHandler("read")
    /\ Initialized
    /\ uart.fifo = <<>>
    /\ UNCHANGED vars

ReadWaits ==
    /\ InHandler("read")
    /\ Initialized
    /\ uart.fifo = <<>>
    /\ spins > 0
    /\ spins' = spins - 1
    /\ UNCHANGED <<IF_, pic, uart, handler, taken>> /\ Interrupted

ReadByte ==
    /\ InHandler("read")
    /\ Initialized
    /\ uart.fifo # <<>>
    /\ spins > 0
    /\ Uart([uart EXCEPT !.fifo = Tail(@), !.timeout = FALSE])
    /\ taken' = taken + 1
    /\ handler' = "eoi"
    /\ UNCHANGED <<IF_, spins>> /\ Interrupted

EndOfInterrupt ==
    /\ InHandler("eoi")
    /\ pic' = end_of_interrupt(pic, IRQ_UART_COM1)
    /\ handler' = "iret"
    /\ UNCHANGED <<IF_, uart, spins, taken>> /\ Interrupted

iret ==
    /\ InHandler("iret")
    /\ IF_' = TRUE
    /\ handler' = "none"
    /\ UNCHANGED <<pic, uart, spins, taken>> /\ Interrupted

uart_com1_handler == ReadNothing \/ ReadWaits \/ ReadByte \/ EndOfInterrupt \/ iret

-----------------------------------------------------------------------------
(* The world outside the processor.                                        *)

Outside == UNCHANGED <<pc, at, IF_, saved, idt, Initialized, handler, spins,
                       machine, service, taken>>

\* A byte comes in on the serial line, or is lost on a chip looped back.
Arrive ==
    /\ arrived < MaxBytes
    /\ arrived' = arrived + 1
    /\ IF uart.loopback THEN UNCHANGED <<uart, pic>>
       ELSE Uart([uart EXCEPT !.fifo = Receive(@, Fresh)])
    /\ Outside

\* "Time-out Interrupt Pending": bytes have been waiting in the FIFO.
CharacterTimeout ==
    /\ chip.depth > 1
    /\ uart.fifo # <<>>
    /\ ~uart.timeout
    /\ Uart([uart EXCEPT !.timeout = TRUE])
    /\ UNCHANGED arrived /\ Outside

Tick(line) ==
    /\ Pin(line) \notin pic[ChipOf(line)].irr
    /\ pic' = Raise(pic, line)
    /\ UNCHANGED <<uart, arrived>> /\ Outside

World == Arrive \/ CharacterTimeout \/ \E line \in devices : Tick(line)

Next == kstage1 \/ Interrupt \/ uart_com1_handler \/ World

\* The processor goes on and takes interrupts that are pending, the serial
\* chip's clock runs.  Nobody has to send a byte and no device has to tick.
Spec ==
    /\ Init /\ [][Next]_vars
    /\ WF_vars(kstage1 \/ uart_com1_handler)
    /\ WF_vars(Interrupt)
    /\ WF_vars(CharacterTimeout)

-----------------------------------------------------------------------------
(* Properties.                                                             *)

\* "Remap PIC chip IRQs out of the way of General software Exceptions": each
\* line arrives on a vector of its own above them, whatever the firmware left,
\* whichever chip it is on and whenever it was raised.
LinesHaveTheirVectors == service.vector = PIC_IRQ_VECTOR_OFFSET + service.line

\* Initialising the chips clears their masks; remap_pic gives them back what
\* the firmware had set.
MasksSurviveRemap ==
    pc \in {"install", "uart", "disable_all"} =>
        /\ pic[1].mask = firmware[1]
        /\ pic[2].mask = firmware[2]

\* Between interrupts nothing is left in service, where it would block its
\* line and all below it for good.
NothingLeftInService ==
    handler = "none" => pic[1].isr = {} /\ pic[2].isr = {}

\* COM1 never brings the kernel down, with the driver working or not: only a
\* line without a handler does.
OnlyOthersHalt == handler = "halted" => service.line \in devices

\* The handler always returns, also when the request that called it is older
\* than the last clearing of the FIFO and there is no byte to be read.
HandlerReturns == handler \in {"read", "eoi", "iret"} ~> handler = "none"

\* A received byte is read, unless a line without a handler is raised, even
\* when it came while interrupts were still off.  FIFOs that hold the trigger
\* level or more are left out: the handler reads one byte, the line does not
\* fall, and so it never rises again.
Waiting(n) ==
    /\ pc = "running"
    /\ Initialized
    /\ uart.fifo # <<>>
    /\ Len(uart.fifo) < chip.trigger \/ chip.depth = 1
    /\ taken = n
ReceivedBytesAreRead ==
    \A n \in 0 .. MaxBytes : Waiting(n) ~> taken > n \/ handler = "halted"

\* "Disable all IRQs within the PIC masks."
DisableAllDisables ==
    [][DisableAll => pic'[1].mask = 255 /\ pic'[2].mask = 255]_vars
=============================================================================
