--------------------------------- MODULE PIC ---------------------------------
(***************************************************************************)
(* The two cascaded interrupt controllers (8259A) as the kernel uses them, *)
(* and the kernel's functions on their masks.  Lines 0 to 7 belong to chip *)
(* 1, lines 8 to 15 to chip 2, whose output is line 2 of chip 1.  Chips    *)
(* are edge-triggered: a request is latched when the line rises.           *)
(***************************************************************************)
EXTENDS Integers, FiniteSetsExt

PIC_IRQ_VECTOR_OFFSET == 32
PIC_EOI == 32
ICW1 == 17                 \* ICW1_INIT | ICW1_ICW4
ICW4_8086 == 1

Line == 0 .. 15
ChipOf(line) == IF line < 8 THEN 1 ELSE 2
Pin(line) == line % 8

Byte == 0 .. 255
Bit(value, i) == (value \div 2 ^ i) % 2 = 1

ClearBit(value, i) == IF Bit(value, i) THEN value - 2 ^ i ELSE value

\* A chip: its mask, latched requests, requests in service, vector of pin 0,
\* and what it takes the next write to its data port for.
ChipType == [mask : Byte, irr : SUBSET (0 .. 7), isr : SUBSET (0 .. 7),
             base : Byte, expects : {"mask", "icw2", "icw3", "icw4"}]

\* Initialisation forgets all requests and the mask.
WriteCommand(chip, value) ==
    CASE value = ICW1 ->
            [chip EXCEPT !.mask = 0, !.irr = {}, !.isr = {}, !.expects = "icw2"]
      [] value = PIC_EOI ->
            [chip EXCEPT !.isr = IF @ = {} THEN @ ELSE @ \ {Min(@)}]

WriteData(chip, value) ==
    CASE chip.expects = "icw2" -> [chip EXCEPT !.base = value, !.expects = "icw3"]
      [] chip.expects = "icw3" -> [chip EXCEPT !.expects = "icw4"]
      [] chip.expects = "icw4" -> [chip EXCEPT !.expects = "mask"]
      [] chip.expects = "mask" -> [chip EXCEPT !.mask = value]

\* The line rises.
Raise(pic, line) == [pic EXCEPT ![ChipOf(line)].irr = @ \cup {Pin(line)}]

\* The pins a chip may signal: latched, not masked, above all in service.
Ready(chip) ==
    {p \in chip.irr : ~Bit(chip.mask, p) /\ \A s \in chip.isr : p < s}

\* Chip 1 sees chip 2 on pin 2.
WithCascade(pic) ==
    IF Ready(pic[2]) = {} THEN pic[1] ELSE [pic[1] EXCEPT !.irr = @ \cup {2}]

\* The line the processor is given when it acknowledges.
Pending(pic) == Ready(WithCascade(pic)) # {} /\ pic[1].expects = "mask"
Chosen(pic) ==
    LET p == Min(Ready(WithCascade(pic))) IN
    IF p = 2 /\ Ready(pic[2]) # {} THEN 8 + Min(Ready(pic[2])) ELSE p

Serve(chip, p) == [chip EXCEPT !.irr = @ \ {p}, !.isr = @ \cup {p}]
Acknowledge(pic, line) ==
    IF line < 8
    THEN [pic EXCEPT ![1] = Serve(@, line)]
    ELSE [pic EXCEPT ![1] = Serve(@, 2), ![2] = Serve(@, line - 8)]

Vector(pic, line) == pic[ChipOf(line)].base + Pin(line)

-----------------------------------------------------------------------------
(* kernel/interrupts/interrupts.cc                                         *)

enable_interrupt(pic, irq) ==
    IF irq > 15 THEN pic
    ELSE [pic EXCEPT ![ChipOf(irq)] = WriteData(@, ClearBit(@.mask, Pin(irq)))]

\* Both masks are written as 0.
disable_all_interrupts(pic) ==
    [pic EXCEPT ![1] = WriteData(@, 0), ![2] = WriteData(@, 0)]

\* Mutant: no chip is told.
end_of_interrupt_None(pic, IRQx) == pic

end_of_interrupt(pic, IRQx) ==
    LET child == IF IRQx >= 8 THEN WriteCommand(pic[2], PIC_EOI) ELSE pic[2]
    IN  [pic EXCEPT ![1] = WriteCommand(@, PIC_EOI), ![2] = child]

\* remap_pic's writes after it has read the masks: port, chip, value.
Command(chip, value) == [port |-> "command", chip |-> chip, value |-> value]
Data(chip, value) == [port |-> "data", chip |-> chip, value |-> value]

\* Mutants: the second chip gets the first one's vectors; the masks are
\* written back before the chips have been told everything they wait for.
remap_pic_SameOffset(parentMasks, childMasks) ==
    << Command(1, ICW1), Command(2, ICW1),
       Data(1, PIC_IRQ_VECTOR_OFFSET), Data(2, PIC_IRQ_VECTOR_OFFSET),
       Data(1, 4), Data(2, 2), Data(1, ICW4_8086), Data(2, ICW4_8086),
       Data(1, parentMasks), Data(2, childMasks) >>
remap_pic_MasksEarly(parentMasks, childMasks) ==
    << Command(1, ICW1), Command(2, ICW1),
       Data(1, PIC_IRQ_VECTOR_OFFSET), Data(2, PIC_IRQ_VECTOR_OFFSET + 8),
       Data(1, 4), Data(2, 2), Data(1, parentMasks), Data(2, childMasks),
       Data(1, ICW4_8086), Data(2, ICW4_8086) >>

remap_pic(parentMasks, childMasks) ==
    << Command(1, ICW1), Command(2, ICW1),
       Data(1, PIC_IRQ_VECTOR_OFFSET), Data(2, PIC_IRQ_VECTOR_OFFSET + 8),
       Data(1, 4), Data(2, 2), Data(1, ICW4_8086), Data(2, ICW4_8086),
       Data(1, parentMasks), Data(2, childMasks) >>

Write(pic, w) ==
    [pic EXCEPT ![w.chip] = IF w.port = "command" THEN WriteCommand(@, w.value)
                                                  ELSE WriteData(@, w.value)]
=============================================================================
