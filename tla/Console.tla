------------------------------- MODULE Console -------------------------------
(***************************************************************************)
(* The debug output of the kernel: dbgmsg and its formats in               *)
(* kernel/debug.cc, to_string in kernel/cstr.cc, and UART::out in          *)
(* kernel/uart.cc, on a serial line that may be slow or stuck.             *)
(*                                                                         *)
(* Characters are strings, texts sequences of them, "ESC" begins a colour  *)
(* code and "m" ends it.  Integers have Width[...] bits.  What va_arg      *)
(* yields next is the next of the call's arguments: callers pass what      *)
(* their formats ask for.  %p, which is %x, and %d, which is %i, are left  *)
(* out; so is the radix of %x, whose digits are as many for every value,   *)
(* and %f.  A text passed for %s has no '%' in it, and neither it nor a    *)
(* format has two colour codes in a row; a String does not end in one;     *)
(* numbers fit the buffer they are written to.                             *)
(***************************************************************************)
EXTENDS Integers, Sequences, FiniteSets, SequencesExt

CONSTANTS
    HideColors,   \* UART_HIDE_COLOR_CODES
    Width,        \* bits of 8-, 16-, 32- and 64-bit integers, by "hh", "h", "", "ll"
    BufferSize,   \* TO_STRING_BUF_SZ
    MaxSpins,     \* (uint16_t)1000000
    Scripts       \* [calls, initialized]: calls of dbgmsg, and whether the UART is
                  \* there; a call is a [fmt, args]

ASSUME ConsoleAssumption ==
    /\ HideColors \in BOOLEAN
    /\ BufferSize \in Nat \ {0}
    /\ MaxSpins \in Nat \ {0}

VARIABLES
    Initialized,  \* the UART
    calls,        \* calls still to be made, the first in progress
    stack,        \* dbgmsg_v's activations, innermost first: [text, current, args]
    todo,         \* characters UART::out has still to send
    maxSpins,
    holding,      \* the UART's transmit buffer
    wire,         \* what has left it
    uint_to_str_buf, int_to_str_buf,
    made,         \* history: the calls made
    sent,         \* history: what UART::out was called for
    dropped       \* history: indices in it of what it gave up

cvars == <<Initialized, calls, stack, todo, maxSpins, holding, wire,
           uint_to_str_buf, int_to_str_buf, made, sent, dropped>>

CharAt(s, i) == IF i \in DOMAIN s THEN s[i] ELSE "nul"

-----------------------------------------------------------------------------
(* cstr.cc                                                                 *)

Digit == <<"0", "1", "2", "3", "4", "5", "6", "7", "8", "9">>
Power == [i \in 0 .. BufferSize |-> FoldLeft(LAMBDA n, d : 10 * n, 1, [j \in 1 .. i |-> j])]
LastDigit(v) == CHOOSE i \in 0 .. BufferSize : v \div Power[i] < 10 /\ (i = 0 \/ v >= Power[i])

\* Mutant: the text is not terminated.
WriteDigits_Open(buf, first, v) ==
    LET length == LastDigit(v)
    IN  [i \in DOMAIN buf |->
            IF first <= i /\ i <= first + length
            THEN Digit[1 + ((v \div Power[first + length - i]) % 10)]
            ELSE buf[i]]

\* Decimal digits from index first on, and the terminator.
WriteDigits(buf, first, v) ==
    LET length == LastDigit(v)
    IN  [i \in DOMAIN buf |->
            CASE first <= i /\ i <= first + length -> Digit[1 + ((v \div Power[first + length - i]) % 10)]
              [] i = first + length + 1 -> "nul"
              [] OTHER -> buf[i]]

\* The text in a buffer, up to its terminator.
CString(buf) ==
    LET end == CHOOSE i \in DOMAIN buf :
                  /\ buf[i] = "nul" \/ i = BufferSize - 1
                  /\ \A j \in 0 .. i - 1 : buf[j] # "nul"
    IN  [i \in 1 .. end |-> buf[i - 1]]

int_to_string(buf, v) ==
    IF v < 0 THEN WriteDigits([buf EXCEPT ![0] = "-"], 1, -v) ELSE WriteDigits(buf, 0, v)

Unsigned(v, bits) == v % (2 ^ bits)
Signed(v, bits) == ((v + 2 ^ (bits - 1)) % (2 ^ bits)) - 2 ^ (bits - 1)

-----------------------------------------------------------------------------
(* The formats: how far the switch of dbgmsg_v reads on from the '%' at i,  *)
(* and what it finds.                                                      *)

Found(kind, next) == [kind |-> kind, next |-> next]

Joined(a, b) == a \o b

Conversion(s, i) ==
    LET c(k) == CharAt(s, i + k)
    IN  CASE c(1) = "nul" -> Found("end", i + 1)
          [] c(1) = "s" -> IF c(2) = "l" THEN Found("sl", i + 3) ELSE Found("s", i + 2)
          [] c(1) = "h" /\ c(2) \in {"i", "u"} -> Found(Joined(c(1), c(2)), i + 3)
          [] c(1) = "h" /\ c(2) = "h" /\ c(3) \in {"i", "u"} -> Found(Joined("hh", c(3)), i + 4)
          [] c(1) = "h" /\ c(2) = "h" /\ c(3) \notin {"i", "u"} -> Found("nothing", i + 3)
          [] c(1) = "h" /\ c(2) \notin {"h", "i", "u"} -> Found("nothing", i + 2)
          [] c(1) \in {"u", "i"} /\ c(2) # "l" -> Found(c(1), i + 2)
          [] c(1) \in {"u", "i"} /\ c(2) = "l" /\ c(3) # "l" -> Found(Joined(c(1), "l"), i + 3)
          [] c(1) \in {"u", "i"} /\ c(2) = "l" /\ c(3) = "l" -> Found(Joined(c(1), "ll"), i + 4)
          [] c(1) \in {"x", "c", "b"} -> Found(c(1), i + 2)
          [] OTHER -> Found("percent", i + 1)

Bits(kind) ==
    CASE kind \in {"hhu", "hhi"} -> Width["hh"]
      [] kind \in {"hu", "hi"} -> Width["h"]
      [] kind \in {"u", "ul", "i", "il"} -> Width[""]
      [] kind \in {"ull", "ill"} -> Width["ll"]
Natural == {"hhu", "hu", "u", "ul", "ull"}
Integer == {"hhi", "hi", "i", "il", "ill"}
Consumes == Natural \cup Integer \cup {"s", "sl", "x", "c", "b"}

\* trueString, falseString and to_hexstring.
Boolean(v) ==
    LET text == IF v THEN <<"T">> ELSE <<"F">>
    IN  IF HideColors THEN text ELSE <<"ESC", "m">> \o text \o <<"ESC", "m">>
Hexadecimal == <<"0", "x", "H">>

-----------------------------------------------------------------------------
(* Colour codes.                                                           *)

\* Where reading goes on after the colour code at i; 0 is nowhere.
AfterCode(s, i) ==
    LET ends == {j \in i + 1 .. Len(s) : s[j] = "m"}
        first == CHOOSE j \in ends : \A k \in ends : j <= k
    IN  IF ends = {} \/ first = Len(s) THEN 0 ELSE first + 1

\* Where the character comes from that follows at i, which may be a code.
Skip(s, i) == IF HideColors /\ CharAt(s, i) = "ESC" THEN AfterCode(s, i) ELSE i

\* What UART::out sends of a buffer.
OutBuffer(s) ==
    LET Rest[i \in 0 .. Len(s) + 1] ==
          IF i = 0 \/ i > Len(s) THEN <<>>
          ELSE LET j == Skip(s, i)
               IN  IF j = 0 THEN <<>> ELSE <<s[j]>> \o Rest[j + 1]
    IN  Rest[1]

-----------------------------------------------------------------------------
Activation(text, args) == [text |-> text, current |-> 1, args |-> args]

CInit ==
    /\ \E script \in Scripts : calls = script.calls /\ Initialized = script.initialized
    /\ made = <<>>
    /\ stack = <<>>
    /\ todo = <<>>
    /\ maxSpins = MaxSpins
    /\ holding = <<>>
    /\ wire = <<>>
    /\ uint_to_str_buf = [i \in 0 .. BufferSize - 1 |-> "nul"]
    /\ int_to_str_buf = [i \in 0 .. BufferSize - 1 |-> "nul"]
    /\ sent = <<>>
    /\ dropped = {}

frame == stack[1]
Uart == <<Initialized, maxSpins, holding, wire, dropped>>

\* The activation goes on at next, with the arguments after those it used.
Continue(next, used) ==
    stack' = <<[frame EXCEPT !.current = next, !.args = SubSeq(@, used + 1, Len(@))]>> \o Tail(stack)
Say(s) == todo' = s /\ sent' = sent \o s
SayNothing == UNCHANGED <<todo, sent>>

dbgmsg ==
    /\ calls # <<>> /\ stack = <<>> /\ todo = <<>>
    /\ stack' = <<Activation(calls[1].fmt, calls[1].args)>>
    /\ calls' = Tail(calls)
    /\ made' = Append(made, calls[1])
    /\ UNCHANGED <<Uart, todo, sent, uint_to_str_buf, int_to_str_buf>>

Running == stack # <<>> /\ todo = <<>>
\* The character that is looked at, behind a colour code.
here == Skip(frame.text, frame.current)
Return == stack' = Tail(stack)

AtEnd ==
    /\ Running
    /\ CharAt(frame.text, here) = "nul"
    /\ Return
    /\ SayNothing
    /\ UNCHANGED <<Uart, calls, made, uint_to_str_buf, int_to_str_buf>>

PlainCharacter ==
    /\ Running
    /\ CharAt(frame.text, here) \notin {"nul", "%"}
    /\ Say(<<frame.text[here]>>)
    /\ Continue(here + 1, 0)
    /\ UNCHANGED <<Uart, calls, made, uint_to_str_buf, int_to_str_buf>>

found == Conversion(frame.text, here)
arg == frame.args[1]
AtFormat(kinds) ==
    /\ Running
    /\ CharAt(frame.text, here) = "%"
    /\ found.kind \in kinds

\* What callers pass for a %sl is a text: hypothesis of the proof that the line is
\* in order (va_arg takes whatever is there).
TextsArePassed == AtFormat({"sl"}) => arg \in Seq(STRING)

PercentAtEnd ==
    /\ AtFormat({"end"})
    /\ Say(<<"%">>)
    /\ Return
    /\ UNCHANGED <<Uart, calls, made, uint_to_str_buf, int_to_str_buf>>

Unrecognized ==
    /\ AtFormat({"percent", "nothing"})
    /\ Say(IF found.kind = "percent" THEN <<"%">> ELSE <<>>)
    /\ Continue(found.next, 0)
    /\ UNCHANGED <<Uart, calls, made, uint_to_str_buf, int_to_str_buf>>

\* %s is a format of its own: dbgmsg is called with it.
FormatText ==
    /\ AtFormat({"s"})
    /\ stack' = <<Activation(arg, <<>>),
                  [frame EXCEPT !.current = found.next, !.args = Tail(@)]>> \o Tail(stack)
    /\ SayNothing
    /\ UNCHANGED <<Uart, calls, made, uint_to_str_buf, int_to_str_buf>>

FormatPiece ==
    /\ AtFormat({"sl", "x", "c", "b"})
    /\ Say(CASE found.kind = "sl" -> OutBuffer(arg)
             [] found.kind = "x" -> Hexadecimal
             [] found.kind = "c" -> <<arg>>
             [] found.kind = "b" -> Boolean(arg))
    /\ Continue(found.next, 1)
    /\ UNCHANGED <<Uart, calls, made, uint_to_str_buf, int_to_str_buf>>

FormatNatural ==
    /\ AtFormat(Natural)
    /\ uint_to_str_buf' = WriteDigits(uint_to_str_buf, 0, Unsigned(arg, Bits(found.kind)))
    /\ Say(CString(uint_to_str_buf'))
    /\ Continue(found.next, 1)
    /\ UNCHANGED <<Uart, calls, made, int_to_str_buf>>

FormatInteger ==
    /\ AtFormat(Integer)
    /\ int_to_str_buf' = int_to_string(int_to_str_buf, Signed(arg, Bits(found.kind)))
    /\ Say(CString(int_to_str_buf'))
    /\ Continue(found.next, 1)
    /\ UNCHANGED <<Uart, calls, made, uint_to_str_buf>>

-----------------------------------------------------------------------------
(* UART::out(byte)                                                         *)

Sending == todo # <<>>
Formatting == <<calls, made, stack, uint_to_str_buf, int_to_str_buf, sent, Initialized>>
Index == Len(sent) - Len(todo) + 1

NextByte == todo' = Tail(todo) /\ maxSpins' = MaxSpins

OutUninitialized ==
    /\ Sending /\ ~Initialized
    /\ NextByte
    /\ dropped' = dropped \cup {Index}
    /\ UNCHANGED <<Formatting, holding, wire>>

\* Mutant: an unlimited wait.
Spin_Forever ==
    /\ Sending /\ Initialized
    /\ holding # <<>> /\ maxSpins > 0
    /\ UNCHANGED cvars

Spin ==
    /\ Sending /\ Initialized
    /\ holding # <<>> /\ maxSpins > 0
    /\ maxSpins' = maxSpins - 1
    /\ UNCHANGED <<Formatting, todo, holding, wire, dropped>>

GiveUp ==
    /\ Sending /\ Initialized
    /\ maxSpins = 0
    /\ NextByte
    /\ dropped' = dropped \cup {Index}
    /\ UNCHANGED <<Formatting, holding, wire>>

\* Mutant: the byte is written when the wait is over, whatever ended it.
WriteByte_Always ==
    /\ Sending /\ Initialized
    /\ holding = <<>> \/ maxSpins = 0
    /\ holding' = <<todo[1]>>
    /\ NextByte
    /\ UNCHANGED <<Formatting, wire, dropped>>

WriteByte ==
    /\ Sending /\ Initialized
    /\ holding = <<>> /\ maxSpins > 0
    /\ holding' = <<todo[1]>>
    /\ NextByte
    /\ UNCHANGED <<Formatting, wire, dropped>>

\* The line takes a byte, when it does.
Transmit ==
    /\ holding # <<>>
    /\ wire' = wire \o holding
    /\ holding' = <<>>
    /\ UNCHANGED <<Formatting, todo, maxSpins, dropped>>

Kernel ==
    \/ dbgmsg \/ AtEnd \/ PlainCharacter \/ PercentAtEnd \/ Unrecognized
    \/ FormatText \/ FormatPiece \/ FormatNatural \/ FormatInteger
    \/ OutUninitialized \/ Spin \/ GiveUp \/ WriteByte

CNext == Kernel \/ Transmit

\* The kernel goes on; the line may be stuck.
CSpec == CInit /\ [][CNext]_cvars /\ WF_cvars(Kernel)

-----------------------------------------------------------------------------
(* What debug.hpp says of the formats.                                     *)

Supported ==
    {<<"s">>, <<"s", "l">>, <<"c">>, <<"b">>, <<"x">>,
     <<"h", "h", "u">>, <<"h", "u">>, <<"u">>, <<"u", "l">>, <<"u", "l", "l">>,
     <<"h", "h", "i">>, <<"h", "i">>, <<"i">>, <<"i", "l">>, <<"i", "l", "l">>}
Silent == {<<"h">>, <<"h", "h">>}     \* "nothing", by the comments in dbgmsg_v
FormatName(f) == FoldLeft(LAMBDA n, c : n \o c, "", f)

Decimal(n) ==
    LET Dec[k \in 0 .. n] == IF k < 10 THEN <<Digit[k + 1]>> ELSE Dec[k \div 10] \o <<Digit[1 + (k % 10)]>>
    IN  Dec[n]

\* A text without its colour codes.
Plain(s) ==
    LET Rest[i \in 1 .. Len(s) + 1] ==
          IF i > Len(s) THEN <<>>
          ELSE IF s[i] # "ESC" THEN <<s[i]>> \o Rest[i + 1]
          ELSE LET ends == {j \in i .. Len(s) : s[j] = "m"}
               IN  IF ends = {} THEN <<>>
                   ELSE Rest[(CHOOSE j \in ends : \A k \in ends : j <= k) + 1]
    IN  Rest[1]
Shown(s) == IF HideColors THEN Plain(s) ELSE s

Meaning(f, v) ==
    LET kind == FormatName(f)
    IN  CASE kind \in {"s", "sl"} -> Shown(v)
          [] kind = "c" -> <<v>>
          [] kind = "b" -> Boolean(v)
          [] kind = "x" -> Hexadecimal
          [] kind \in Natural -> Decimal(Unsigned(v, Bits(kind)))
          [] kind \in Integer -> LET n == Signed(v, Bits(kind))
                                 IN  IF n < 0 THEN <<"-">> \o Decimal(-n) ELSE Decimal(n)

\* The longest format that follows a '%' stands for its argument; a '%' that
\* none follows stands for itself.
FormatsAt(s, i) == {f \in Supported \cup Silent : IsPrefix(f, SubSeq(s, i + 1, Len(s)))}
FormatAt(s, i) == CHOOSE f \in FormatsAt(s, i) : \A g \in FormatsAt(s, i) : Len(g) <= Len(f)

Documented(call) ==
    LET s == Shown(call.fmt)
        Rest[i \in 1 .. Len(s) + 1, k \in 1 .. Len(call.args) + 1] ==
          IF i > Len(s) THEN <<>>
          ELSE IF s[i] # "%" \/ FormatsAt(s, i) = {} THEN <<s[i]>> \o Rest[i + 1, k]
          ELSE LET f == FormatAt(s, i)
               IN  IF f \in Silent THEN Rest[i + 1 + Len(f), k]
                   ELSE Meaning(f, call.args[k]) \o Rest[i + 1 + Len(f), k + 1]
    IN  Rest[1, 1]

Returned == stack = <<>> /\ todo = <<>>

\* When a call returns, the UART has been asked for exactly what debug.hpp says
\* of its format, whatever was formatted before in the static buffers of
\* to_string and whatever the look-ahead of the switch met (debug.cc, cstr.cc).
DocumentedOutput ==
    Returned => sent = FoldLeft(LAMBDA text, call : text \o Documented(call), <<>>, made)

\* The line carries what UART::out was asked for, in order, without what it
\* gave up: a byte that waits in the transmit buffer is never overwritten.
LineInOrder ==
    LET line == wire \o holding \o todo
        PlaceOf(i) == i - Cardinality({d \in dropped : d < i})
    IN  /\ Len(line) = Len(sent) - Cardinality(dropped)
        /\ \A i \in (1 .. Len(sent)) \ dropped : line[PlaceOf(i)] = sent[i]

\* However long the line is stuck, the kernel's calls of dbgmsg return: a byte
\* is waited for maxSpins times (uart.cc).
CallsReturn == <>(calls = <<>> /\ Returned)
=============================================================================
