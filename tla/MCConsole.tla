------------------------------ MODULE MCConsole ------------------------------
(* Every text of a few characters as a format, and pairs of calls that       *)
(* format a number, the second one into the buffer that the first one left.  *)
EXTENDS Console

MCWidth == [bits \in {"hh", "h", "", "ll"} |->
               CASE bits = "hh" -> 3 [] bits = "h" -> 5 [] bits = "" -> 8 [] bits = "ll" -> 14]

Alphabet == {"%", "s", "l", "h", "u", "i"}
Texts == UNION {[1 .. n -> Alphabet] : n \in 0 .. 5}
Others == {<<"%", "x">>, <<"%", "b", "%">>, <<"%", "c", "%", "%">>, <<"ESC", "m">>, <<"a", "ESC">>,
           <<"ESC", "m", "%", "s", "ESC", "m">>, <<"%", "ESC", "m", "a">>, <<"%", "s", "l", "ESC", "m", "a">>}

\* What a caller passes who reads the format as debug.hpp describes it.
Argument(f) ==
    CASE f \in {<<"s">>, <<"s", "l">>} -> <<"ESC", "m", "a">>
      [] f = <<"c">> -> "c"
      [] f = <<"b">> -> TRUE
      [] OTHER -> IF \E k \in DOMAIN f : f[k] = "i" THEN -1 ELSE 23
Arguments(fmt) ==
    LET s == Shown(fmt)
        Rest[i \in 1 .. Len(s) + 1] ==
          IF i > Len(s) THEN <<>>
          ELSE IF s[i] # "%" \/ FormatsAt(s, i) = {} THEN Rest[i + 1]
          ELSE LET f == FormatAt(s, i)
               IN  (IF f \in Silent THEN <<>> ELSE <<Argument(f)>>) \o Rest[i + 1 + Len(f)]
    IN  Rest[1]

Numbers == {<<"h", "h", "u">>, <<"u">>, <<"u", "l", "l">>, <<"h", "i">>, <<"i">>, <<"i", "l", "l">>}
Call(f, v) == [fmt |-> <<"%">> \o f, args |-> <<v>>]
\* A 64-bit number fits its buffer unless it has all the digits it can have.
Fits(f, v) == f = <<"u", "l", "l">> => v \in 0 .. 9999

MCScripts ==
    {[calls |-> <<[fmt |-> text, args |-> Arguments(text)]>>, initialized |-> FALSE] :
        text \in Texts \cup Others}
    \cup {[calls |-> <<Call(c[1], c[2]), Call(c[3], c[4])>>, initialized |-> FALSE] :
        c \in {d \in Numbers \X {2999, -999, 127} \X Numbers \X {0, 10, -10, 99, 128} :
                  Fits(d[1], d[2]) /\ Fits(d[3], d[4])}}
    \cup {[calls |-> <<Call(f, 100), Call(g, -1)>>, initialized |-> TRUE] :
        f \in {<<"u">>, <<"i">>}, g \in {<<"h", "i">>, <<"h", "u">>}}
=============================================================================
