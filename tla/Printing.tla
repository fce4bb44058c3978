------------------------------ MODULE Printing ------------------------------
(***************************************************************************)
(* What the kernel prints (src/src/stdio.c), as text: print with its       *)
(* directives, numbers in columns; the clock (time.c), whose digits come   *)
(* from the hardware in BCD; what cat lets through of a file (fs.c).       *)
(* Colours, and where the text lands, are left out: FrameBuffer has that.  *)
(*                                                                         *)
(* A text is a sequence of characters.  The checks at the end are made by  *)
(* TLC for all small inputs.                                               *)
(***************************************************************************)
EXTENDS Integers, Sequences

CONSTANT IntWord    \* 2^32

ASSUME IntWordAssumption == IntWord \in Nat /\ IntWord > 1 /\ IntWord % 2 = 0

Digit == <<"0", "1", "2", "3", "4", "5", "6", "7", "8", "9", "a", "b", "c", "d", "e", "f">>
DIGIT == <<"0", "1", "2", "3", "4", "5", "6", "7", "8", "9", "A", "B", "C", "D", "E", "F">>

Decimal == {Digit[i] : i \in 1 .. 10}

\* The value of a digit, of a text of digits (atoi goes on as far as they do).
ValueOf(ch) == (CHOOSE i \in 1 .. 16 : ch \in {Digit[i], DIGIT[i]}) - 1

Value[base \in 2 .. 16, s \in Seq(STRING)] ==
    IF s = <<>> THEN 0
    ELSE (Value[base, SubSeq(s, 1, Len(s) - 1)] * base + ValueOf(s[Len(s)])) % IntWord

\* Where a run of characters of S that begins at i ends: the place behind it.
Behind(s, i, S) == CHOOSE j \in i .. Len(s) + 1 :
                       /\ \A k \in i .. j - 1 : s[k] \in S
                       /\ j <= Len(s) => s[j] \notin S

atoi(s) == Value[10, SubSeq(s, 1, Behind(s, 1, Decimal) - 1)]

-----------------------------------------------------------------------------
(* stdio.c                                                                 *)

print_pad(ch, count) == IF count > 0 THEN [i \in 1 .. count |-> ch] ELSE <<>>

print_str(s, width, left) ==
    IF left THEN s \o print_pad(" ", width - Len(s)) ELSE print_pad(" ", width - Len(s)) \o s

\* buf, from its end.
Numeral[uval \in Nat, base \in 2 .. 16, upper \in BOOLEAN] ==
    LET digits == IF upper THEN DIGIT ELSE Digit
    IN  IF uval < base THEN <<digits[uval + 1]>>
        ELSE Append(Numeral[uval \div base, base, upper], digits[(uval % base) + 1])

print_number(uval, negative, base, upper, width, zero, left) ==
    LET n       == Numeral[uval, base, upper]
        sign    == IF negative THEN <<"-">> ELSE <<>>
        pad(ch) == print_pad(ch, width - Len(sign \o n))
    IN  IF left THEN sign \o n \o pad(" ")
        ELSE IF zero THEN sign \o pad("0") \o n
        ELSE pad(" ") \o sign \o n

\* An int, as the word it is in the machine.
Negative(word)  == word >= IntWord \div 2
Magnitude(word) == IF Negative(word) THEN (0 - word) % IntWord ELSE word

\* One directive, with its argument.
Directive(ch, arg, width, zero, left) ==
    CASE ch = "s" -> print_str(arg, width, left)
      [] ch = "c" -> print_str(<<arg>>, width, left)
      [] ch = "C" -> <<>>
      [] ch \in {"d", "i"} ->
             print_number(Magnitude(arg), Negative(arg), 10, FALSE, width, zero, left)
      [] ch = "u" -> print_number(arg, FALSE, 10, FALSE, width, zero, left)
      [] ch \in {"x", "X"} -> print_number(arg, FALSE, 16, ch = "X", width, zero, left)
      [] ch = "%" -> <<"%">>
      [] OTHER    -> <<"%", ch>>

Takes(ch) == ch \in {"s", "c", "C", "d", "i", "u", "x", "X"}

\* A format, from character i on, with n arguments taken.  One that ends within
\* a directive ends there.  There must be an argument for every directive that
\* takes one.
print(format, args) ==
    LET From[i \in Nat, n \in Nat] ==
            IF i > Len(format) THEN <<>>
            ELSE IF format[i] # "%" THEN <<format[i]>> \o From[i + 1, n]
            ELSE LET f     == Behind(format, i + 1, {"0", "-"})
                     w     == Behind(format, f, Decimal)
                     flags == {format[k] : k \in i + 1 .. f - 1}
                     width == Value[10, SubSeq(format, f, w - 1)]
                 IN  IF w > Len(format) THEN <<>>
                     ELSE Directive(format[w], args[n + 1], width, "0" \in flags, "-" \in flags)
                          \o From[w + 1, IF Takes(format[w]) THEN n + 1 ELSE n]
    IN  From[1, 0]

-----------------------------------------------------------------------------
(* time.c                                                                  *)

bcd_to_bin(bcd) == (bcd \div 16) * 10 + (bcd % 16)

print_format_time(h, m, s) ==
    print(<<"%", "0", "2", "d", ":", "%", "0", "2", "d", ":", "%", "0", "2", "d">>,
          <<bcd_to_bin(h), bcd_to_bin(m), bcd_to_bin(s)>>)

-----------------------------------------------------------------------------
(* fs.c: cat prints the bytes of a file.                                   *)

\* A byte as it is shown; "bell" stands for what has no character.
Shown(ch) == IF ch = "\r" THEN <<>>
             ELSE IF ch = "\t" THEN <<" ">>
             ELSE IF ch = "bell" THEN <<".">>
             ELSE <<ch>>

fs_cat(bytes) ==
    LET From[i \in 1 .. Len(bytes) + 1] ==
            IF i <= Len(bytes) THEN Shown(bytes[i]) \o From[i + 1]
            ELSE IF bytes = <<>> \/ bytes[Len(bytes)] = "\n" THEN <<>> ELSE <<"\n">>
    IN  From[1]

-----------------------------------------------------------------------------
\* What print_number puts out is what was put in, for every base and letter case,
\* without a zero in front, and in no more digits than buf has room for.
NumbersReadBack(Words) ==
    \A v \in Words, base \in {10, 16}, upper \in BOOLEAN :
        LET n == Numeral[v, base, upper] IN
        /\ Value[base, n] = v /\ Len(n) <= 32
        /\ n[1] = "0" => n = <<"0">>
        /\ base = 10 => atoi(n) = v

\* %d reads back too, the least int with it, whose opposite is no int.
SignsReadBack(Words) ==
    \A v \in Words :
        LET t == print(<<"%", "d">>, <<v>>) IN
        IF Negative(v) THEN t[1] = "-" /\ atoi(Tail(t)) = IntWord - v ELSE atoi(t) = v

\* A column is as wide as it should be unless the number needs more; padding does
\* not change the number.
ColumnsHold(Words, Widths) ==
    \A v \in Words, width \in Widths, zero, left \in BOOLEAN :
        LET bare == print_number(Magnitude(v), Negative(v), 10, FALSE, 0, FALSE, FALSE)
            t    == print_number(Magnitude(v), Negative(v), 10, FALSE, width, zero, left)
            kept == SelectSeq(t, LAMBDA ch : ch # " ")
        IN  /\ Len(t) = IF width > Len(bare) THEN width ELSE Len(bare)
            /\ IF zero /\ ~left /\ Negative(v) THEN kept[1] = "-" /\ atoi(Tail(kept)) = Magnitude(v)
               ELSE IF zero /\ ~left THEN atoi(kept) = v
               ELSE kept = bare

\* The format language says what it should: text is printed as it stands, flags
\* and width go with their directive, and arguments to directives in their order.
FormatsPrint(Words) ==
    /\ print(<<"a", "%", "%", "\n", "b">>, <<>>) = <<"a", "%", "\n", "b">>
    /\ print(<<"a", "%", "0", "5">>, <<>>) = <<"a">>
    /\ print(<<"%", "q">>, <<>>) = <<"%", "q">>
    /\ \A v, w \in Words :
          /\ print(<<"%", "u", ",", "%", "-", "4", "x", "%", "C", "|">>, <<v, w, 0>>) =
                 Numeral[v, 10, FALSE] \o <<",">>
                     \o print_number(w, FALSE, 16, FALSE, 4, FALSE, TRUE) \o <<"|">>
          /\ print(<<"%", "3", "s", "%", "c">>, <<<<"h", "i">>, "!">>) = <<" ", "h", "i", "!">>

\* The clock shows the digits that the hardware holds.
ClockReads ==
    \A h \in 0 .. 2, m, s \in {0, 5, 9} :
        LET byte(t, d) == t * 16 + d
        IN  print_format_time(byte(h, 3), byte(5, m), byte(s, 0)) =
                <<Digit[h + 1], "3", ":", "5", Digit[m + 1], ":", Digit[s + 1], "0">>

\* cat leaves the cursor in a row of its own, and shows nothing but what has a
\* glyph.
CatEndsLine(Texts) ==
    \A t \in Texts :
        /\ \A i \in DOMAIN fs_cat(t) : fs_cat(t)[i] \notin {"\r", "\t", "bell"}
        /\ t # <<>> => fs_cat(t)[Len(fs_cat(t))] = "\n"
=============================================================================
