------------------------------- MODULE Printf -------------------------------
(***************************************************************************)
(* kvprintf (console.c): a format and its arguments become a sequence of   *)
(* characters for putc.  A format is a sequence of one-character strings   *)
(* with the terminator behind it; an argument is a machine word, as va_arg *)
(* finds it in its slot, and a pointer to a string is an address in        *)
(* Strings.  Each step is one turn of the loop over the format.            *)
(***************************************************************************)
EXTENDS Integers, Sequences

CONSTANTS
  INT, LONG,      \* 2^32 and 2^64: how many values int and long have
  BUF,            \* 32: the characters of print_uint's buffer
  IntNibbles, LongNibbles,   \* 8 and 16
  Chars,          \* the character that an argument is, for %c
  Strings,        \* the characters from every address but 0 to the next terminator
  Calls           \* the calls of kprintf: [fmt, args]

\* What a one in nibble k of a word is worth.
Nibble[k \in Nat] == IF k = 0 THEN 1 ELSE 16 * Nibble[k - 1]

ASSUME PrintfAssumption ==
  /\ IntNibbles \in Nat /\ LongNibbles \in Nat /\ BUF \in Nat
  /\ INT = Nibble[IntNibbles] /\ LONG = Nibble[LongNibbles]
  /\ INT % 2 = 0 /\ LONG % INT = 0
  /\ Strings \in [1 .. LONG - 1 -> Seq(STRING)]
  /\ \A call \in Calls : call.args \in Seq(0 .. LONG - 1)

VARIABLES
  fmt, args,      \* the format and the arguments not yet taken
  i,              \* the index in fmt, from 1
  out             \* what putc has been called with

printfVars == <<fmt, args, i, out>>

Terminator == "NUL"

\* fmt[k] in C: the terminator is the character behind the last one.
CharAt(k) == IF k = Len(fmt) + 1 THEN Terminator ELSE fmt[k]

Init ==
  /\ \E call \in Calls : fmt = call.fmt /\ args = call.args
  /\ i = 1
  /\ out = <<>>
-----------------------------------------------------------------------------
(* Numbers. *)

\* A word as a two's complement number of the type that has n values.
Signed(v, n) == IF v % n < n \div 2 THEN v % n ELSE (v % n) - n

DigitChar == <<"0", "1", "2", "3", "4", "5", "6", "7", "8", "9", "a", "b", "c", "d", "e", "f">>
Digit(d) == DigitChar[d + 1]

\* The characters that the loop of print_uint puts into buf, last one first.
buf[v \in Nat] == IF v = 0 THEN <<>> ELSE Append(buf[v \div 10], Digit(v % 10))

print_uint(v) == IF v = 0 THEN <<"0">> ELSE buf[v]

\* Mutant: the one that was added before the negation is not taken back.
print_intOneLess(v) ==
  IF v < 0 THEN <<"-">> \o print_uint((-(v + 1)) % LONG) ELSE print_uint(v)

\* abs is computed in unsigned arithmetic, so that the least long has one.
print_int(v) ==
  IF v < 0 THEN <<"-">> \o print_uint((((-(v + 1)) % LONG) + 1) % LONG)
           ELSE print_uint(v)

\* width hexadecimal digits, whatever the value.
print_hex(v, width) ==
  [k \in 1 .. width |-> Digit((v \div Nibble[width - k]) % 16)]
-----------------------------------------------------------------------------
(* The loop. *)

\* The end of the length modifiers behind a percent sign at k.
Specifier(k) == CHOOSE j \in k + 1 .. Len(fmt) + 1 :
                  /\ CharAt(j) # "l"
                  /\ \A m \in k + 1 .. j - 1 : fmt[m] = "l"

IsLong == Specifier(i) > i + 1

Width(short, long) == IF IsLong THEN long ELSE short

\* Moves behind the specifier at j and prints s.
Emits(j, s) ==
  /\ out' = out \o s
  /\ i' = j + 1
  /\ UNCHANGED fmt

PlainChar ==
  /\ CharAt(i) # "%"
  /\ CharAt(i) # Terminator
  /\ Emits(i, <<CharAt(i)>>)
  /\ UNCHANGED args

\* A directive that takes an argument and prints it as s.
Takes(chars, s) ==
  /\ CharAt(i) = "%"
  /\ CharAt(Specifier(i)) \in chars
  /\ args # <<>>
  /\ args' = Tail(args)
  /\ Emits(Specifier(i), s)

arg == Head(args)

PrintChar    == Takes({"c"}, <<Chars[arg]>>)
PrintString  == Takes({"s"}, IF arg = 0 THEN <<"(null)">> ELSE Strings[arg])
PrintInt     == Takes({"d"}, print_int(Signed(arg, Width(INT, LONG))))
PrintUInt    == Takes({"u"}, print_uint(arg % Width(INT, LONG)))
PrintHex     == Takes({"x", "X"}, print_hex(arg % Width(INT, LONG), Width(IntNibbles, LongNibbles)))
PrintPointer == Takes({"p"}, <<"0", "x">> \o print_hex(arg, LongNibbles))

Specifiers == {"c", "s", "d", "u", "x", "X", "p", "%"}

Percent ==
  /\ CharAt(i) = "%"
  /\ CharAt(Specifier(i)) = "%"
  /\ Emits(Specifier(i), <<"%">>)
  /\ UNCHANGED args

\* The default: the terminator behind a last percent sign is such a specifier
\* too, and the loop goes on behind it.
Unrecognized ==
  /\ CharAt(i) = "%"
  /\ CharAt(Specifier(i)) \notin Specifiers
  /\ Emits(Specifier(i), <<"%", CharAt(Specifier(i))>>)
  /\ UNCHANGED args

InFormat == i <= Len(fmt) + 1

kvprintf ==
  /\ InFormat
  /\ \/ PlainChar \/ Percent \/ Unrecognized
     \/ PrintChar \/ PrintString \/ PrintInt \/ PrintUInt \/ PrintHex \/ PrintPointer

Returned == InFormat /\ CharAt(i) = Terminator

Next == kvprintf \/ (Returned /\ UNCHANGED printfVars)

Spec == Init /\ [][Next]_printfVars
-----------------------------------------------------------------------------
(* Properties. *)

\* What the running step prints.
Printed == SubSeq(out', Len(out) + 1, Len(out'))

ValueOf(c) == CHOOSE d \in 0 .. 15 : Digit(d) = c

\* What a reader makes of digits in a base.
Value(digits, base) ==
  LET value[k \in 0 .. Len(digits)] ==
        IF k = 0 THEN 0 ELSE base * value[k - 1] + ValueOf(digits[k])
  IN  value[Len(digits)]

\* A decimal numeral: no sign but a minus, no zero in front.
IsDecimal(s) ==
  /\ s # <<>>
  /\ \A k \in 1 .. Len(s) : ValueOf(s[k]) < 10
  /\ s[1] = "0" => Len(s) = 1

Prints(chars) == i # i' /\ InFormat /\ CharAt(i) = "%" /\ CharAt(Specifier(i)) \in chars

SignedReadsBack ==
  Prints({"d"}) =>
    LET v == Signed(arg, Width(INT, LONG))
        s == IF v < 0 THEN Tail(Printed) ELSE Printed
    IN  /\ v < 0 => Head(Printed) = "-"
        /\ IsDecimal(s) /\ Len(s) <= BUF
        /\ Value(s, 10) = IF v < 0 THEN -v ELSE v

UnsignedReadsBack ==
  Prints({"u"}) =>
    /\ IsDecimal(Printed) /\ Len(Printed) <= BUF
    /\ Value(Printed, 10) = arg % Width(INT, LONG)

HexReadsBack ==
  Prints({"x", "X"}) =>
    /\ Value(Printed, 16) = arg % Width(INT, LONG)
    /\ Nibble[Len(Printed)] = Width(INT, LONG)

PointerReadsBack ==
  Prints({"p"}) => Value(SubSeq(Printed, 3, Len(Printed)), 16) = arg

\* The numerals that kvprintf prints read back as the argument (console.c:84-
\* 112 and 163-199): for %d down to the least value of the type, whose absolute
\* value the type does not have; for %u and %x of the word or int alone and
\* nothing that the slot of a shorter argument holds besides; for %x and %p with
\* all nibbles, so that no digit is cut off.  No decimal one has more digits
\* than print_uint's buffer (console.c:85 and 95).
NumeralsReadBack ==
  [][SignedReadsBack /\ UnsignedReadsBack /\ HexReadsBack /\ PointerReadsBack]_printfVars
=============================================================================
