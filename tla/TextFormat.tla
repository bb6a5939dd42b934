----------------------------- MODULE TextFormat -----------------------------
(***************************************************************************)
(* Formatted output: RTL::WideString::FormatWideString and what it calls,  *)
(* used for every line the kernel and the boot loader print.  A conversion *)
(* is a set of flags, a field width and a precision; what it writes is a   *)
(* sequence of characters.                                                 *)
(*                                                                         *)
(* Numbers are scaled down: a byte has ByteWidth bits, floating-point      *)
(* numbers are counted in the digits of a small even base, and their       *)
(* arithmetic is exact.                                                    *)
(***************************************************************************)
EXTENDS Integers, Sequences

CONSTANTS ByteWidth,        \* bits of a byte
          FloatBase,        \* what ten is to the conversion of floating point
          Positions,        \* digits behind the point a value may have
          Values,           \* floating-point values tried, in units of
                            \* FloatBase^-Positions
          Exponents,        \* exponents tried besides those of the values
          Fractions,        \* fractions tried in hexadecimal
          FieldWidths,      \* field widths tried; negative ones come by "*"
          MaxArguments      \* bound: specifiers in a format

VARIABLES style,            \* flags, width and precision of a specifier
          machine,          \* "amd64" or "i686"
          passed,           \* types of the arguments of the specifiers so far
          taken             \* slots of the argument list taken for them

formatVars == <<style, machine, passed, taken>>

Flags == {"left", "space", "plus", "radix", "zeroes"}
Precisions == -1..3
Plain == [flags |-> {}, width |-> 0, precision |-> -1]

(* The flags as FormatArgumentSpecifier leaves them: to the left goes      *)
(* before zeroes, a sign before a space; but a negative width taken from   *)
(* the arguments, which means to the left, comes after that.               *)
Normalised(written, width, precision) ==
    LET flags == written \ ((IF "left" \in written THEN {"zeroes"} ELSE {})
                              \cup (IF "plus" \in written THEN {"space"} ELSE {}))
    IN  [flags |-> IF width < 0 THEN flags \cup {"left"} ELSE flags,
         width |-> IF width < 0 THEN -width ELSE width, precision |-> precision]

Styles == {Normalised(f, w, p) : f \in SUBSET Flags, w \in FieldWidths, p \in Precisions}

----------------------------------------------------------------------------
(* Writing.                                                                *)
Repeat(c, n) == [i \in 1..n |-> c]
Least0(n) == IF n < 0 THEN 0 ELSE n
Digit(d) == <<"0", "1", "2", "3", "4", "5", "6", "7", "8", "9",
              "a", "b", "c", "d", "e", "f">>[d + 1]

Sign(s, negative) ==
    IF negative THEN <<"-">>
    ELSE IF "plus" \in s.flags THEN <<"+">>
    ELSE IF "space" \in s.flags THEN <<" ">>
    ELSE <<>>

(* A number in its field.  length is what the code takes for the length of *)
(* prefix and body together.                                               *)
Justified(s, prefix, body, length) ==
    LET field == Least0(s.width - length)
    IN  IF "zeroes" \in s.flags THEN prefix \o Repeat("0", field) \o body
        ELSE IF "left" \in s.flags THEN prefix \o body \o Repeat(" ", field)
        ELSE Repeat(" ", field) \o prefix \o body

WriteValue(s, text) ==
    LET cut     == IF s.precision >= 0 /\ Len(text) > s.precision
                   THEN SubSeq(text, 1, s.precision) ELSE text
        padding == Repeat(" ", Least0(s.width - Len(cut)))
    IN  IF "left" \in s.flags THEN cut \o padding ELSE padding \o cut
WriteStringValue(s, text) == WriteValue(s, text)    \* of narrow characters

----------------------------------------------------------------------------
(* Integers.                                                               *)
TypeSizes == {1, 2, 4, 8}               \* of char, short, long and long long
Range2(size) == 2^(size * ByteWidth)
Wrapped(n, size) == n % Range2(size)
Extended(n, size) ==
    LET bits == Wrapped(n, size)
    IN  IF bits >= Range2(size) \div 2 THEN bits - Range2(size) ELSE bits

(* The argument as it is read: passed on the stack, a char or short is     *)
(* sign-extended, out of its place in the list it is not.                  *)
ReadInteger(n, size, positional) ==
    IF size \in {1, 2} /\ ~positional THEN Extended(n, size) ELSE Wrapped(n, size)

Numeral(n, radix) ==
    LET digits[k \in Nat] == IF k < radix THEN <<Digit(k)>>
                             ELSE Append(digits[k \div radix], Digit(k % radix))
    IN  digits[n]

WriteIntegerValue(s, argument, size, radix, unsigned) ==
    LET integer == IF unsigned THEN Wrapped(argument, 8) ELSE Extended(argument, size)
        digits  == IF integer = 0 /\ s.precision = 0 THEN <<>>
                   ELSE Numeral(IF integer < 0 THEN -integer ELSE integer, radix)
        mark    == IF "radix" \notin s.flags \/ integer = 0 THEN <<>>
                   ELSE IF radix = 8 THEN <<"0">>
                   ELSE IF radix = 16 THEN <<"0", "x">> ELSE <<>>
        prefix  == Sign(s, integer < 0) \o mark
        zeroes  == Least0(s.precision - Len(digits))
    IN  Justified(s, prefix, Repeat("0", zeroes) \o digits,
                  Len(prefix) + zeroes + Len(digits))

----------------------------------------------------------------------------
(* Floating point.  A value is n units of FloatBase^-Positions.            *)
Power(e) == FloatBase^(Positions + e)

GetBaseExponent(n) ==
    IF n = 0 THEN 0
    ELSE CHOOSE e \in -Positions .. 31 - Positions : n \in Power(e) .. FloatBase * Power(e) - 1

DOUBLE_PRECISION == 6
DOUBLE_SCIENTIFIC_PRECISION == -4
MAX_DOUBLE_STRING_SIZE == 15

Stripped(digits) ==
    LET last == CHOOSE k \in 1..Len(digits) :
                   /\ k = 1 \/ digits[k] # "0"
                   /\ \A i \in k + 1 .. Len(digits) : digits[i] = "0"
    IN  SubSeq(digits, 1, last)

(* The digits of n, half a unit of the last place shown having been added; *)
(* if that carries, the exponent is one more.  A first digit that is more  *)
(* than one digit can only be one that is not shown.                       *)
Rounded(n, form, precision, exponent) ==
    LET half  == Power((CASE form = "f" -> 0 [] form = "e" -> exponent
                          [] form = "g" -> exponent + 1) - precision) \div 2
        sum   == n + half
        carry == sum \div Power(exponent) > FloatBase - 1
        e     == IF carry THEN exponent + 1 ELSE exponent
        first == sum \div Power(e)
        count == IF Positions + e + 1 < MAX_DOUBLE_STRING_SIZE
                 THEN Positions + e + 1 ELSE MAX_DOUBLE_STRING_SIZE
        all   == [i \in 1..count |->
                    IF i > 1 THEN Digit((sum \div Power(e + 1 - i)) % FloatBase)
                    ELSE IF first < FloatBase THEN Digit(first) ELSE "?"]
        kept  == IF form = "g" /\ count > precision THEN SubSeq(all, 1, precision) ELSE all
    IN  [digits |-> Stripped(kept), exponent |-> e]

(* The number of digits counted: form "g" counts significant ones and does *)
(* not go beyond what there is, the others count those behind the point.   *)
Counted(form, scientific, precision, digits, exponent) ==
    IF form # "g" \/ precision <= Len(digits) THEN precision
    ELSE IF ~scientific /\ exponent + 1 > Len(digits) THEN exponent + 1
    ELSE IF digits = <<>> THEN 1 ELSE Len(digits)

(* The length the field is computed from, beforehand.                      *)
NumberLength(s, form, scientific, counted, digits, exponent) ==
    LET general == form = "g"
        size    == IF exponent < 0 THEN -exponent ELSE exponent
        point   == \/ "radix" \in s.flags
                   \/ ~general /\ counted # 0
                   \/ general /\ scientific /\ counted > 1
                   \/ general /\ ~scientific /\ (exponent < 0 \/ exponent + 1 < Len(digits))
        rest    == IF scientific
                   THEN 4 + (IF general THEN 0 ELSE 1) + (IF size >= 100 THEN 1 ELSE 0)
                          + (IF size >= 1000 THEN 1 ELSE 0)
                   ELSE IF exponent >= 0 THEN IF general THEN 0 ELSE exponent + 1
                   ELSE 1 + (IF general THEN size - 1 ELSE 0)
    IN  counted + (IF point THEN 1 ELSE 0) + rest

WriteExponent(exponent) ==
    <<"e">> \o WriteIntegerValue([flags |-> {"plus", "zeroes"}, width |-> 0, precision |-> 2],
                                exponent, 4, 10, FALSE)

(* What is written: digits before the point, behind it, and the exponent.  *)
WriteDigits(s, form, scientific, counted, digits, exponent) ==
    LET DigitAt(i) == IF i \in 1..Len(digits) THEN digits[i] ELSE "0"
        before == IF scientific THEN <<DigitAt(1)>>
                  ELSE IF exponent >= 0 THEN [i \in 1 .. exponent + 1 |-> DigitAt(i)]
                  ELSE <<"0">>
        behind == IF form # "g" THEN counted
                  ELSE IF scientific THEN counted - 1
                  ELSE IF exponent >= 0 THEN Least0(counted - exponent - 1)
                  ELSE counted - exponent - 1
        shift  == IF scientific THEN 1 ELSE exponent + 1
        point  == IF behind # 0 \/ "radix" \in s.flags THEN <<".">> ELSE <<>>
    IN  before \o point \o [i \in 1..behind |-> DigitAt(i + shift)]
          \o (IF scientific THEN WriteExponent(exponent) ELSE <<>>)

Precision(s, form) ==
    LET given == IF s.precision = -1 THEN DOUBLE_PRECISION ELSE s.precision
    IN  IF form = "g" /\ given = 0 THEN 1 ELSE given

Scientific(form, precision, exponent) ==
    \/ form = "e"
    \/ form = "g" /\ (exponent < DOUBLE_SCIENTIFIC_PRECISION \/ exponent >= precision)

WriteDoubleValue(s, form, n, negative) ==
    LET precision == Precision(s, form)
        exponent  == GetBaseExponent(n)
        rounded   == IF n = 0 THEN [digits |-> <<>>, exponent |-> 0]
                     ELSE Rounded(n, form, precision, exponent)
        power     == Scientific(form, precision, exponent)
        counted   == Counted(form, power, precision, rounded.digits, rounded.exponent)
    IN  Justified(s, Sign(s, negative),
                  WriteDigits(s, form, power, counted, rounded.digits, rounded.exponent),
                  NumberLength(s, form, power, counted, rounded.digits, rounded.exponent)
                    + Len(Sign(s, negative)))

(* Hexadecimal: the fraction has HexPlaces digits of a base.               *)
HexBase == 4
HexPlaces == 3

HexRounded(fraction, precision) ==
    LET sum == fraction + (IF precision = -1 THEN 0
                           ELSE HexBase^HexPlaces \div (2 * HexBase^precision))
        m   == sum % HexBase^HexPlaces
        all == [i \in 1..HexPlaces |-> Digit((m \div HexBase^(HexPlaces - i)) % HexBase)]
        end == IF precision # -1 THEN precision
               ELSE IF m = 0 THEN 0 ELSE Len(Stripped(all))
    IN  [whole |-> IF sum = m THEN "1" ELSE "2",
         digits |-> [i \in 1..end |-> IF i <= HexPlaces THEN all[i] ELSE "0"]]

(* A mutant: every exponent has one digit.                                 *)
HexExponentShort(exponent) == 3

(* The length of the exponent begins to grow after ten, not at ten.        *)
HexExponentLength(exponent) ==
    LET size == IF exponent < 0 THEN -exponent ELSE exponent
    IN  3 + (IF size > 10 THEN 1 ELSE 0) + (IF size > 100 THEN 1 ELSE 0)
          + (IF size > 1000 THEN 1 ELSE 0)

WriteHexDoubleValue(s, zero, fraction, exponent, negative) ==
    LET rounded  == IF zero THEN [whole |-> "0", digits |-> Repeat("0", Least0(s.precision))]
                  ELSE HexRounded(fraction, s.precision)
        point  == IF "radix" \in s.flags \/ rounded.digits # <<>> THEN <<".">> ELSE <<>>
        prefix == Sign(s, negative) \o <<"0", "x">>
        power  == WriteIntegerValue([Plain EXCEPT !.flags = {"plus"}], exponent, 4, 10, FALSE)
    IN  Justified(s, prefix, <<rounded.whole>> \o point \o rounded.digits \o <<"p">> \o power,
                  Len(prefix) + Len(rounded.digits) + 1 + Len(point)
                    + HexExponentLength(exponent))

----------------------------------------------------------------------------
(* The arguments.  A slot has the size of a pointer.                       *)
Types == {"int", "pointer", "longlong", "double", "boolean"}
Slots(type) == IF machine = "i686" /\ type \in {"longlong", "double"} THEN 2 ELSE 1

(* What a specifier takes: a boolean is read as a long long.               *)
SlotsRead(type) == IF type = "boolean" THEN Slots("longlong") ELSE Slots(type)

(* Where "%n$" looks: n - 1 arguments of the size of a long long ahead.    *)
GetArgument(n) == (n - 1) * Slots("longlong")

SlotsOf(types) ==
    LET sum[i \in 0..Len(types)] == IF i = 0 THEN 0 ELSE sum[i - 1] + Slots(types[i])
    IN  sum[Len(types)]

(* Styles and lists of arguments are tried apart from each other.          *)
FormatInit ==
    /\ machine \in {"amd64", "i686"}
    /\ style = Plain /\ passed = <<>> /\ taken = 0

ParseStyle ==
    /\ passed = <<>> /\ style = Plain /\ machine = "amd64"
    /\ style' \in Styles
    /\ UNCHANGED <<machine, passed, taken>>

(* One more specifier; width and precision may be arguments of their own,  *)
(* which come first.                                                       *)
FormatArgumentSpecifier ==
    /\ style = Plain /\ Len(passed) < MaxArguments
    /\ \E type \in Types, stars \in 0..2 :
          /\ passed' = passed \o Repeat("int", stars) \o <<type>>
          /\ taken' = taken + stars * SlotsRead("int") + SlotsRead(type)
    /\ UNCHANGED <<style, machine>>

FormatNext == ParseStyle \/ FormatArgumentSpecifier

----------------------------------------------------------------------------
(* What is written should be a field with a number in it: blanks, a sign,  *)
(* the number, blanks.  Reading it back:                                   *)
DigitValue(c) == (CHOOSE d \in 1..16 : Digit(d - 1) = c) - 1
IsDigit(c) == \E d \in 0..15 : Digit(d) = c

PlaceOf(text, c) == IF \E i \in DOMAIN text : text[i] = c
                  THEN CHOOSE i \in DOMAIN text : text[i] = c ELSE Len(text) + 1

Behind(text) == IF PlaceOf(text, ".") > Len(text) THEN 0 ELSE Len(text) - PlaceOf(text, ".")

ValueOf(text, radix) ==
    LET value[i \in 0..Len(text)] ==
            IF i = 0 THEN 0
            ELSE IF IsDigit(text[i]) THEN radix * value[i - 1] + DigitValue(text[i])
            ELSE value[i - 1]
    IN  value[Len(text)]

SignedValue(text, radix) ==
    IF \E i \in DOMAIN text : text[i] = "-" THEN -ValueOf(text, radix) ELSE ValueOf(text, radix)

(* The text is as wide as the field or as the number in it, and blanks are *)
(* on the side the flags ask for.                                          *)
Fills(s, text, number) ==
    LET blanks == IF "zeroes" \in s.flags THEN <<>>
                  ELSE Repeat(" ", Least0(s.width - Len(number)))
    IN  /\ Len(text) = Len(number) + Least0(s.width - Len(number))
        /\ "zeroes" \notin s.flags =>
              text = IF "left" \in s.flags THEN number \o blanks ELSE blanks \o number

(* An integer is what its type makes of the argument.  An unsigned char or *)
(* short with its highest bit set is not, unless taken out of its place:   *)
(* it is printed as a long long.                                           *)
Meant(n, size, unsigned) == IF unsigned THEN Wrapped(n, size) ELSE Extended(n, size)
Overextended(n, size, unsigned, positional) ==
    /\ unsigned /\ ~positional /\ size \in {1, 2}
    /\ Extended(n, size) < 0

IntegerShown(s, n, size, radix, unsigned, positional) ==
    LET text  == WriteIntegerValue(s, ReadInteger(n, size, positional), size, radix, unsigned)
        alone == WriteIntegerValue([s EXCEPT !.width = 0], ReadInteger(n, size, positional),
                                   size, radix, unsigned)
    IN  /\ Fills(s, text, alone)
        /\ ~Overextended(n, size, unsigned, positional) =>
              SignedValue(text, radix) = Meant(n, size, unsigned)

IntegersShown(s) ==
    \A size \in TypeSizes, radix \in {8, 10, 16}, unsigned, positional \in BOOLEAN :
        \A n \in {0, 1, Range2(size) \div 2 - 1, Range2(size) \div 2, Range2(size) - 1} :
            IntegerShown(s, n, size, radix, unsigned, positional)

(* A value is shown as the nearest number with the digits asked for.       *)
AbsoluteOf(n) == IF n < 0 THEN -n ELSE n
Shown(text) ==
    LET end      == PlaceOf(text, "e") - 1
        mantissa == SubSeq(text, 1, end)
        power    == IF end < Len(text) THEN SignedValue(SubSeq(text, end + 2, Len(text)), 10)
                    ELSE 0
    IN  ValueOf(mantissa, FloatBase) * Power(power - Behind(mantissa))

(* A value of one digit that carries to two shows both, though one was     *)
(* asked for, in a field that is one character too wide.                   *)
CarriesPastPrecision(s, form, n) ==
    /\ form = "g" /\ Precision(s, form) = 1 /\ GetBaseExponent(n) = 0
    /\ Rounded(n, form, 1, 0).exponent = 1

FloatShown(s, form, n, negative) ==
    LET text  == WriteDoubleValue(s, form, n, negative)
        alone == WriteDoubleValue([s EXCEPT !.width = 0], form, n, negative)
        last  == Power((CASE form = "f" -> 0 [] form = "e" -> GetBaseExponent(n)
                          [] form = "g" -> GetBaseExponent(n) + 1) - Precision(s, form))
    IN  /\ ~CarriesPastPrecision(s, form, n) => Fills(s, text, alone)
        /\ 2 * AbsoluteOf(Shown(SelectSeq(text, LAMBDA c : c # " ")) - n) <= last
        /\ negative <=> \E i \in 1 .. PlaceOf(text, "e") - 1 : text[i] = "-"

FloatsShown(s) ==
    \A form \in {"e", "f", "g"}, n \in Values, negative \in BOOLEAN :
        FloatShown(s, form, n, negative)

(* However long the exponent, the length computed is the length written.   *)
LayoutsFit(s) ==
    \A form \in {"e", "f", "g"}, exponent \in Exponents,
       digits \in {<<>>, <<"1">>, <<"1", "2">>, <<"1", "2", "3">>} :
        LET precision == Precision(s, form)
            kept      == IF form = "g" /\ Len(digits) > precision
                         THEN SubSeq(digits, 1, precision) ELSE digits
            power     == Scientific(form, precision, exponent)
            known     == IF digits = <<>> THEN 0 ELSE exponent
            counted   == Counted(form, power, precision, kept, known)
        IN  NumberLength(s, form, power, counted, kept, known)
              = Len(WriteDigits(s, form, power, counted, kept, known))

(* Hexadecimal: the nearest number too; but with an exponent of 10, 100 or *)
(* 1000 the field is one character too wide.                               *)
HexShown(s) ==
    \A fraction \in Fractions, exponent \in Exponents :
        LET negative == exponent < 0
            text  == WriteHexDoubleValue(s, FALSE, fraction, exponent, negative)
            alone == WriteHexDoubleValue([s EXCEPT !.width = 0], FALSE, fraction, exponent,
                                         negative)
            end   == PlaceOf(alone, "p")
            ones  == SubSeq(alone, PlaceOf(alone, "x") + 1, end - 1)
            last  == HexBase^(IF s.precision \in 0..HexPlaces THEN HexPlaces - s.precision ELSE 0)
        IN  /\ AbsoluteOf(exponent) \notin {10, 100, 1000} => Fills(s, text, alone)
            /\ 2 * AbsoluteOf(ValueOf(ones, HexBase) * HexBase^(HexPlaces - Behind(ones))
                                 - HexBase^HexPlaces - fraction) <= last
            /\ SignedValue(SubSeq(alone, end, Len(alone)), 10) = exponent

(* A string is cut to the precision and fills the width, never with zeroes. *)
StringsShown(s) ==
    \A length \in 0..4 :
        LET text == Repeat("a", length)
            kept == Repeat("a", IF s.precision \in 0..length THEN s.precision ELSE length)
        IN  \A written \in {WriteValue(s, text), WriteStringValue(s, text)} :
                Fills([s EXCEPT !.flags = @ \ {"zeroes"}], written, kept)

(* The arguments taken are those passed, as long as no boolean is printed  *)
(* by the 32-bit kernel, and "%n$" finds its argument if those before it   *)
(* are as long as a long long.                                             *)
ArgumentsMatched ==
    /\ (machine = "i686" => \A i \in DOMAIN passed : passed[i] # "boolean")
          => taken = SlotsOf(passed)
    /\ \A n \in DOMAIN passed :
          (\A i \in 1 .. n - 1 : Slots(passed[i]) = Slots("longlong"))
             => GetArgument(n) = SlotsOf(SubSeq(passed, 1, n - 1))

TextShown ==
    /\ passed = <<>> => /\ IntegersShown(style) /\ FloatsShown(style)
                        /\ LayoutsFit(style) /\ HexShown(style) /\ StringsShown(style)
    /\ ArgumentsMatched
=============================================================================
