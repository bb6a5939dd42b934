------------------------------ MODULE Strings ------------------------------
(***************************************************************************)
(* The strings of rtl/string.cc and rtl/widestr.cc, which are the same     *)
(* code for characters of one and of two bytes, checked against what they  *)
(* do to sequences of characters.                                          *)
(*                                                                         *)
(* A character is its code: 0 ends a string, 1 is a blank, then come the   *)
(* upper-case letters and as many lower-case ones.                         *)
(***************************************************************************)
EXTENDS Integers, Sequences

CONSTANTS Letters,          \* number of letters
          MaxText,          \* bound: characters of a string
          MaxNumeral,       \* bound: characters of a number
          MAXULONG          \* the greatest number

VARIABLES sample,           \* a string
          numeral           \* a string to be read as a number

stringVars == <<sample, numeral>>

Blank == 1
UpperCase == 2 .. Letters + 1
LowerCase == Letters + 2 .. 2 * Letters + 1
Characters == {Blank} \cup UpperCase \cup LowerCase
Texts == UNION {[1..n -> Characters] : n \in 0..MaxText}

(* The character at an offset; the one at the length ends the string.      *)
CharacterAt(string, offset) == IF offset < Len(string) THEN string[offset + 1] ELSE 0

(* The first offset at which a loop over the string stops.                 *)
FirstOffset(from, Stops(_)) ==
    CHOOSE i \in from .. from + MaxText + 1 :
        Stops(i) /\ \A j \in from .. i - 1 : ~Stops(j)

Beginning(string, length) ==
    IF length < Len(string) THEN SubSeq(string, 1, length) ELSE string

ToLowerWideCharacter(c) == IF c \in UpperCase THEN c + Letters ELSE c

(* A mutant: a limit of zero is a limit.                                   *)
AtLimitOfZero(index, limit) == index = limit

(* A limit of zero is no limit.                                            *)
AtLimit(index, limit) == index # 0 /\ index = limit

CompareWideString(s, t, limit) ==
    LET Stops(i) == AtLimit(i, limit) \/ CharacterAt(s, i) # CharacterAt(t, i) \/ CharacterAt(s, i) = 0
        end      == FirstOffset(0, Stops)
    IN  IF AtLimit(end, limit) \/ CharacterAt(s, end) = CharacterAt(t, end) THEN 0
        ELSE IF CharacterAt(s, end) < CharacterAt(t, end) THEN -1 ELSE 1

(* Ends with the shorter string.                                           *)
CompareWideStringInsensitive(s, t, limit) ==
    LET Lower(string, i) == ToLowerWideCharacter(CharacterAt(string, i))
        Ends(i)  == CharacterAt(s, i) = 0 \/ CharacterAt(t, i) = 0 \/ AtLimit(i, limit)
        Stops(i) == Ends(i) \/ Lower(s, i) # Lower(t, i)
        end      == FirstOffset(0, Stops)
    IN  IF Ends(end) THEN 0 ELSE IF Lower(s, end) > Lower(t, end) THEN 1 ELSE -1

WideStringLength(s, limit) ==
    LET Stops(i) == AtLimit(i, limit) \/ CharacterAt(s, i) = 0 IN FirstOffset(0, Stops)

ConcatenateWideString(d, s, count) == d \o (IF count = 0 THEN s ELSE Beginning(s, count))

(* What is written: the characters copied, and the end after them.         *)
CopyWideString(s, length) == Beginning(s, length) \o <<0>>

None == -1
FindBy(s, search, Same(_, _)) ==
    LET Matches(i) == LET Stops(k) == \/ CharacterAt(s, i + k) = 0 \/ CharacterAt(search, k) = 0
                                      \/ ~Same(CharacterAt(s, i + k), CharacterAt(search, k))
                      IN  CharacterAt(search, FirstOffset(0, Stops)) = 0
        Stops(i)   == CharacterAt(s, i) = 0 \/ Matches(i)
        end        == FirstOffset(0, Stops)
    IN  IF search = <<>> THEN 0 ELSE IF CharacterAt(s, end) = 0 THEN None ELSE end
FindWideString(s, search) == LET Same(c, d) == c = d IN FindBy(s, search, Same)
FindWideStringInsensitive(s, search) ==
    LET Same(c, d) == ToLowerWideCharacter(c) = ToLowerWideCharacter(d)
    IN  FindBy(s, search, Same)

(* The first half is exchanged with the last.                              *)
ReverseWideString(s) ==
    LET half == Len(s) \div 2
    IN  [i \in DOMAIN s |-> IF i <= half \/ i > Len(s) - half THEN s[Len(s) - i + 1] ELSE s[i]]

(* A token and where the next begins.  Its first character is not looked   *)
(* at, so that it may be the delimiter.                                    *)
TokenizeWideString(s, from, delimiter) ==
    LET Stops(i) == CharacterAt(s, i) \in {0, delimiter}
        end      == FirstOffset(from + 1, Stops)
    IN  IF from = None \/ CharacterAt(s, from) = 0 THEN [token |-> <<>>, next |-> None]
        ELSE [token |-> SubSeq(s, from + 1, end),
              next  |-> IF CharacterAt(s, end) = 0 THEN None ELSE end + 1]

Tokens(s, delimiter) ==
    LET tokens[from \in {None} \cup Nat] ==
            LET found == TokenizeWideString(s, from, delimiter)
            IN  IF found.token = <<>> THEN <<>> ELSE <<found.token>> \o tokens[found.next]
    IN  tokens[0]

TrimLeftWideString(s) ==
    LET Stops(i) == CharacterAt(s, i) # Blank IN SubSeq(s, FirstOffset(0, Stops) + 1, Len(s))

(* Begins with the end of the string, which is no blank.                   *)
TrimRightWideString(s) ==
    LET end == CHOOSE i \in 0..Len(s) :
                  /\ i = 0 \/ CharacterAt(s, i) # Blank
                  /\ \A j \in i + 1 .. Len(s) : CharacterAt(s, j) = Blank
    IN  SubSeq(s, 1, end)

TrimWideString(s) == TrimLeftWideString(TrimRightWideString(s))

----------------------------------------------------------------------------
(* Numbers.  Their characters are written as they are.                     *)
NumeralCharacters == {" ", "-", "+", "0", "1", "9", "f", "x", "o", "b"}
NumeralAt(s, i) == IF i \in DOMAIN s THEN s[i] ELSE ""
DigitOf(c) == CASE c = "0" -> 0 [] c = "1" -> 1 [] c = "9" -> 9 [] c = "b" -> 11
                [] c = "f" -> 15 [] OTHER -> 16

AfterBlanks(s) ==
    LET first == CHOOSE i \in 1 .. Len(s) + 1 :
                    NumeralAt(s, i) # " " /\ \A j \in 1 .. i - 1 : s[j] = " "
    IN  SubSeq(s, first, Len(s))
AfterSign(s) == IF NumeralAt(s, 1) \in {"-", "+"} THEN Tail(s) ELSE s

(* The base a prefix names; it is skipped where it is the base in use.     *)
Prefixed(s) ==
    IF NumeralAt(s, 1) # "0" THEN 10
    ELSE CASE NumeralAt(s, 2) = "x" -> 16 [] NumeralAt(s, 2) = "o" -> 8
           [] NumeralAt(s, 2) = "b" -> 2 [] OTHER -> 10

WideStringToNumber(s, base) ==
    LET unsigned == AfterSign(AfterBlanks(s))
        negative == NumeralAt(AfterBlanks(s), 1) = "-"
        actual   == IF base = 0 THEN Prefixed(unsigned) ELSE base
        digits   == IF actual # 10 /\ Prefixed(unsigned) = actual
                    THEN SubSeq(unsigned, 3, Len(unsigned)) ELSE unsigned
        result[i \in 0..Len(digits)] ==
            IF i = 0 THEN [value |-> 0, state |-> "reading"]
            ELSE LET r == result[i - 1]
                     d == DigitOf(digits[i])
                 IN  IF r.state # "reading" THEN r
                     ELSE IF d >= actual THEN [r EXCEPT !.state = "read"]
                     ELSE IF r.value > MAXULONG \div actual \/ r.value * actual > MAXULONG - d
                     THEN [r EXCEPT !.state = "overflow"]
                     ELSE [r EXCEPT !.value = @ * actual + d]
        last == result[Len(digits)]
    IN  IF base \notin {0, 2, 8, 10, 16} THEN [status |-> "invalid"]
        ELSE IF last.state = "overflow" THEN [status |-> "overflow"]
        ELSE [status |-> "success",
              value  |-> IF negative THEN (-last.value) % (MAXULONG + 1) ELSE last.value]

----------------------------------------------------------------------------
StringsInit == sample = <<>> /\ numeral = <<>>

AppendCharacter ==
    /\ Len(sample) < MaxText /\ numeral = <<>>
    /\ \E c \in Characters : sample' = Append(sample, c)
    /\ UNCHANGED numeral

AppendDigit ==
    /\ Len(numeral) < MaxNumeral /\ sample = <<>>
    /\ \E c \in NumeralCharacters : numeral' = Append(numeral, c)
    /\ UNCHANGED sample

StringsNext == AppendCharacter \/ AppendDigit

----------------------------------------------------------------------------
(* References.                                                             *)
LowerCased(s) == [i \in DOMAIN s |-> ToLowerWideCharacter(s[i])]
IsBeginning(s, t) == Beginning(t, Len(s)) = s
Precedes(s, t) ==
    \E i \in 0 .. Len(s) : /\ Beginning(s, i) = Beginning(t, i) /\ i < Len(t)
                           /\ i = Len(s) \/ s[i + 1] < t[i + 1]
Limited(s, limit) == IF limit = 0 THEN s ELSE Beginning(s, limit)

Compared(s, t) == IF s = t THEN 0 ELSE IF Precedes(s, t) THEN -1 ELSE 1

OccursAt(s, search, i) == /\ i + Len(search) <= Len(s)
                          /\ SubSeq(s, i + 1, i + Len(search)) = search
FirstOccurrence(s, search) ==
    IF \E i \in 0..Len(s) : OccursAt(s, search, i)
    THEN CHOOSE i \in 0..Len(s) : /\ OccursAt(s, search, i)
                                  /\ \A j \in 0 .. i - 1 : ~OccursAt(s, search, j)
    ELSE None

Joined(tokens, delimiter) ==
    LET joined[i \in 1..Len(tokens)] ==
            IF i = 1 THEN tokens[1] ELSE joined[i - 1] \o <<delimiter>> \o tokens[i]
    IN  IF tokens = <<>> THEN <<>> ELSE joined[Len(tokens)]

(* Where the code does less than its comments promise, each a disagreement *)
(* the README lists: without regard to case a string is taken for equal to *)
(* its beginnings, limit or none; a delimiter in front, or behind another, *)
(* begins a token; blanks at the end are left, for the scan backwards      *)
(* starts at the character that ends the string.                           *)
CutShort(s, t) == s # t /\ (IsBeginning(s, t) \/ IsBeginning(t, s))
StrayDelimiter(s, delimiter) ==
    \E i \in DOMAIN s : s[i] = delimiter /\ (i = 1 \/ s[i - 1] = delimiter)
EndsBlank(s) == s # <<>> /\ s[Len(s)] = Blank

Blanks(n) == [i \in 1..n |-> Blank]
Trimmed(s, t) ==
    /\ \E m, n \in 0..Len(s) : s = Blanks(m) \o t \o Blanks(n)
    /\ t # <<>> => t[1] # Blank /\ (EndsBlank(s) \/ t[Len(t)] # Blank)

(* The strings do what the comments of the routines say.  Comparing is     *)
(* lexical, of at most as many characters as the limit, or of the whole    *)
(* strings without one, with regard to case or without it.  Finding finds  *)
(* the first occurrence.  A copy or an addition ends where it was limited. *)
(* The tokens lie between the delimiters: put together again they are the  *)
(* string, and there is no delimiter in them.  Trimming removes the blanks *)
(* at both ends and nothing else.  The exceptions are those named above.   *)
TextsKept(s) ==
    /\ \A t \in Texts :
          /\ \A limit \in 0 .. MaxText :
                LET a == Limited(s, limit) b == Limited(t, limit) IN
                /\ CompareWideString(s, t, limit) = Compared(a, b)
                /\ \/ CutShort(LowerCased(a), LowerCased(b))
                   \/ CompareWideStringInsensitive(s, t, limit) = Compared(LowerCased(a), LowerCased(b))
          /\ FindWideString(s, t) = FirstOccurrence(s, t)
          /\ FindWideStringInsensitive(s, t) = FirstOccurrence(LowerCased(s), LowerCased(t))
    /\ \A limit \in 0 .. MaxText :
          /\ WideStringLength(s, limit) = Len(Limited(s, limit))
          /\ WideStringLength(CopyWideString(s, limit), 0) <= limit
          /\ limit # 0 => CompareWideString(s, CopyWideString(s, limit), limit) = 0
          /\ WideStringLength(ConcatenateWideString(<<>>, s, limit), 0) = WideStringLength(s, limit)
    /\ ReverseWideString(s) = [i \in DOMAIN s |-> s[Len(s) + 1 - i]]
    /\ LET tokens == Tokens(s, Blank) IN
          /\ s \in {Joined(tokens, Blank), Joined(tokens, Blank) \o <<Blank>>}
          /\ \/ StrayDelimiter(s, Blank)
             \/ \A k \in DOMAIN tokens : \A i \in DOMAIN tokens[k] : tokens[k][i] # Blank
    /\ Trimmed(s, TrimWideString(s))

(* A number is what its longest run of digits says, or an overflow if that *)
(* does not fit.                                                           *)
NumeralsRead(s) ==
    \A base \in {0, 2, 8, 10, 16} :
        LET plain  == AfterSign(AfterBlanks(s))
            marked == Prefixed(plain) # 10 /\ base \in {0, Prefixed(plain)}
            radix  == IF base = 0 THEN Prefixed(plain) ELSE base
            rest   == IF marked THEN SubSeq(plain, 3, Len(plain)) ELSE plain
            length == CHOOSE n \in 0..Len(rest) :
                         /\ \A i \in 1..n : DigitOf(rest[i]) < radix
                         /\ n = Len(rest) \/ DigitOf(rest[n + 1]) >= radix
            sum[i \in 0..length] == IF i = 0 THEN 0 ELSE radix * sum[i - 1] + DigitOf(rest[i])
            read   == WideStringToNumber(s, base)
        IN  IF sum[length] > MAXULONG THEN read.status = "overflow"
            ELSE /\ read.status = "success"
                 /\ read.value = (IF NumeralAt(AfterBlanks(s), 1) = "-" THEN -sum[length]
                                  ELSE sum[length]) % (MAXULONG + 1)

StringsKept ==
    /\ numeral = <<>> => TextsKept(sample)
    /\ sample = <<>> => NumeralsRead(numeral)
=============================================================================
