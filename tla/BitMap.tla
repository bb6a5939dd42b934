------------------------------- MODULE BitMap -------------------------------
(***************************************************************************)
(* The bit map of rtl/bitmap.cc.  The bits are kept in words of WordBits   *)
(* bits; a run of bits is set or cleared as the rest of a first word, the  *)
(* whole bytes after it and the first bits of a last word, and a region is *)
(* searched for by counting equal bits word by word.                       *)
(*                                                                         *)
(* Against the words stands the set of bits the callers believe to be set. *)
(***************************************************************************)
EXTENDS Integers, FiniteSetsExt

CONSTANTS WordBits,     \* BITS_PER_LONG
          ByteBits,     \* the bits of a byte
          IntBits,      \* the bits of an int, the type of the constant 1
          MapSize,      \* BitMap->Size
          Lengths       \* the lengths of the regions asked for

VARIABLES buffer,       \* the bits of BitMap->Buffer that are set
          held,         \* the bits that the calls so far have set
          alike,        \* history, for set bits (TRUE) and clear ones (FALSE):
                        \* every region returned by a search for such bits
                        \* held no others
          unseen,       \* history: a region was returned of which CountBits
                        \* had not looked at every word
          widened       \* history: a single bit was set or cleared whose
                        \* number within its word is not below IntBits - 1

bitMapVars == <<buffer, held, alike, unseen, widened>>

NoRegion == -1
AllBits == 0..MapSize - 1
WordOf(bit) == bit \div WordBits
WordsFor(bits) == (bits + WordBits - 1) \div WordBits
Span(start, length) == start .. start + length - 1

BitMapInit ==
    /\ buffer = {} /\ held = {} /\ alike = [set \in BOOLEAN |-> TRUE]
    /\ unseen = FALSE /\ widened = FALSE

(* The bits that SetBits and ClearBits write: those left of the word in    *)
(* which the run starts, then whole bytes by SetMemory, then, counted from *)
(* the last whole word, the bits that remain.                              *)
FirstPartWhole(start, length) ==
    IF start % WordBits = 0 THEN 0 ELSE WordBits - (start % WordBits)

FirstPart(start, length) ==
    IF start % WordBits = 0 THEN 0 ELSE Min({length, WordBits - (start % WordBits)})

Written(start, length) ==
    LET head == FirstPart(start, length)
        rest == length - head
        body == start + head
    IN  Span(start, head)
        \cup Span(body, ByteBits * (rest \div ByteBits))
        \cup Span(body + rest - (rest % WordBits), rest % WordBits)

(* The bits of (1 << number) once it is widened to a word: the shift is of *)
(* an int, its count taken modulo the width of one as the processor does,  *)
(* and the sign is carried into the upper half.                            *)
SingleBit(bit) ==
    LET first == WordBits * WordOf(bit)
        shift == (bit % WordBits) % IntBits
    IN  IF shift = IntBits - 1 THEN Span(first + shift, WordBits - shift)
        ELSE {first + shift}

(* CountBits looks at as many words as length bits fill when they start at *)
(* a word, whichever bit they start at, and at one word at least.          *)
LastWord(length, start) == WordOf(start) + Max({1, WordsFor(length)}) - 1

CountBits(length, start, set) ==
    LET looked == start .. WordBits * (LastWord(length, start) + 1) - 1
        other  == {b \in looked : (b \in buffer) # set}
    IN  IF other = {} THEN length ELSE Min({length, Min(other) - start})

(* One pass of FindBits over the bits from a first one to end.             *)
Pass(length, from, end, set) ==
    LET scan[o \in 0..MapSize] ==
            IF o + length >= end THEN NoRegion
            ELSE LET b == o + CountBits(MapSize - o, o, ~set)
                     n == CountBits(length, b, set)
                 IN  IF b + length > end THEN NoRegion
                     ELSE IF n >= length THEN b
                     ELSE scan[b + n]
    IN  scan[from]

(* FindBits searches to the end of the map and then the part before the    *)
(* start; the third of its passes repeats the second.                      *)
FindBits(length, index, set) ==
    LET start == IF index >= MapSize THEN 0 ELSE index
        later == Pass(length, start, MapSize, set)
    IN  IF length > MapSize THEN NoRegion
        ELSE IF later # NoRegion THEN later
        ELSE Pass(length, 0, start, set)

Searched(length, start, set) ==
    /\ alike' = [alike EXCEPT ![set] = @ /\ \A b \in Span(start, length) : (b \in held) = set]
    /\ unseen' = (unseen \/ WordOf(start + length - 1) > LastWord(length, start))

SetClearBits(length, index) ==
    LET start == FindBits(length, index, FALSE)
    IN  /\ start # NoRegion
        /\ Searched(length, start, FALSE)
        /\ buffer' = buffer \cup Written(start, length)
        /\ held' = held \cup Span(start, length)
        /\ UNCHANGED widened

ClearSetBits(length, index) ==
    LET start == FindBits(length, index, TRUE)
    IN  /\ start # NoRegion
        /\ Searched(length, start, TRUE)
        /\ buffer' = buffer \ Written(start, length)
        /\ held' = held \ Span(start, length)
        /\ UNCHANGED widened

SetBits(start, length) ==
    /\ buffer' = buffer \cup Written(start, length)
    /\ held' = held \cup Span(start, length)
    /\ UNCHANGED <<alike, unseen, widened>>

ClearBits(start, length) ==
    /\ buffer' = buffer \ Written(start, length)
    /\ held' = held \ Span(start, length)
    /\ UNCHANGED <<alike, unseen, widened>>

Single(bit) == widened' = (widened \/ bit % WordBits >= IntBits - 1)

SetBit(bit) ==
    /\ buffer' = buffer \cup SingleBit(bit)
    /\ held' = held \cup {bit}
    /\ Single(bit)
    /\ UNCHANGED <<alike, unseen>>

ClearBit(bit) ==
    /\ buffer' = buffer \ SingleBit(bit)
    /\ held' = held \ {bit}
    /\ Single(bit)
    /\ UNCHANGED <<alike, unseen>>

(* SetAllBits and ClearAllBits write whole words, past Size too.           *)
SetAllBits ==
    /\ buffer' = 0 .. WordBits * WordsFor(MapSize) - 1
    /\ held' = AllBits
    /\ UNCHANGED <<alike, unseen, widened>>

ClearAllBits ==
    /\ buffer' = {} /\ held' = {}
    /\ UNCHANGED <<alike, unseen, widened>>

TestBit(bit) == bit < MapSize /\ bit \in buffer

BitMapNext ==
    \/ \E n \in Lengths, i \in AllBits :
        \/ SetClearBits(n, i) \/ ClearSetBits(n, i)
        \/ i + n <= MapSize /\ (SetBits(i, n) \/ ClearBits(i, n))
    \/ \E b \in AllBits : SetBit(b) \/ ClearBit(b)
    \/ SetAllBits \/ ClearAllBits

BitMapSpec == BitMapInit /\ [][BitMapNext]_bitMapVars

----------------------------------------------------------------------------
(* A region that SetClearBits returns holds nothing but clear bits before  *)
(* it is set: a bit that an earlier caller holds is not given to another.  *)
RegionsAlike == alike[FALSE]

(* The words hold the bits the callers set, and no search returns a region *)
(* with a bit of the other kind, as long as no region reached past the     *)
(* words CountBits had looked at and no bit of the upper half of a word    *)
(* was set or cleared on its own.                                          *)
BitMapExact ==
    ~unseen /\ ~widened =>
        alike[FALSE] /\ alike[TRUE] /\ {b \in AllBits : TestBit(b)} = held
=============================================================================
