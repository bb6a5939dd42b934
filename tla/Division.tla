------------------------------ MODULE Division ------------------------------
(***************************************************************************)
(* The division of 64-bit numbers out of 32-bit words in rtl/math.cc, which *)
(* the compiler calls for every such division of the 32-bit kernel, checked *)
(* against arithmetic.  A word is scaled down to HalfBits bits, so that     *)
(* every dividend meets every divisor.                                      *)
(*                                                                         *)
(* What a division may return is a set: one result, or any where a word is *)
(* shifted by its whole width, which C++ leaves undefined.                 *)
(***************************************************************************)
EXTENDS Integers

CONSTANT HalfBits           \* width of a word

VARIABLE dividend           \* the dividend tried

divisionVars == <<dividend>>

DoubleWords == 0 .. 2^(2 * HalfBits) - 1
Half == 2^(2 * HalfBits - 1)            \* the sign bit of a number
High(n) == n \div 2^HalfBits
Low(n) == n % 2^HalfBits
DoubleWord(high, low) == high * 2^HalfBits + low

(* Undefined for zero; no path of the code asks for it and uses it.        *)
CountLeadingZeroes(bits) ==
    CHOOSE n \in 0..HalfBits : bits * 2^n \in 2^(HalfBits - 1) .. 2^HalfBits - 1 \/ bits = 0

Result(quotient, remainder) == [quotient |-> quotient, remainder |-> remainder]
NoRemainder == -1                       \* left as it was
Undefined == [quotient : DoubleWords, remainder : DoubleWords]

DivisionInit == dividend = 0
DivisionNext == dividend + 1 \in DoubleWords /\ dividend' = dividend + 1

----------------------------------------------------------------------------
(* The code.                                                               *)

(* A mutant: without the one, a remainder equal to the divisor stays.      *)
FitsBelow(divisor, remainder) == (divisor - remainder) % (2 * Half) >= Half

(* Is the divisor at most the remainder: the sign of what is left of it.   *)
Fits(divisor, remainder) == (divisor - remainder - 1) % (2 * Half) >= Half

(* One bit of the quotient: remainder and quotient move left as one, and   *)
(* the bit found last enters below.                                        *)
NextBit(state, divisor) ==
    LET shifted == (2 * state.remainder + state.quotient \div Half) % (2 * Half)
        fits    == Fits(divisor, shifted)
    IN  [remainder |-> IF fits THEN shifted - divisor ELSE shifted,
         quotient  |-> ((2 * state.quotient) % (2 * Half)) + state.carry,
         carry     |-> IF fits THEN 1 ELSE 0]

(* The last count bits of the dividend are divided; those before them are  *)
(* less than the divisor and are the remainder to begin with.              *)
LongDivision(n, divisor, count) ==
    LET state[i \in 0..count] ==
            IF i = 0 THEN [remainder |-> n \div 2^count,
                           quotient  |-> (n * 2^(2 * HalfBits - count)) % (2 * Half),
                           carry     |-> 0]
            ELSE NextBit(state[i - 1], divisor)
    IN  Result(((2 * state[count].quotient) % (2 * Half)) + state[count].carry,
               state[count].remainder)

DivideUnsigned64(n, divisor) ==
    LET gap   == CountLeadingZeroes(High(divisor)) - CountLeadingZeroes(High(n))
        count == IF High(divisor) # 0 THEN gap + 1
                 ELSE HalfBits + 1 + CountLeadingZeroes(Low(divisor))
                        - CountLeadingZeroes(High(n))
        most  == IF Low(divisor) # 0 THEN HalfBits - 1 ELSE HalfBits - 2
    IN  IF divisor = 0 THEN {Result(0, NoRemainder)}
        ELSE IF High(n) = 0 /\ High(divisor) = 0
        THEN {Result(Low(n) \div Low(divisor), Low(n) % Low(divisor))}
        ELSE IF High(n) = 0 THEN {Result(0, n)}
        ELSE IF Low(divisor) = 0 /\ Low(n) = 0
        THEN {Result(High(n) \div High(divisor), DoubleWord(High(n) % High(divisor), 0))}
        ELSE IF High(divisor) # 0 /\ gap \notin 0..most THEN {Result(0, n)}
        ELSE IF count = 2 * HalfBits THEN Undefined
        ELSE {LongDivision(n, divisor, count)}

Signed(n) == LET bits == n % (2 * Half) IN IF bits >= Half THEN bits - 2 * Half ELSE bits
Magnitude(n) == IF n < 0 THEN -n ELSE n

Divide64(n, divisor) ==
    {LET quotient == Signed(IF n < 0 <=> divisor < 0 THEN r.quotient ELSE -r.quotient)
     IN  Result(quotient, Signed(n - quotient * divisor)) :
        r \in DivideUnsigned64(Magnitude(n), Magnitude(divisor))}

_allrem(n, divisor) == {r.remainder : r \in Divide64(n, divisor)}

----------------------------------------------------------------------------
(* What it should return: the quotient rounded towards zero.               *)
Exact(n, divisor) == Result(n \div divisor, n % divisor)
SignedExact(n, divisor) ==
    LET e == Exact(Magnitude(n), Magnitude(divisor))
    IN  Result(Signed(IF n < 0 <=> divisor < 0 THEN e.quotient ELSE -e.quotient),
               IF n < 0 THEN -e.remainder ELSE e.remainder)

(* The two divisors for which the code goes wrong once the dividend has    *)
(* its highest bit: by 1 it shifts by the width of a word, and for a one   *)
(* in the upper word alone it takes the quotient for zero.                 *)
Misdivided(n, divisor) ==
    /\ n >= Half
    /\ divisor = 1 \/ (divisor = 2^HalfBits /\ Low(n) # 0)

(* Every other division is exact, unsigned and signed.                     *)
DivisionExact ==
    \A d \in DoubleWords \ {0} :
        /\ ~Misdivided(dividend, d) => DivideUnsigned64(dividend, d) = {Exact(dividend, d)}
        /\ ~Misdivided(Magnitude(Signed(dividend)), Magnitude(Signed(d))) =>
              /\ Divide64(Signed(dividend), Signed(d))
                    = {SignedExact(Signed(dividend), Signed(d))}
              /\ _allrem(Signed(dividend), Signed(d))
                    = {SignedExact(Signed(dividend), Signed(d)).remainder}
=============================================================================
