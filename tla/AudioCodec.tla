------------------------------ MODULE AudioCodec ------------------------------
(***************************************************************************)
(* How numbers become the characters of a say message and numbers again:   *)
(* rcsc/common/audio_codec.cpp and the arithmetic that the message         *)
(* builders and parsers share.                                             *)
(*                                                                         *)
(* A field is a number that is clamped, scaled, rounded to an index below  *)
(* its radix, and packed with its neighbours into one mixed-radix integer  *)
(* (boost::int64_t); encodeInt64ToStr writes that integer in base 74, one  *)
(* character a digit.  The integers exceed those of TLC, so one is kept    *)
(* here as its digits from the start: multiplying by a radix and adding an *)
(* index, or dividing by a radix, works on them as on paper.               *)
(*                                                                         *)
(* Units: mm, mm per cycle, tenths of a degree, thousandths of a rate.     *)
(***************************************************************************)
EXTENDS Integers, Sequences

CHAR_SIZE == 74
Char == 0..(CHAR_SIZE - 1)

min_max(lo, v, hi) == IF v < lo THEN lo ELSE IF v > hi THEN hi ELSE v

\* rint(p / q): to the nearest integer, a half to the even one.
rint(p, q) ==
    LET n == p \div q
        r == 2 * (p % q)
    IN  IF r > q \/ (r = q /\ n % 2 = 1) THEN n + 1 ELSE n

-----------------------------------------------------------------------------
(* Fields.                                                                 *)

\* Where the code has no bound on the index, or refuses no value.
Unbounded == 1000000

\* What toStr does with a number: refused outside [from, to], clamped to [lo, hi],
\* off subtracted, scaled by num / den, rounded, bounded by top.
Enc(kind, lo, hi, off, num, den, top, radix) ==
    [kind |-> kind, from |-> -Unbounded, to |-> Unbounded, lo |-> lo, hi |-> hi, off |-> off,
     num |-> num, den |-> den, top |-> top, radix |-> radix]

Within(from, to, f) == [f EXCEPT !.from = from, !.to = to]

Clamped(f, v) == min_max(f.lo, v, f.hi)
Index(f, v)   == min_max(0, rint((Clamped(f, v) - f.off) * f.num, f.den), f.top)

\* What parse does with an index: ix * (den / num) + off.  The result is the fraction
\* val / scale, known to `step' / scale.
Dec(off, num, den, radix) == [off |-> off, num |-> num, den |-> den, radix |-> radix]
Number(f, ix) == [val |-> ix * f.den + f.off * f.num, scale |-> f.num, step |-> f.den]

\* A number was said as what is read: half a step from the value the builder encodes, and
\* a whole step where the field has no index for its upper end.
Faithful(f, value, number) ==
    LET distance == number.val - Clamped(f, value) * number.scale
        error    == IF distance < 0 THEN -distance ELSE distance
    IN  (IF Index(f, value) = f.top THEN 1 ELSE 2) * error <= number.step

\* A whole number from `from' on, and back.
EncInt(kind, from, to, radix) == Within(from, to, Enc(kind, from, to, from, 1, 1, Unbounded, radix))
DecInt(from, radix) == Dec(from, 1, 1, radix)

\* posToBit18, posToBit19, posVelToBit31: 9 or 10 bits a coordinate, 6 a speed up to
\* ServerParam::ballSpeedMax(), 3.0.
X9    == Enc("x", -52000, 52000, -52000, 511, 104000, Unbounded, 512)
X10   == Enc("x", -52500, 52500, -52500, 1023, 105000, Unbounded, 1024)
Y9    == Enc("y", -34000, 34000, -34000, 511, 68000, Unbounded, 512)
Speed == Enc("speed", -3000, 3000, -3000, 63, 6000, Unbounded, 64)
PosToBit18    == <<X9, Y9>>
PosToBit19    == <<X10, Y9>>
PosVelToBit31 == PosToBit19 \o <<Speed, Speed>>

DX9    == Dec(-52000, 511, 104000, 512)
DX10   == Dec(-52500, 1023, 105000, 1024)
DY9    == Dec(-34000, 511, 68000, 512)
DSpeed == Dec(-3000, 63, 6000, 64)
Bit18ToPos    == <<DX9, DY9>>
Bit19ToPos    == <<DX10, DY9>>
Bit31ToPosVel == Bit19ToPos \o <<DSpeed, DSpeed>>

\* encodeUnumPosToStr4 puts the number, of a teammate, behind the position.
UnumPos   == PosToBit19 \o <<Within(1, 11, Enc("unum", 1, 11, 0, 1, 1, Unbounded, 16))>>
ToUnumPos == Bit19ToPos \o <<Dec(0, 1, 1, 16)>>

\* encodePercentageToChar, decodeCharToPercentage, of what lies between off and off + range.
Percentage(kind, lo, off, range) == Enc(kind, lo, off + range, off, CHAR_SIZE - 1, range, Unbounded, CHAR_SIZE)
ToPercentage(off, range) == Dec(off, CHAR_SIZE - 1, range, CHAR_SIZE)

-----------------------------------------------------------------------------
(* Packing.  A number is the sequence of its base 74 digits, as many as    *)
(* there are characters, the most significant first; that one is what is   *)
(* left of the number and may be 74 or more until encodeInt64ToStr looks.  *)

\* digits * radix + index.
MulAdd(digits, radix, index) ==
    LET n == Len(digits)
        sum[i \in 1..n] == digits[i] * radix
                             + (IF i = n THEN index ELSE sum[i + 1] \div CHAR_SIZE)
    IN  [i \in 1..n |-> IF i = 1 THEN sum[1] ELSE sum[i] % CHAR_SIZE]

\* The quotient, in place of the digits, and the remainder.
Divide(digits, radix) ==
    LET part[i \in 0..Len(digits)] ==
          IF i = 0 THEN 0 ELSE (part[i - 1] % radix) * CHAR_SIZE + digits[i]
    IN  [quotient  |-> [i \in 1..Len(digits) |-> part[i] \div radix],
         remainder |-> part[Len(digits)] % radix]

Zero(len) == [i \in 1..len |-> 0]

\* The characters of the values: nothing if encodeInt64ToStr refuses.
Encode(len, fields, values) ==
    LET digits[k \in 0..Len(fields)] ==
          IF k = 0 THEN Zero(len)
          ELSE MulAdd(digits[k - 1], fields[k].radix, Index(fields[k], values[k]))
        number == digits[Len(fields)]
    IN  IF number[1] < CHAR_SIZE THEN number ELSE <<>>

\* The numbers in the characters, the last field first.
Decode(fields, str) ==
    LET n == Len(fields)
        rest[k \in 1..(n + 1)] ==
          IF k = n + 1 THEN str ELSE Divide(rest[k + 1], fields[k].radix).quotient
    IN  [k \in 1..n |-> Number(fields[k], Divide(rest[k + 1], fields[k].radix).remainder)]
=============================================================================
