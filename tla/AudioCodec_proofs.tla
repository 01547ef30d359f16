--------------------------- MODULE AudioCodec_proofs ---------------------------
(***************************************************************************)
(* That a number packed into the characters of a say message is read back, *)
(* for every length, every row of fields and every number.                 *)
(*                                                                         *)
(*   FieldSurvives   an encoder and a decoder of one scale keep a number   *)
(*                   to half a step, or a step at an upper end cut off     *)
(*   DivideMulAdd    dividing undoes multiplying and adding                *)
(*   EncodeAccepts   fields with room in their characters are not refused  *)
(*   DecodeEncode    and their indices come apart again                    *)
(*   ChunkSurvives   so a chunk of matching fields is read as it was said  *)
(*                                                                         *)
(* The recursions of MulAdd, Divide, Encode and Decode go over digits and  *)
(* fields: NatTheorems has the existence and the induction that they need. *)
(***************************************************************************)
EXTENDS AudioCodec, NatTheorems

\* rint takes a number to one at most a half away.
LEMMA RintNearest ==
    ASSUME NEW p \in Nat, NEW q \in Nat \ {0}
    PROVE  /\ rint(p, q) \in Nat
           /\ 2 * (rint(p, q) * q - p) <= q
           /\ 2 * (p - rint(p, q) * q) <= q
<1> DEFINE d == p \div q
           m == p % q
<1>1. p = q * d + m /\ m \in 0 .. (q - 1) /\ d \in Nat
  BY DivMod
<1>2. rint(p, q) = d \/ rint(p, q) = d + 1
  BY DEF rint
<1>3. rint(p, q) = d => 2 * m <= q
  <2>1. rint(p, q) = IF 2 * m > q \/ (2 * m = q /\ d % 2 = 1) THEN d + 1 ELSE d
    BY DEF rint
  <2> HIDE DEF d, m
  <2> QED BY <1>1, <2>1
<1>4. rint(p, q) = d + 1 => 2 * m >= q
  <2>1. rint(p, q) = IF 2 * m > q \/ (2 * m = q /\ d % 2 = 1) THEN d + 1 ELSE d
    BY DEF rint
  <2> HIDE DEF d, m
  <2> QED BY <1>1, <2>1
<1> DEFINE e == q * d
<1>5. e \in Nat /\ p = e + m
  BY <1>1, Z3
<1>6. rint(p, q) = d => rint(p, q) * q = e
  BY <1>1, Z3
<1>7. rint(p, q) = d + 1 => rint(p, q) * q = e + q
  BY <1>1, Z3
<1> HIDE DEF d, m, e
<1> QED BY <1>1, <1>2, <1>3, <1>4, <1>5, <1>6, <1>7

\* A field as builders make them: whole numbers, a range from its offset on that fits below
\* its last index and a step.
IsEncoder(f) ==
    /\ f.lo \in Int /\ f.hi \in Int /\ f.off \in Int
    /\ f.num \in Nat \ {0} /\ f.den \in Nat \ {0} /\ f.top \in Nat
    /\ f.off <= f.lo /\ f.lo <= f.hi /\ (f.hi - f.off) * f.num <= (f.top + 1) * f.den

\* Its last index is below its radix: cut off there, or the range does not round to it.
BelowRadix(f) ==
    /\ f.radix \in Nat \ {0}
    /\ f.top < f.radix \/ 2 * ((f.hi - f.off) * f.num) < (2 * f.radix - 1) * f.den

\* A decoder with its scale.
Reads(d, f) == d.off = f.off /\ d.num = f.num /\ d.den = f.den

\* For every number, what a decoder of the same scale reads is half a step from the clamped
\* number, or a step where the last index stands for the upper end.
THEOREM FieldSurvives ==
    ASSUME NEW f, IsEncoder(f), NEW d, Reads(d, f), NEW v \in Int
    PROVE  Faithful(f, v, Number(d, Index(f, v)))
<1> DEFINE c == Clamped(f, v)
           a == (c - f.off) * f.num
           r == rint(a, f.den)
           ix == Index(f, v)
<1>1. /\ f.lo \in Int /\ f.hi \in Int /\ f.off \in Int /\ f.num \in Nat \ {0}
      /\ f.den \in Nat \ {0} /\ f.top \in Nat
      /\ f.off <= f.lo /\ f.lo <= f.hi /\ (f.hi - f.off) * f.num <= (f.top + 1) * f.den
  BY DEF IsEncoder
<1>2. c \in Int /\ f.off <= c /\ c <= f.hi
  BY <1>1 DEF Clamped, min_max
<1>3. ix = min_max(0, r, f.top)
  BY DEF Index
<1>4. Number(d, ix) = [val |-> ix * f.den + f.off * f.num, scale |-> f.num, step |-> f.den]
  BY DEF Number, Reads
<1> HIDE DEF c
<1>5. a \in Nat /\ a <= (f.top + 1) * f.den
  <2> DEFINE g == f.num
             x == c - f.off
             y == f.hi - f.off
  <2>1. g \in Nat /\ x \in Nat /\ y \in Nat /\ x <= y
    BY <1>1, <1>2
  <2>2. a = x * g /\ y * g <= (f.top + 1) * f.den
    BY <1>1
  <2> HIDE DEF g, x, y, a
  <2>3. x * g \in Nat /\ x * g <= y * g
    BY <2>1, Z3
  <2>4. y * g \in Int /\ (f.top + 1) * f.den \in Int
    BY <1>1, <2>1
  <2> QED BY <2>2, <2>3, <2>4
<1>6. a = c * f.num - f.off * f.num
  BY <1>1, <1>2, Z3
<1> DEFINE distance == (ix * f.den + f.off * f.num) - c * f.num
<1>7. r \in Nat /\ 2 * (r * f.den - a) <= f.den /\ 2 * (a - r * f.den) <= f.den
  <2> HIDE DEF a
  <2> QED BY <1>1, <1>5, RintNearest
<1> HIDE DEF a, r, ix
<1>8. ix = IF r > f.top THEN f.top ELSE r
  BY <1>1, <1>3, <1>7 DEF min_max
<1>9. distance = ix * f.den - a
  <2>1. ix \in Nat /\ ix * f.den \in Int /\ f.off * f.num \in Int /\ c * f.num \in Int
    BY <1>1, <1>2, <1>7, <1>8
  <2> QED BY <1>6, <2>1
<1> DEFINE error == IF distance < 0 THEN -distance ELSE distance
<1>12. Faithful(f, v, Number(d, Index(f, v)))
         <=> (IF ix = f.top THEN 1 ELSE 2) * error <= f.den
  <2> DEFINE n == Number(d, Index(f, v))
  <2>1. n.val = ix * f.den + f.off * f.num /\ n.scale = f.num /\ n.step = f.den
    BY <1>4 DEF ix
  <2>3. Index(f, v) = ix /\ Clamped(f, v) = c
    BY DEF ix, c
  <2> DEFINE away == n.val - Clamped(f, v) * n.scale
             err  == IF away < 0 THEN -away ELSE away
  <2>4. Faithful(f, v, n) <=> (IF Index(f, v) = f.top THEN 1 ELSE 2) * err <= n.step
    BY Zenon DEF Faithful
  <2>5. away = distance
    <3> HIDE DEF n, ix, c
    <3> QED BY <2>1, <2>3
  <2>6. err = error
    <3> HIDE DEF away, distance
    <3> QED BY <2>5
  <2>7. Faithful(f, v, Number(d, Index(f, v)))
          <=> (IF Index(f, v) = f.top THEN 1 ELSE 2) * err <= n.step
    BY <2>4
  <2> HIDE DEF n, ix, c, err, error
  <2> QED BY <2>1, <2>3, <2>6, <2>7
<1>13. distance \in Int
  BY <1>1, <1>5, <1>7, <1>8, <1>9
<1> HIDE DEF distance
<1>10. CASE r <= f.top
  <2>1. ix = r
    BY <1>1, <1>7, <1>8, <1>10
  <2> DEFINE z == r * f.den
  <2>2. z \in Int /\ distance = z - a /\ 2 * (z - a) <= f.den /\ 2 * (a - z) <= f.den
    BY <1>1, <1>7, <1>9, <2>1
  <2> HIDE DEF z
  <2>3. 2 * error <= f.den /\ error \in Nat
    BY <1>1, <1>5, <1>13, <2>2
  <2> HIDE DEF error
  <2> QED BY <1>1, <1>12, <2>3
<1>11. CASE r > f.top
  <2>1. ix = f.top
    BY <1>8, <1>11
  <2> DEFINE t == f.top * f.den
             z == r * f.den
  <2>2. t \in Int /\ z \in Int /\ (f.top + 1) * f.den = t + f.den /\ z >= t + f.den
    <3>1. t \in Int /\ z \in Int /\ (f.top + 1) * f.den = t + f.den
      BY <1>1, <1>7, Z3
    <3>2. r - f.top - 1 \in Nat /\ z = t + f.den + (r - f.top - 1) * f.den
      BY <1>1, <1>7, <1>11, Z3
    <3>3. (r - f.top - 1) * f.den \in Nat
      BY <1>1, <3>2, Z3
    <3> HIDE DEF z, t
    <3> QED BY <1>1, <3>1, <3>2, <3>3
  <2>3. distance = t - a
    BY <1>9, <2>1
  <2>4. 2 * (z - a) <= f.den /\ a <= (f.top + 1) * f.den
    BY <1>5, <1>7
  <2> HIDE DEF z, t
  <2>5. error <= f.den /\ error \in Nat
    BY <1>1, <1>5, <1>13, <2>2, <2>3, <2>4
  <2> HIDE DEF error
  <2> QED BY <1>1, <1>12, <2>1, <2>5
<1> QED BY <1>1, <1>7, <1>10, <1>11
\* Such an index fits into the packed number.
LEMMA IndexBelow ==
    ASSUME NEW f, IsEncoder(f), BelowRadix(f), NEW v \in Int
    PROVE  Index(f, v) \in 0..(f.radix - 1)
<1> DEFINE c == Clamped(f, v)
           g == f.num
           q == f.den
           x == c - f.off
           y == f.hi - f.off
           a == x * g
           r == rint(a, q)
<1>1. /\ f.lo \in Int /\ f.hi \in Int /\ f.off \in Int /\ g \in Nat \ {0}
      /\ q \in Nat \ {0} /\ f.top \in Nat /\ f.off <= f.lo /\ f.lo <= f.hi /\ f.radix \in Nat \ {0}
  BY DEF IsEncoder, BelowRadix
<1>2. c \in Int /\ f.off <= c /\ c <= f.hi
  BY <1>1 DEF Clamped, min_max
<1>3. Index(f, v) = min_max(0, r, f.top)
  BY DEF Index
<1>4. f.top < f.radix \/ 2 * (y * g) < (2 * f.radix - 1) * q
  BY DEF BelowRadix
<1> HIDE DEF c
<1>5. x \in Nat /\ y \in Nat /\ x <= y
  BY <1>1, <1>2
<1> HIDE DEF g, q, x, y
<1> DEFINE b == y * g
<1>6. a \in Nat /\ b \in Nat /\ a <= b
  BY <1>1, <1>5, Z3
<1> HIDE DEF a, b
<1>7. r \in Nat /\ 2 * (r * q - a) <= q
  BY <1>1, <1>6, RintNearest
<1> HIDE DEF r
<1>8. Index(f, v) = IF r > f.top THEN f.top ELSE r
  BY <1>1, <1>3, <1>7 DEF min_max
<1>9. CASE f.top < f.radix
  BY <1>1, <1>7, <1>8, <1>9
<1>10. CASE 2 * b < (2 * f.radix - 1) * q
  <2>1. r < f.radix
    <3> SUFFICES ASSUME r >= f.radix PROVE FALSE
      BY <1>1, <1>7
    <3> DEFINE e == r - f.radix
               rq == r * q
               fq == f.radix * q
               eq == e * q
    <3>1. e \in Nat /\ r = f.radix + e
      BY <1>1, <1>7
    <3> HIDE DEF e
    <3>2. rq = fq + eq /\ eq \in Nat /\ fq \in Nat /\ (2 * f.radix - 1) * q = 2 * fq - q
      BY <1>1, <3>1, Z3
    <3>3. 2 * b < 2 * fq - q /\ 2 * (rq - a) <= q
      BY <1>7, <1>10, <3>2
    <3> HIDE DEF rq, fq, eq
    <3> QED BY <1>1, <1>6, <3>2, <3>3
  <2> QED BY <1>1, <1>7, <1>8, <2>1
<1> QED BY <1>4, <1>9, <1>10 DEF b
-----------------------------------------------------------------------------
(* Packing. *)

\* The sums from which MulAdd takes its digits, and the parts that Divide goes through.
Sums(s, digits, n, radix, index) ==
    /\ s \in [1..n -> Nat]
    /\ s[n] = digits[n] * radix + index
    /\ \A i \in 1..(n - 1) : s[i] = digits[i] * radix + s[i + 1] \div CHAR_SIZE
    /\ MulAdd(digits, radix, index) = [i \in 1..n |-> IF i = 1 THEN s[1] ELSE s[i] % CHAR_SIZE]

Parts(p, digits, n, radix) ==
    /\ p \in [0..n -> Nat]
    /\ p[0] = 0
    /\ \A i \in 1..n : p[i] = (p[i - 1] % radix) * CHAR_SIZE + digits[i]
    /\ Divide(digits, radix) = [quotient  |-> [i \in 1..n |-> p[i] \div radix],
                                remainder |-> p[n] % radix]

\* They exist: both recursions are well defined.
LEMMA MulAddSums ==
    ASSUME NEW n \in Nat \ {0}, NEW digits \in [1..n -> Nat], NEW radix \in Nat, NEW index \in Nat
    PROVE  \E s : Sums(s, digits, n, radix, index)
<1> DEFINE sum[i \in 1..Len(digits)] ==
             digits[i] * radix + (IF i = Len(digits) THEN index ELSE sum[i + 1] \div CHAR_SIZE)
           step == [i \in 1..(n - 1) |-> [x \in Nat |-> digits[i] * radix + x \div CHAR_SIZE]]
           base == digits[n] * radix + index
<1>1. Len(digits) = n
  OBVIOUS
<1>2. MulAdd(digits, radix, index)
        = [i \in 1..Len(digits) |-> IF i = 1 THEN sum[1] ELSE sum[i] % CHAR_SIZE]
  BY Zenon DEF MulAdd
<1>3. base \in Nat /\ step \in Steps(n - 1, Nat)
  <2>1. \A d \in Nat : d * radix \in Nat
    BY Z3
  <2>2. \A x \in Nat : x \div CHAR_SIZE \in Nat
    BY DEF CHAR_SIZE
  <2>3. base \in Nat
    BY <2>1
  <2>4. ASSUME NEW i \in 1..(n - 1), NEW x \in Nat
        PROVE  digits[i] * radix + x \div CHAR_SIZE \in Nat
    <3> HIDE DEF base, step, sum
    <3>1. digits[i] \in Nat
      OBVIOUS
    <3>2. digits[i] * radix \in Nat /\ x \div CHAR_SIZE \in Nat
      BY <2>1, <2>2, <3>1, Zenon
    <3> QED BY <3>2
  <2>5. step \in [1..(n - 1) -> [Nat -> Nat]]
    BY <2>4
  <2> QED BY <2>3, <2>5 DEF Steps
<1>4. PICK f : DownRecursive(f, n, Nat, base, step)
  <2> HIDE DEF base, step
  <2> QED BY <1>3, DownRecursion
<1>5. /\ f \in [1..n -> Nat] /\ f[n] = digits[n] * radix + index
      /\ \A i \in 1..(n - 1) : f[i] = digits[i] * radix + f[i + 1] \div CHAR_SIZE
  <2>1. \A i \in 1..(n - 1), x \in Nat : step[i][x] = digits[i] * radix + x \div CHAR_SIZE
    OBVIOUS
  <2> HIDE DEF sum, step
  <2>2. \A i \in 1..(n - 1) : f[i + 1] \in Nat
    BY <1>4 DEF DownRecursive
  <2>3. f \in [1..n -> Nat] /\ f[n] = digits[n] * radix + index
    BY <1>4 DEF DownRecursive
  <2>4. \A i \in 1..(n - 1) : f[i] = step[i][f[i + 1]]
    BY <1>4, Zenon DEF DownRecursive
  <2> QED BY <2>1, <2>2, <2>3, <2>4, Zenon
<1>6. f = [i \in 1..Len(digits) |->
             digits[i] * radix + (IF i = Len(digits) THEN index ELSE f[i + 1] \div CHAR_SIZE)]
  <2> HIDE DEF sum, step, base
  <2>1. \A i \in 1..n : f[i] = digits[i] * radix + (IF i = n THEN index ELSE f[i + 1] \div CHAR_SIZE)
    BY <1>5
  <2>2. f = [i \in 1..n |-> f[i]]
    BY <1>5
  <2> QED BY <1>1, <2>1, <2>2
<1>7. sum = [i \in 1..Len(digits) |->
               digits[i] * radix + (IF i = Len(digits) THEN index ELSE sum[i + 1] \div CHAR_SIZE)]
  BY <1>6, Zenon
<1> HIDE DEF sum
<1>8. /\ sum = [i \in 1..n |-> sum[i]] /\ sum[n] = digits[n] * radix + index
      /\ \A i \in 1..(n - 1) : sum[i] = digits[i] * radix + sum[i + 1] \div CHAR_SIZE
  <2> HIDE DEF step, base
  <2>1. /\ DOMAIN sum = 1..n
        /\ \A i \in 1..n : sum[i] = digits[i] * radix + (IF i = n THEN index ELSE sum[i + 1] \div CHAR_SIZE)
    BY <1>1, <1>7
  <2>2. sum = [i \in 1..n |-> sum[i]]
    BY <1>1, <1>7, <2>1
  <2>3. n \in 1..n /\ \A i \in 1..(n - 1) : i \in 1..n /\ i # n
    OBVIOUS
  <2> QED BY <2>1, <2>2, <2>3, Zenon
<1>9. DownRecursive(sum, n, Nat, base, step)
  <2>1. sum[n] = base /\ \A i \in 1..(n - 1) : sum[i + 1] \in Nat => sum[i] = step[i][sum[i + 1]]
    BY <1>8
  <2> HIDE DEF base, step
  <2> QED BY <1>3, <1>8, <2>1, DownRecursionType
<1>10. sum \in [1..n -> Nat]
  BY <1>9 DEF DownRecursive
<1>11. MulAdd(digits, radix, index) = [i \in 1..n |-> IF i = 1 THEN sum[1] ELSE sum[i] % CHAR_SIZE]
  BY <1>1, <1>2, Zenon
<1>12. Sums(sum, digits, n, radix, index)
  BY <1>8, <1>10, <1>11, Zenon DEF Sums
<1> QED BY <1>12

LEMMA DivideParts ==
    ASSUME NEW n \in Nat \ {0}, NEW digits \in [1..n -> Nat], NEW radix \in Nat \ {0}
    PROVE  \E p : Parts(p, digits, n, radix)
<1> DEFINE part[i \in 0..Len(digits)] ==
             IF i = 0 THEN 0 ELSE (part[i - 1] % radix) * CHAR_SIZE + digits[i]
           step == [i \in 1..n |-> [x \in Nat |-> (x % radix) * CHAR_SIZE + digits[i]]]
<1>1. Len(digits) = n
  OBVIOUS
<1>2. Divide(digits, radix) = [quotient  |-> [i \in 1..Len(digits) |-> part[i] \div radix],
                               remainder |-> part[Len(digits)] % radix]
  BY Zenon DEF Divide
<1>3. 0 \in Nat /\ step \in Steps(n, Nat)
  <2>1. \A x \in Nat : x % radix \in Nat
    BY Z3
  <2>2. \A x, d \in Nat : x * CHAR_SIZE + d \in Nat
    BY DEF CHAR_SIZE
  <2>3. step \in [1..n -> [Nat -> Nat]]
    BY <2>1, <2>2
  <2> QED BY <2>3 DEF Steps
<1>4. PICK f : Recursive(f, n, Nat, 0, step)
  <2> HIDE DEF step
  <2> QED BY <1>3, Recursion
<1>5. /\ f \in [0..n -> Nat] /\ f[0] = 0
      /\ \A i \in 1..n : f[i] = (f[i - 1] % radix) * CHAR_SIZE + digits[i]
  <2>1. \A i \in 1..n, x \in Nat : step[i][x] = (x % radix) * CHAR_SIZE + digits[i]
    OBVIOUS
  <2> HIDE DEF part, step
  <2>2. \A i \in 1..n : f[i - 1] \in Nat
    BY <1>4 DEF Recursive
  <2> QED BY <1>4, <2>1, <2>2 DEF Recursive
<1>6. f = [i \in 0..Len(digits) |->
             IF i = 0 THEN 0 ELSE (f[i - 1] % radix) * CHAR_SIZE + digits[i]]
  <2> HIDE DEF part, step
  <2>1. \A i \in 0..n : f[i] = IF i = 0 THEN 0 ELSE (f[i - 1] % radix) * CHAR_SIZE + digits[i]
    BY <1>5
  <2>2. f = [i \in 0..n |-> f[i]]
    BY <1>5
  <2> QED BY <1>1, <2>1, <2>2
<1>7. part = [i \in 0..Len(digits) |->
                IF i = 0 THEN 0 ELSE (part[i - 1] % radix) * CHAR_SIZE + digits[i]]
  BY <1>6, Zenon
<1> HIDE DEF part
<1>8. /\ part = [i \in 0..n |-> part[i]] /\ part[0] = 0
      /\ \A i \in 1..n : part[i] = (part[i - 1] % radix) * CHAR_SIZE + digits[i]
  <2> HIDE DEF step
  <2>1. /\ DOMAIN part = 0..n
        /\ \A i \in 0..n : part[i] = IF i = 0 THEN 0 ELSE (part[i - 1] % radix) * CHAR_SIZE + digits[i]
    BY <1>1, <1>7
  <2>2. part = [i \in 0..n |-> part[i]]
    BY <1>1, <1>7, <2>1
  <2>3. 0 \in 0..n /\ \A i \in 1..n : i \in 0..n /\ i # 0
    OBVIOUS
  <2> QED BY <2>1, <2>2, <2>3, Zenon
<1>9. Recursive(part, n, Nat, 0, step)
  <2>1. \A i \in 1..n : part[i - 1] \in Nat => part[i] = step[i][part[i - 1]]
    BY <1>8
  <2> HIDE DEF step
  <2> QED BY <1>3, <1>8, <2>1, RecursionType
<1>10. part \in [0..n -> Nat]
  BY <1>9 DEF Recursive
<1>11. Divide(digits, radix) = [quotient  |-> [i \in 1..n |-> part[i] \div radix],
                                remainder |-> part[n] % radix]
  BY <1>1, <1>2, Zenon
<1>12. Parts(part, digits, n, radix)
  BY <1>8, <1>10, <1>11, Zenon DEF Parts
<1> QED BY <1>12

-----------------------------------------------------------------------------
\* A number as Encode keeps it, of n digits, the first of which may be too large.
IsNumber(digits, n) == digits \in [1..n -> Nat] /\ \A i \in 2..n : digits[i] < CHAR_SIZE

\* What each digit of a product hands to the one before it, for a product of n digits.
Carries(c, digits, product, n, radix, index) ==
    /\ c \in [1..n -> 0..(radix - 1)]
    /\ c[n] = index
    /\ product[1] = digits[1] * radix + c[1]
    /\ \A i \in 1..(n - 1) : c[i] * CHAR_SIZE + product[i + 1] = digits[i + 1] * radix + c[i + 1]

\* An index below the radix leaves carries below the radix.
LEMMA MulAddCarries ==
    ASSUME NEW n \in Nat \ {0}, NEW digits, IsNumber(digits, n),
           NEW radix \in Nat \ {0}, NEW index \in 0..(radix - 1)
    PROVE  /\ IsNumber(MulAdd(digits, radix, index), n)
           /\ \E c : Carries(c, digits, MulAdd(digits, radix, index), n, radix, index)
<1>1. digits \in [1..n -> Nat] /\ \A i \in 2..n : digits[i] \in 0..73
  <2>1. digits \in [1..n -> Nat] /\ \A i \in 2..n : digits[i] < 74
    BY Zenon DEF IsNumber, CHAR_SIZE
  <2>2. \A i \in 2..n : i \in 1..n
    OBVIOUS
  <2>3. ASSUME NEW i \in 2..n PROVE digits[i] \in 0..73
    <3>1. digits[i] < 74 /\ digits[i] \in Nat
      BY <2>1, <2>2
    <3> QED BY <3>1
  <2> QED BY <2>1, <2>3, Zenon
<1>0. PICK s : Sums(s, digits, n, radix, index)
  BY <1>1, MulAddSums
<1>2. /\ s \in [1..n -> Nat]
      /\ s[n] = digits[n] * radix + index
      /\ \A i \in 1..(n - 1) : s[i] = digits[i] * radix + s[i + 1] \div CHAR_SIZE
      /\ MulAdd(digits, radix, index) = [i \in 1..n |-> IF i = 1 THEN s[1] ELSE s[i] % CHAR_SIZE]
  BY <1>0, Zenon DEF Sums
<1> DEFINE product == MulAdd(digits, radix, index)
           c == [i \in 1..n |-> IF i = n THEN index ELSE s[i + 1] \div CHAR_SIZE]
<1>3. /\ product \in [1..n -> Nat] /\ product[1] = s[1]
      /\ \A i \in 1..(n - 1) : product[i + 1] = s[i + 1] % 74
      /\ \A i \in 1..(n - 1) : product[i + 1] \in 0..73
  <2>1. product = [i \in 1..n |-> IF i = 1 THEN s[1] ELSE s[i] % 74]
    BY <1>2, Zenon DEF CHAR_SIZE
  <2>2. \A i \in 1..n : s[i] \in Nat /\ s[i] % 74 \in 0..73
    <3> HIDE DEF product, c
    <3>1. \A x \in Nat : x % 74 \in 0..73
      BY Z3
    <3>2. \A i \in 1..n : s[i] \in Nat
      BY <1>2
    <3> QED BY <3>1, <3>2, Zenon
  <2> HIDE DEF product, c
  <2> QED BY <2>1, <2>2
<1>4. \A i \in 1..n : s[i] = digits[i] * radix + c[i]
  BY <1>2
<1>5. c[n] = index /\ \A i \in 1..(n - 1) : c[i] = s[i + 1] \div 74
  BY DEF CHAR_SIZE
<1> HIDE DEF product, c
<1>6. \A i \in 1..n : c[i] \in 0..(radix - 1)
  <2> DEFINE S == {i \in 1..n : c[i] \in 0..(radix - 1)}
  <2>1. n \in S
    BY <1>5
  <2>2. ASSUME NEW i \in 1..(n - 1), i + 1 \in S PROVE i \in S
    <3> DEFINE d == digits[i + 1]
               a == d * radix
               b == c[i + 1]
    <3>1. d \in 0..73 /\ b \in 0..(radix - 1) /\ s[i + 1] = a + b /\ c[i] = s[i + 1] \div 74
      BY <1>1, <1>4, <1>5, <2>2
    <3>2. a \in 0..(73 * radix)
      <4> HIDE DEF d
      <4> QED BY <3>1, Z3
    <3> HIDE DEF a, b
    <3>3. c[i] \in 0..(radix - 1)
      BY <3>1, <3>2, Z3
    <3> QED BY <3>3
  <2>3. \A i \in 1..n : i \in S
    <3> HIDE DEF S
    <3> QED BY <2>1, <2>2, DownTo
  <2> QED BY <2>3
<1>7. c = [i \in 1..n |-> c[i]]
  BY DEF c
<1>8. c \in [1..n -> 0..(radix - 1)]
  BY <1>6, <1>7
<1>9. ASSUME NEW i \in 1..(n - 1)
      PROVE  c[i] * CHAR_SIZE + product[i + 1] = digits[i + 1] * radix + c[i + 1]
  <2>1. s[i + 1] \in Nat /\ s[i + 1] = digits[i + 1] * radix + c[i + 1]
    BY <1>2, <1>4
  <2>2. s[i + 1] = 74 * (s[i + 1] \div 74) + (s[i + 1] % 74)
    <3>1. \A x \in Nat : x = 74 * (x \div 74) + (x % 74)
      BY DivMod
    <3> QED BY <2>1, <3>1, Zenon
  <2>3. c[i] = s[i + 1] \div 74 /\ product[i + 1] = s[i + 1] % 74
    BY <1>3, <1>5, Zenon
  <2>4. s[i + 1] \div 74 \in Int
    BY <2>1
  <2> QED BY <2>1, <2>2, <2>3, <2>4 DEF CHAR_SIZE
<1>10. product[1] = digits[1] * radix + c[1]
  BY <1>3, <1>4
<1>11. Carries(c, digits, product, n, radix, index)
  BY <1>5, <1>8, <1>9, <1>10 DEF Carries
<1>12. IsNumber(product, n)
  <2>1. ASSUME NEW i \in 2..n PROVE product[i] < 74
    <3>1. i - 1 \in 1..(n - 1) /\ (i - 1) + 1 = i
      OBVIOUS
    <3>2. product[(i - 1) + 1] \in 0..73
      BY <1>3, <3>1, Zenon
    <3> QED BY <3>1, <3>2
  <2> QED BY <1>3, <2>1 DEF IsNumber, CHAR_SIZE
<1> QED BY <1>11, <1>12 DEF product

\* Division by the same radix takes the index off again.
LEMMA DivideMulAdd ==
    ASSUME NEW n \in Nat \ {0}, NEW digits, IsNumber(digits, n),
           NEW radix \in Nat \ {0}, NEW index \in 0..(radix - 1)
    PROVE  Divide(MulAdd(digits, radix, index), radix) = [quotient |-> digits, remainder |-> index]
<1> DEFINE product == MulAdd(digits, radix, index)
<1>1. digits \in [1..n -> Nat]
  BY DEF IsNumber
<1>2. PICK c : Carries(c, digits, product, n, radix, index)
  BY MulAddCarries
<1>3. product \in [1..n -> Nat]
  BY MulAddCarries DEF IsNumber
<1> HIDE DEF product
<1>4. /\ c \in [1..n -> 0..(radix - 1)] /\ c[n] = index
      /\ product[1] = digits[1] * radix + c[1]
      /\ \A i \in 1..(n - 1) : c[i] * CHAR_SIZE + product[i + 1] = digits[i + 1] * radix + c[i + 1]
  BY <1>2 DEF Carries
<1>10. PICK p : Parts(p, product, n, radix)
  BY <1>3, DivideParts
<1>5. /\ p \in [0..n -> Nat]
      /\ p[0] = 0
      /\ \A i \in 1..n : p[i] = (p[i - 1] % radix) * CHAR_SIZE + product[i]
      /\ Divide(product, radix) = [quotient |-> [i \in 1..n |-> p[i] \div radix], remainder |-> p[n] % radix]
  BY <1>10, Zenon DEF Parts
<1>6. ASSUME NEW i \in 1..n, p[i] = digits[i] * radix + c[i]
      PROVE  p[i] % radix = c[i] /\ p[i] \div radix = digits[i]
  <2>1. digits[i] \in Nat /\ c[i] \in 0..(radix - 1)
    BY <1>1, <1>4
  <2>2. digits[i] * radix + c[i] = radix * digits[i] + c[i]
    BY <2>1, Z3
  <2>3. /\ (radix * digits[i] + c[i]) % radix = c[i]
        /\ (radix * digits[i] + c[i]) \div radix = digits[i]
    BY <2>1, DivModUnique
  <2> QED BY <1>6, <2>2, <2>3
<1>7. \A i \in 1..n : p[i] = digits[i] * radix + c[i]
  <2> DEFINE S == {i \in 0..n : i # 0 => p[i] = digits[i] * radix + c[i]}
  <2>1. 0 \in S
    OBVIOUS
  <2>2. ASSUME NEW i \in 0..(n - 1), i \in S PROVE i + 1 \in S
    <3>1. p[i + 1] = (p[i] % radix) * CHAR_SIZE + product[i + 1]
      <4>1. i + 1 \in 1..n /\ (i + 1) - 1 = i
        OBVIOUS
      <4> QED BY <1>5, <4>1
    <3>2. CASE i = 0
      <4>1. 0 % radix = 0
        BY Z3
      <4>2. p[1] = 0 * CHAR_SIZE + product[1]
        BY <1>5, <3>1, <3>2, <4>1
      <4>3. product[1] \in Nat
        BY <1>3
      <4>4. p[1] = product[1]
        BY <4>2, <4>3 DEF CHAR_SIZE
      <4> QED BY <1>4, <3>2, <4>4
    <3>3. CASE i # 0
      <4>1. i \in 1..(n - 1) /\ p[i] % radix = c[i]
        BY <1>6, <2>2, <3>3
      <4> QED BY <1>4, <3>1, <4>1
    <3> QED BY <3>2, <3>3
  <2>3. \A i \in 0..n : i \in S
    <3> HIDE DEF S
    <3> QED BY <2>1, <2>2, UpTo
  <2> QED BY <2>3
<1>8. [i \in 1..n |-> p[i] \div radix] = digits
  <2>1. \A i \in 1..n : p[i] \div radix = digits[i]
    BY <1>6, <1>7
  <2> QED BY <1>1, <2>1
<1>9. p[n] % radix = index
  BY <1>4, <1>6, <1>7
<1> QED BY <1>5, <1>8, <1>9 DEF product

-----------------------------------------------------------------------------
\* The value of the first i digits, for every i, and the powers of the base.
Values74(v, digits, n) ==
    v \in [0..n -> Nat] /\ v[0] = 0 /\ \A i \in 1..n : v[i] = v[i - 1] * CHAR_SIZE + digits[i]
Powers(p, n) ==
    p \in [0..n -> Nat] /\ p[0] = 1 /\ \A i \in 1..n : p[i] = p[i - 1] * CHAR_SIZE

\* MulAdd multiplies and adds.
LEMMA MulAddValue ==
    ASSUME NEW n \in Nat \ {0}, NEW digits, IsNumber(digits, n), NEW v, Values74(v, digits, n),
           NEW radix \in Nat \ {0}, NEW index \in 0..(radix - 1)
    PROVE  \E w : Values74(w, MulAdd(digits, radix, index), n) /\ w[n] = v[n] * radix + index
<1> DEFINE product == MulAdd(digits, radix, index)
<1>1. digits \in [1..n -> Nat]
  BY DEF IsNumber
<1>2. PICK c : Carries(c, digits, product, n, radix, index)
  BY MulAddCarries
<1> HIDE DEF product
<1>3. /\ c \in [1..n -> 0..(radix - 1)] /\ c[n] = index
      /\ product[1] = digits[1] * radix + c[1]
      /\ \A i \in 1..(n - 1) : c[i] * CHAR_SIZE + product[i + 1] = digits[i + 1] * radix + c[i + 1]
  BY <1>2 DEF Carries
<1>4. v \in [0..n -> Nat] /\ v[0] = 0 /\ \A i \in 1..n : v[i] = v[i - 1] * 74 + digits[i]
  BY Zenon DEF Values74, CHAR_SIZE
<1> DEFINE w == [i \in 0..n |-> IF i = 0 THEN 0 ELSE v[i] * radix + c[i]]
<1>5. /\ w = [i \in 0..n |-> w[i]] /\ w[0] = 0
      /\ \A i \in 1..n : w[i] = v[i] * radix + c[i]
  OBVIOUS
<1> HIDE DEF w
<1>6. \A i \in 1..n : w[i] \in Nat
  <2> SUFFICES ASSUME NEW i \in 1..n PROVE w[i] \in Nat
    OBVIOUS
  <2>1. v[i] \in Nat /\ c[i] \in Nat
    BY <1>3, <1>4
  <2>2. v[i] * radix \in Nat
    BY <2>1, Z3
  <2>3. w[i] = v[i] * radix + c[i]
    BY <1>5, Zenon
  <2> QED BY <2>1, <2>2, <2>3
<1>7. w \in [0..n -> Nat]
  <2>1. w = [i \in 0..n |-> w[i]] /\ w[0] \in Nat
    <3>1. 0 \in Nat
      OBVIOUS
    <3> QED BY <1>5, <3>1, Zenon
  <2>2. \A i \in 0..n : i = 0 \/ i \in 1..n
    OBVIOUS
  <2>3. \A i \in 0..n : w[i] \in Nat
    BY <1>6, <2>1, <2>2, Zenon
  <2> QED BY <2>1, <2>3, Zenon
<1>8. ASSUME NEW i \in 1..n PROVE w[i] = w[i - 1] * CHAR_SIZE + product[i]
  <2>1. CASE i = 1
    <3>1. v[1] = digits[1]
      <4>1. 1 \in 1..n /\ digits[1] \in Nat
        BY <1>1
      <4>2. v[1] = v[1 - 1] * 74 + digits[1]
        BY <1>4, <4>1, Zenon
      <4> QED BY <1>4, <4>1, <4>2
    <3>2. w[1] = product[1] /\ w[1] \in Nat
      <4>1. 1 \in 1..n
        OBVIOUS
      <4>2. w[1] = v[1] * radix + c[1]
        BY <1>5, <4>1, Zenon
      <4> QED BY <1>3, <1>6, <3>1, <4>1, <4>2, Zenon
    <3>3. w[1 - 1] = 0
      <4>1. 1 - 1 = 0
        OBVIOUS
      <4> QED BY <1>5, <4>1, Zenon
    <3> QED BY <2>1, <3>2, <3>3 DEF CHAR_SIZE
  <2>2. CASE i # 1
    <3> DEFINE j == i - 1
               a == v[j]
               d == digits[i]
    <3>1. j \in 1..(n - 1) /\ j + 1 = i /\ j \in 1..n /\ j \in 0..n
      BY <2>2
    <3>2. a \in Nat /\ d \in Nat /\ c[j] \in Nat /\ c[i] \in Nat
      <4>1. \A x \in 0..(radix - 1) : x \in Nat
        OBVIOUS
      <4>2. c[j] \in 0..(radix - 1) /\ c[i] \in 0..(radix - 1)
        BY <1>3, <3>1, Zenon
      <4>3. v[j] \in Nat /\ digits[i] \in Nat
        BY <1>1, <1>4, <3>1, Zenon
      <4> QED BY <4>1, <4>2, <4>3, Zenon
    <3>3. v[i] = a * 74 + d /\ w[i] = v[i] * radix + c[i] /\ w[j] = a * radix + c[j]
      BY <1>4, <1>5, <3>1, Zenon
    <3>4. c[j] * 74 + product[i] = d * radix + c[i]
      <4>1. c[j] * 74 + product[j + 1] = digits[j + 1] * radix + c[j + 1]
        BY <1>3, <3>1, Zenon DEF CHAR_SIZE
      <4> QED BY <3>1, <4>1, Zenon
    <3>5. product[i] \in Nat
      BY MulAddCarries DEF IsNumber, product
    <3> HIDE DEF j, a, d
    <3>6. (a * 74 + d) * radix = (a * radix) * 74 + d * radix /\ a * radix \in Nat /\ d * radix \in Nat
      BY <3>2, Z3
    <3> DEFINE ar == a * radix
               dr == d * radix
    <3>8. /\ w[i] = ar * 74 + dr + c[i] /\ w[j] = ar + c[j]
          /\ c[j] * 74 + product[i] = dr + c[i] /\ ar \in Nat /\ dr \in Nat
      BY <3>3, <3>4, <3>6, Zenon
    <3>7. w[i] = w[j] * 74 + product[i]
      <4> HIDE DEF ar, dr
      <4> QED BY <3>2, <3>5, <3>8
    <3> QED BY <3>7 DEF j, CHAR_SIZE
  <2> QED BY <2>1, <2>2
<1>9. Values74(w, product, n)
  BY <1>5, <1>7, <1>8 DEF Values74
<1>10. w[n] = v[n] * radix + index
  <2>1. n \in 1..n
    OBVIOUS
  <2> QED BY <1>3, <1>5, <2>1, Zenon
<1> QED BY <1>9, <1>10 DEF product

\* The first digit of a number is below the base if the number has room in n digits.
LEMMA FirstDigit ==
    ASSUME NEW n \in Nat \ {0}, NEW digits \in [1..n -> Nat], NEW v, Values74(v, digits, n),
           NEW p, Powers(p, n), v[n] < p[n]
    PROVE  digits[1] < CHAR_SIZE
<1>1. v \in [0..n -> Nat] /\ v[0] = 0 /\ \A i \in 1..n : v[i] = v[i - 1] * 74 + digits[i]
  BY Zenon DEF Values74, CHAR_SIZE
<1>2. p \in [0..n -> Nat] /\ p[0] = 1 /\ \A i \in 1..n : p[i] = p[i - 1] * 74
  BY Zenon DEF Powers, CHAR_SIZE
<1> SUFFICES ASSUME digits[1] >= 74 PROVE FALSE
  BY DEF CHAR_SIZE
<1> DEFINE S == {i \in 0..n : i # 0 => v[i] >= p[i]}
<1>3. 0 \in S
  OBVIOUS
<1>4. ASSUME NEW i \in 0..(n - 1), i \in S PROVE i + 1 \in S
  <2>1. i + 1 \in 1..n /\ (i + 1) - 1 = i /\ i \in 0..n
    OBVIOUS
  <2>2. v[i + 1] = v[i] * 74 + digits[i + 1] /\ p[i + 1] = p[i] * 74
    BY <1>1, <1>2, <2>1
  <2>3. v[i] \in Nat /\ p[i] \in Nat /\ digits[i + 1] \in Nat
    BY <1>1, <1>2, <2>1
  <2>4. CASE i = 0
    <3>1. v[1] = v[0] * 74 + digits[1] /\ p[1] = p[0] * 74
      BY <2>2, <2>4
    <3> QED BY <1>1, <1>2, <2>4, <3>1
  <2>5. CASE i # 0
    <3>1. v[i] >= p[i]
      BY <1>4, <2>5
    <3> QED BY <2>1, <2>2, <2>3, <3>1
  <2> QED BY <2>4, <2>5
<1>5. \A i \in 0..n : i \in S
  <2> HIDE DEF S
  <2> QED BY <1>3, <1>4, UpTo
<1>6. v[n] >= p[n] /\ v[n] \in Nat /\ p[n] \in Nat
  BY <1>1, <1>2, <1>5
<1> QED BY <1>6

-----------------------------------------------------------------------------
\* The numbers that Encode goes through, from Zero to the one it looks at.
Stages(D, len, fields, values) ==
    LET m == Len(fields)
    IN  /\ D = [k \in 0..m |-> D[k]]
        /\ D[0] = Zero(len)
        /\ \A k \in 0..m : IsNumber(D[k], len)
        /\ \A k \in 1..m : D[k] = MulAdd(D[k - 1], fields[k].radix, Index(fields[k], values[k]))
        /\ Encode(len, fields, values) = IF D[m][1] < CHAR_SIZE THEN D[m] ELSE <<>>

\* Every index of the values is below the radix of its field.
InRadix(fields, values) ==
    \A k \in 1..Len(fields) :
      /\ fields[k].radix \in Nat \ {0}
      /\ Index(fields[k], values[k]) \in 0..(fields[k].radix - 1)

LEMMA EncodeStages ==
    ASSUME NEW len \in Nat \ {0}, NEW fields, Len(fields) \in Nat, NEW values, InRadix(fields, values)
    PROVE  \E D : Stages(D, len, fields, values)
<1> DEFINE m == Len(fields)
           V == {x \in [1..len -> Nat] : IsNumber(x, len)}
           digits[k \in 0..Len(fields)] ==
             IF k = 0 THEN Zero(len)
             ELSE MulAdd(digits[k - 1], fields[k].radix, Index(fields[k], values[k]))
           step == [k \in 1..m |-> [x \in V |-> MulAdd(x, fields[k].radix, Index(fields[k], values[k]))]]
<1>1. Encode(len, fields, values)
        = IF digits[Len(fields)][1] < CHAR_SIZE THEN digits[Len(fields)] ELSE <<>>
  BY Zenon DEF Encode
<1>2. Zero(len) \in V
  BY DEF Zero, IsNumber, CHAR_SIZE
<1>3. \A k \in 1..m, x \in V : MulAdd(x, fields[k].radix, Index(fields[k], values[k])) \in V
  <2> SUFFICES ASSUME NEW k \in 1..m, NEW x, IsNumber(x, len)
               PROVE  IsNumber(MulAdd(x, fields[k].radix, Index(fields[k], values[k])), len)
    BY DEF IsNumber
  <2>1. fields[k].radix \in Nat \ {0} /\ Index(fields[k], values[k]) \in 0..(fields[k].radix - 1)
    BY Zenon DEF InRadix
  <2> QED BY <2>1, MulAddCarries, Zenon
<1> HIDE DEF V
<1>4. step \in Steps(m, V)
  BY <1>3, Zenon DEF Steps
<1>5. PICK f : Recursive(f, m, V, Zero(len), step)
  <2> HIDE DEF step
  <2> QED BY <1>2, <1>4, Recursion
<1>6. f = [k \in 0..m |-> IF k = 0 THEN Zero(len)
                          ELSE MulAdd(f[k - 1], fields[k].radix, Index(fields[k], values[k]))]
  <2>1. \A k \in 1..m, x \in V : step[k][x] = MulAdd(x, fields[k].radix, Index(fields[k], values[k]))
    BY Zenon
  <2>2. f \in [0..m -> V] /\ f[0] = Zero(len) /\ \A k \in 1..m : f[k] = step[k][f[k - 1]]
    BY <1>5, Zenon DEF Recursive
  <2> HIDE DEF step, digits
  <2>3. \A k \in 1..m : f[k - 1] \in V
    BY <2>2
  <2>4. \A k \in 1..m : f[k] = MulAdd(f[k - 1], fields[k].radix, Index(fields[k], values[k]))
    BY <2>1, <2>2, <2>3, Zenon
  <2> QED BY <2>2, <2>4
<1>7. digits = [k \in 0..m |-> IF k = 0 THEN Zero(len)
                               ELSE MulAdd(digits[k - 1], fields[k].radix, Index(fields[k], values[k]))]
  BY <1>6, Zenon
<1> HIDE DEF digits
<1>8. /\ digits = [k \in 0..m |-> digits[k]] /\ digits[0] = Zero(len)
      /\ \A k \in 1..m : digits[k] = MulAdd(digits[k - 1], fields[k].radix, Index(fields[k], values[k]))
  BY <1>7
<1>9. Recursive(digits, m, V, Zero(len), step)
  <2>1. \A k \in 1..m : digits[k - 1] \in V => digits[k] = step[k][digits[k - 1]]
    BY <1>8, Zenon
  <2> HIDE DEF step
  <2> QED BY <1>2, <1>4, <1>8, <2>1, RecursionType
<1>10. \A k \in 0..m : IsNumber(digits[k], len)
  <2>1. digits \in [0..m -> V]
    BY <1>9, Zenon DEF Recursive
  <2> QED BY <2>1 DEF V
<1>11. Stages(digits, len, fields, values)
  BY <1>1, <1>8, <1>10, Zenon DEF Stages
<1> QED BY <1>11

\* The radices of the fields leave room for them in len characters.
Packs(len, fields) ==
    \E room, p :
      /\ Powers(p, len)
      /\ room \in [0..Len(fields) -> Nat] /\ room[0] = 1
      /\ \A k \in 1..Len(fields) : room[k] = room[k - 1] * fields[k].radix
      /\ room[Len(fields)] <= p[len]

\* A chunk with the room is never refused: the characters are the last stage.
LEMMA EncodeAccepts ==
    ASSUME NEW len \in Nat \ {0}, NEW fields, Len(fields) \in Nat, NEW values,
           InRadix(fields, values), Packs(len, fields), NEW D, Stages(D, len, fields, values)
    PROVE  Encode(len, fields, values) = D[Len(fields)] /\ Encode(len, fields, values) \in [1..len -> Char]
<1> DEFINE m == Len(fields)
<1>1. PICK room, p :
        /\ Powers(p, len)
        /\ room \in [0..m -> Nat] /\ room[0] = 1
        /\ \A k \in 1..m : room[k] = room[k - 1] * fields[k].radix
        /\ room[m] <= p[len]
  BY Zenon DEF Packs
<1>2. /\ D[0] = Zero(len) /\ \A k \in 0..m : IsNumber(D[k], len)
      /\ \A k \in 1..m : D[k] = MulAdd(D[k - 1], fields[k].radix, Index(fields[k], values[k]))
      /\ Encode(len, fields, values) = IF D[m][1] < CHAR_SIZE THEN D[m] ELSE <<>>
  BY Zenon DEF Stages
<1> DEFINE Fits74(k) == \E v : Values74(v, D[k], len) /\ v[len] < room[k]
           S == {k \in 0..m : Fits74(k)}
<1>3. 0 \in S
  <2> DEFINE v == [i \in 0..len |-> 0]
  <2>1. Values74(v, Zero(len), len) /\ v[len] = 0
    BY DEF Values74, Zero, CHAR_SIZE
  <2> HIDE DEF v
  <2>2. Fits74(0)
    BY <1>1, <1>2, <2>1
  <2> HIDE DEF Fits74
  <2> QED BY <2>2
<1>4. ASSUME NEW k \in 0..(m - 1), k \in S PROVE k + 1 \in S
  <2>1. PICK v : Values74(v, D[k], len) /\ v[len] < room[k]
    BY <1>4, Zenon
  <2> DEFINE r == fields[k + 1].radix
             ix == Index(fields[k + 1], values[k + 1])
             a == v[len]
             b == room[k]
  <2>2. k + 1 \in 1..m /\ (k + 1) - 1 = k /\ k \in 0..m
    OBVIOUS
  <2>3. r \in Nat \ {0} /\ ix \in 0..(r - 1)
    BY <2>2, Zenon DEF InRadix
  <2>4. D[k + 1] = MulAdd(D[k], r, ix) /\ IsNumber(D[k], len) /\ room[k + 1] = b * r
    BY <1>1, <1>2, <2>2, Zenon
  <2>5. PICK w : Values74(w, D[k + 1], len) /\ w[len] = a * r + ix
    <3> HIDE DEF r, ix
    <3>1. \E w : Values74(w, MulAdd(D[k], r, ix), len) /\ w[len] = v[len] * r + ix
      BY <2>1, <2>3, <2>4, MulAddValue
    <3> QED BY <2>4, <3>1, Zenon
  <2>6. a \in Nat /\ b \in Nat /\ a < b
    <3>1. a \in Nat
      BY <2>1 DEF Values74
    <3>2. b \in Nat
      BY <1>1, <2>2, Zenon
    <3>3. a < b
      BY <2>1, Zenon
    <3> HIDE DEF a, b
    <3> QED BY <3>1, <3>2, <3>3
  <2> HIDE DEF r, ix, a, b
  <2>7. a * r + ix < b * r
    <3>1. b - a - 1 \in Nat /\ b = a + 1 + (b - a - 1)
      BY <2>6
    <3>2. b * r = a * r + r + (b - a - 1) * r /\ (b - a - 1) * r \in Nat /\ a * r \in Nat
      BY <2>3, <2>6, <3>1, Z3
    <3> QED BY <2>3, <3>2
  <2>8. Fits74(k + 1)
    BY <2>4, <2>5, <2>7, Zenon
  <2> HIDE DEF Fits74
  <2> QED BY <2>2, <2>8
<1>5. Fits74(m)
  <2>1. \A k \in 0..m : k \in S
    <3> HIDE DEF S
    <3> QED BY <1>3, <1>4, UpTo
  <2> HIDE DEF Fits74
  <2> QED BY <2>1
<1>6. PICK v : Values74(v, D[m], len) /\ v[len] < room[m]
  BY <1>5
<1>7. D[m] \in [1..len -> Nat] /\ \A i \in 2..len : D[m][i] < CHAR_SIZE
  BY <1>2 DEF IsNumber
<1>8. D[m][1] < CHAR_SIZE
  <2>1. v[len] < p[len]
    <3>1. 0 \in 0..m /\ m \in 0..m /\ len \in 0..len
      OBVIOUS
    <3>2. v[len] \in Nat /\ room[m] \in Nat /\ p[len] \in Nat
      BY <1>1, <1>6, <3>1, Zenon DEF Values74, Powers
    <3> DEFINE a == v[len]
               b == room[m]
               c == p[len]
    <3>3. a \in Nat /\ b \in Nat /\ c \in Nat /\ a < b /\ b <= c
      BY <1>1, <1>6, <3>2, Zenon
    <3> HIDE DEF a, b, c
    <3>4. a < c
      BY <3>3
    <3> QED BY <3>4 DEF a, c
  <2> QED BY <1>1, <1>6, <1>7, <2>1, FirstDigit
<1>9. D[m] \in [1..len -> Char]
  <2>1. \A i \in 1..len : D[m][i] \in Char
    <3> SUFFICES ASSUME NEW i \in 1..len PROVE D[m][i] \in Char
      OBVIOUS
    <3> DEFINE d == D[m][i]
    <3>1. d \in Nat /\ d < 74
      <4>1. i = 1 \/ i \in 2..len
        OBVIOUS
      <4> QED BY <1>7, <1>8, <4>1, Zenon DEF CHAR_SIZE
    <3> HIDE DEF d
    <3>2. d \in Char
      BY <3>1 DEF Char, CHAR_SIZE
    <3> QED BY <3>2 DEF d
  <2> QED BY <1>7, <2>1
<1> QED BY <1>2, <1>8, <1>9, Zenon

-----------------------------------------------------------------------------
\* The decoders have the radices of the encoders.
SameRadix(readers, fields) ==
    Len(readers) = Len(fields) /\ \A k \in 1..Len(fields) : readers[k].radix = fields[k].radix

\* What is read of the characters of a chunk: of every field the index that was written.
LEMMA DecodeEncode ==
    ASSUME NEW len \in Nat \ {0}, NEW fields, Len(fields) \in Nat, NEW values,
           InRadix(fields, values), Packs(len, fields), NEW readers, SameRadix(readers, fields)
    PROVE  Decode(readers, Encode(len, fields, values))
             = [k \in 1..Len(fields) |-> Number(readers[k], Index(fields[k], values[k]))]
<1> DEFINE m == Len(fields)
           str == Encode(len, fields, values)
           rest[k \in 1..(Len(readers) + 1)] ==
             IF k = Len(readers) + 1 THEN str ELSE Divide(rest[k + 1], readers[k].radix).quotient
<1>1. PICK D : Stages(D, len, fields, values)
  BY EncodeStages
<1>2. str = D[m]
  BY <1>1, EncodeAccepts
<1>3. /\ \A k \in 0..m : IsNumber(D[k], len)
      /\ \A k \in 1..m : D[k] = MulAdd(D[k - 1], fields[k].radix, Index(fields[k], values[k]))
  BY <1>1, Zenon DEF Stages
<1>4. Decode(readers, str)
        = [k \in 1..Len(readers) |-> Number(readers[k], Divide(rest[k + 1], readers[k].radix).remainder)]
  BY Zenon DEF Decode
<1> HIDE DEF str
<1> DEFINE Q(x, k) == Divide(x, readers[k].radix).quotient
           R(x, k) == Divide(x, readers[k].radix).remainder
<1>5. \A k \in 1..m : Q(D[k], k) = D[k - 1] /\ R(D[k], k) = Index(fields[k], values[k])
  <2> SUFFICES ASSUME NEW k \in 1..m
               PROVE  Q(D[k], k) = D[k - 1] /\ R(D[k], k) = Index(fields[k], values[k])
    BY Zenon
  <2> DEFINE r == fields[k].radix
             ix == Index(fields[k], values[k])
  <2>1. k - 1 \in 0..m
    OBVIOUS
  <2>2. r \in Nat \ {0} /\ ix \in 0..(r - 1) /\ readers[k].radix = r
    BY Zenon DEF InRadix, SameRadix
  <2>3. D[k] = MulAdd(D[k - 1], r, ix) /\ IsNumber(D[k - 1], len)
    BY <1>3, <2>1, Zenon
  <2> HIDE DEF r, ix
  <2>4. Divide(MulAdd(D[k - 1], r, ix), r) = [quotient |-> D[k - 1], remainder |-> ix]
    BY <2>2, <2>3, DivideMulAdd
  <2>5. Divide(D[k], readers[k].radix) = [quotient |-> D[k - 1], remainder |-> ix]
    BY <2>2, <2>3, <2>4, Zenon
  <2>6. \A q, x : [quotient |-> q, remainder |-> x].quotient = q /\ [quotient |-> q, remainder |-> x].remainder = x
    OBVIOUS
  <2>7. Q(D[k], k) = D[k - 1] /\ R(D[k], k) = ix
    BY <2>5, <2>6, Zenon
  <2> QED BY <2>7 DEF ix
<1>6. Len(readers) = m
  BY DEF SameRadix
<1> DEFINE f == [k \in 1..(m + 1) |-> D[k - 1]]
<1>7. f = [k \in 1..(Len(readers) + 1) |-> IF k = Len(readers) + 1 THEN str ELSE Q(f[k + 1], k)]
  <2>1. /\ \A k \in 1..m : f[k] = D[k - 1] /\ f[k + 1] = D[k]
        /\ f[m + 1] = D[m] /\ f = [k \in 1..(m + 1) |-> f[k]]
    OBVIOUS
  <2> HIDE DEF f, rest, Q
  <2>2. \A k \in 1..(m + 1) : f[k] = IF k = m + 1 THEN str ELSE Q(f[k + 1], k)
    <3>1. \A k \in 1..(m + 1) : k = m + 1 \/ k \in 1..m
      OBVIOUS
    <3>2. \A k \in 1..m : f[k] = Q(f[k + 1], k)
      BY <1>5, <2>1, Zenon
    <3> QED BY <1>2, <2>1, <3>1, <3>2, Zenon
  <2> QED BY <1>6, <2>1, <2>2, Zenon
<1>8. rest = [k \in 1..(Len(readers) + 1) |-> IF k = Len(readers) + 1 THEN str ELSE Q(rest[k + 1], k)]
  BY <1>7, Zenon
<1>9. Decode(readers, str) = [k \in 1..Len(readers) |-> Number(readers[k], R(rest[k + 1], k))]
  BY <1>4, Zenon
<1> HIDE DEF rest, f, Q, R
<1>10. rest[m + 1] = str /\ \A k \in 1..m : rest[k] = Q(rest[k + 1], k)
  BY <1>6, <1>8
<1>11. \A k \in 1..(m + 1) : rest[k] = D[k - 1]
  <2> DEFINE S == {k \in 1..(m + 1) : rest[k] = D[k - 1]}
  <2>1. m + 1 \in S
    BY <1>2, <1>10
  <2>2. ASSUME NEW k \in 1..((m + 1) - 1), k + 1 \in S PROVE k \in S
    <3>1. k \in 1..m /\ k \in 1..(m + 1) /\ (k + 1) - 1 = k
      OBVIOUS
    <3>2. rest[k + 1] = D[k]
      BY <2>2, <3>1
    <3>3. rest[k] = D[k - 1]
      BY <1>5, <1>10, <3>1, <3>2, Zenon
    <3> QED BY <3>1, <3>3
  <2>3. \A k \in 1..(m + 1) : k \in S
    <3>1. m + 1 \in Nat
      OBVIOUS
    <3> HIDE DEF S
    <3> QED BY <2>1, <2>2, <3>1, DownTo
  <2> QED BY <2>3
<1>12. \A k \in 1..m : R(rest[k + 1], k) = Index(fields[k], values[k])
  <2> SUFFICES ASSUME NEW k \in 1..m PROVE R(rest[k + 1], k) = Index(fields[k], values[k])
    BY Zenon
  <2>1. k + 1 \in 1..(m + 1) /\ (k + 1) - 1 = k
    OBVIOUS
  <2>2. rest[k + 1] = D[k]
    BY <1>11, <2>1
  <2> QED BY <1>5, <2>2, Zenon
<1> QED BY <1>6, <1>9, <1>12, Zenon DEF str

-----------------------------------------------------------------------------
(* Chunks, and the rows of fields in them.                                 *)

\* The indices that an encoder writes, a decoder gets.
Packed(f, d) == IsEncoder(f) /\ BelowRadix(f) /\ d.radix = f.radix

IsSeq(s) == \E S : s \in Seq(S)

\* The products of the radices of the first fields: so many values have the fields together.
Rooms(r, fields) ==
    /\ r \in [0..Len(fields) -> Nat] /\ r[0] = 1
    /\ \A k \in 1..Len(fields) : r[k] = r[k - 1] * fields[k].radix
HasRoom(fields, room) == \E r : Rooms(r, fields) /\ r[Len(fields)] = room

\* The fields of a builder's chunk and of its parser's, all of one scale but for the misread.
Paired(fields, readers, room, misread) ==
    /\ IsSeq(fields) /\ IsSeq(readers) /\ Len(readers) = Len(fields)
    /\ \A k \in 1..Len(fields) :
         Packed(fields[k], readers[k]) /\ (k \in misread \/ Reads(readers[k], fields[k]))
    /\ HasRoom(fields, room)

\* A chunk is never refused and its fields are read as they were said.
THEOREM ChunkSurvives ==
    ASSUME NEW len \in Nat \ {0}, NEW fields, NEW readers, NEW room, NEW misread,
           Paired(fields, readers, room, misread), NEW p, Powers(p, len), room <= p[len],
           NEW values, \A k \in 1..Len(fields) : values[k] \in Int
    PROVE  /\ Encode(len, fields, values) \in [1..len -> Char]
           /\ Decode(readers, Encode(len, fields, values))
                = [k \in 1..Len(fields) |-> Number(readers[k], Index(fields[k], values[k]))]
           /\ \A k \in 1..Len(fields) :
                k \in misread \/ Faithful(fields[k], values[k], Number(readers[k], Index(fields[k], values[k])))
<1> DEFINE m == Len(fields)
<1>1. m \in Nat
  BY DEF Paired, IsSeq
<1>2. \A k \in 1..m : Packed(fields[k], readers[k]) /\ (k \in misread \/ Reads(readers[k], fields[k]))
  BY Zenon DEF Paired
<1>3. InRadix(fields, values)
  <2> SUFFICES ASSUME NEW k \in 1..m
               PROVE  /\ fields[k].radix \in Nat \ {0}
                      /\ Index(fields[k], values[k]) \in 0..(fields[k].radix - 1)
    BY Zenon DEF InRadix
  <2>1. IsEncoder(fields[k]) /\ BelowRadix(fields[k]) /\ values[k] \in Int
    BY <1>2, Zenon DEF Packed
  <2>2. fields[k].radix \in Nat \ {0}
    BY <2>1, Zenon DEF BelowRadix
  <2> QED BY <2>1, <2>2, IndexBelow, Zenon
<1>4. Packs(len, fields)
  <2>1. PICK r : Rooms(r, fields) /\ r[m] = room
    BY Zenon DEF Paired, HasRoom
  <2>2. r[m] <= p[len]
    BY <2>1, Zenon
  <2> QED BY <2>1, <2>2, Zenon DEF Packs, Rooms
<1>5. SameRadix(readers, fields)
  BY <1>2, Zenon DEF SameRadix, Paired, Packed
<1>6. PICK D : Stages(D, len, fields, values)
  BY <1>1, <1>3, EncodeStages
<1>7. Encode(len, fields, values) \in [1..len -> Char]
  BY <1>1, <1>3, <1>4, <1>6, EncodeAccepts
<1>8. Decode(readers, Encode(len, fields, values))
        = [k \in 1..m |-> Number(readers[k], Index(fields[k], values[k]))]
  BY <1>1, <1>3, <1>4, <1>5, DecodeEncode
<1>9. ASSUME NEW k \in 1..m
      PROVE  k \in misread \/ Faithful(fields[k], values[k], Number(readers[k], Index(fields[k], values[k])))
  <2>1. IsEncoder(fields[k]) /\ values[k] \in Int /\ (k \in misread \/ Reads(readers[k], fields[k]))
    BY <1>2, Zenon DEF Packed
  <2> QED BY <2>1, FieldSurvives, Zenon
<1> QED BY <1>7, <1>8, <1>9

-----------------------------------------------------------------------------
(* Rows of fields. *)

\* A field and its part of the parser,
LEMMA PairedOne ==
    ASSUME NEW a, NEW b, Packed(a, b), Reads(b, a)
    PROVE  Paired(<<a>>, <<b>>, a.radix, {})
<1> DEFINE r == [k \in 0..1 |-> IF k = 0 THEN 1 ELSE a.radix]
<1>1. a.radix \in Nat
  BY DEF Packed, BelowRadix
<1>2. IsSeq(<<a>>) /\ IsSeq(<<b>>)
  <2>1. <<a>> \in Seq({a}) /\ <<b>> \in Seq({b})
    OBVIOUS
  <2> QED BY <2>1, Zenon DEF IsSeq
<1>3. Len(<<a>>) = 1 /\ Len(<<b>>) = 1 /\ <<a>>[1] = a /\ <<b>>[1] = b
  OBVIOUS
<1>4. Rooms(r, <<a>>) /\ r[1] = a.radix
  BY <1>1, <1>3 DEF Rooms
<1>5. HasRoom(<<a>>, a.radix)
  <2> HIDE DEF r
  <2> QED BY <1>3, <1>4, Zenon DEF HasRoom
<1>6. \A k \in 1..Len(<<a>>) : k = 1
  BY <1>3
<1> QED BY <1>2, <1>3, <1>5, <1>6, Zenon DEF Paired

\* two sequences in a row,
LEMMA IsSeqConcat ==
    ASSUME NEW s, NEW t, IsSeq(s), IsSeq(t)
    PROVE  /\ IsSeq(s \o t) /\ Len(s \o t) = Len(s) + Len(t) /\ Len(s) \in Nat /\ Len(t) \in Nat
           /\ \A k \in 1..Len(s) : (s \o t)[k] = s[k]
           /\ \A k \in 1..Len(t) : (s \o t)[k + Len(s)] = t[k]
<1>1. PICK S : s \in Seq(S)
  BY DEF IsSeq
<1>2. PICK T : t \in Seq(T)
  BY DEF IsSeq
<1> DEFINE U == S \cup T
<1>3. s \in Seq(U) /\ t \in Seq(U)
  BY <1>1, <1>2
<1> HIDE DEF U
<1>4. s \o t \in Seq(U) /\ Len(s \o t) = Len(s) + Len(t) /\ Len(s) \in Nat /\ Len(t) \in Nat
  BY <1>3
<1>5. IsSeq(s \o t)
  BY <1>4, Zenon DEF IsSeq
<1> QED BY <1>3, <1>4, <1>5

\* and two rows of fields, whose values multiply.
LEMMA PairedConcat ==
    ASSUME NEW f, NEW d, NEW g, NEW e, NEW x \in Nat, NEW y \in Nat,
           Paired(f, d, x, {}), Paired(g, e, y, {})
    PROVE  Paired(f \o g, d \o e, x * y, {})
<1> DEFINE m == Len(f)
           n == Len(g)
           h == f \o g
           c == d \o e
<1>1. /\ IsSeq(f) /\ IsSeq(d) /\ IsSeq(g) /\ IsSeq(e) /\ Len(d) = m /\ Len(e) = n
      /\ \A k \in 1..m : Packed(f[k], d[k]) /\ Reads(d[k], f[k])
      /\ \A k \in 1..n : Packed(g[k], e[k]) /\ Reads(e[k], g[k])
  BY Zenon DEF Paired
<1>2. /\ IsSeq(h) /\ IsSeq(c) /\ Len(h) = m + n /\ Len(c) = m + n /\ m \in Nat /\ n \in Nat
      /\ \A k \in 1..m : h[k] = f[k] /\ c[k] = d[k]
      /\ \A k \in 1..n : h[k + m] = g[k] /\ c[k + m] = e[k]
  <2>1. IsSeq(f) /\ IsSeq(d) /\ IsSeq(g) /\ IsSeq(e) /\ Len(d) = Len(f) /\ Len(e) = Len(g)
    BY <1>1, Zenon
  <2>2. /\ IsSeq(f \o g) /\ Len(f \o g) = Len(f) + Len(g) /\ Len(f) \in Nat /\ Len(g) \in Nat
        /\ \A k \in 1..Len(f) : (f \o g)[k] = f[k]
        /\ \A k \in 1..Len(g) : (f \o g)[k + Len(f)] = g[k]
    BY <2>1, IsSeqConcat
  <2>3. /\ IsSeq(d \o e) /\ Len(d \o e) = Len(d) + Len(e)
        /\ \A k \in 1..Len(d) : (d \o e)[k] = d[k]
        /\ \A k \in 1..Len(e) : (d \o e)[k + Len(d)] = e[k]
    BY <2>1, IsSeqConcat
  <2> QED BY <2>1, <2>2, <2>3
<1>3. PICK r : Rooms(r, f) /\ r[m] = x
  BY Zenon DEF Paired, HasRoom
<1>4. PICK q : Rooms(q, g) /\ q[n] = y
  BY Zenon DEF Paired, HasRoom
<1> DEFINE w == [k \in 0..(m + n) |-> IF k <= m THEN r[k] ELSE x * q[k - m]]
<1>5. /\ r \in [0..m -> Nat] /\ r[0] = 1 /\ \A k \in 1..m : r[k] = r[k - 1] * f[k].radix
      /\ q \in [0..n -> Nat] /\ q[0] = 1 /\ \A k \in 1..n : q[k] = q[k - 1] * g[k].radix
  BY <1>3, <1>4, Zenon DEF Rooms
<1>6. \A k \in 1..n : g[k].radix \in Nat
  BY <1>1, Zenon DEF Packed, BelowRadix
<1>7. \A k \in 1..n : k - 1 \in 0..n /\ k \in 0..n /\ k + m \in 0..(m + n) /\ (k - 1) + m \in 0..(m + n)
  BY <1>2
<1> HIDE DEF m, n, h, c
<1>8. \A k \in 0..n : w[k + m] = x * q[k]
  <2> SUFFICES ASSUME NEW k \in 0..n PROVE w[k + m] = x * q[k]
    OBVIOUS
  <2>1. CASE k = 0
    <3>1. w[k + m] = r[m] /\ q[k] = 1
      BY <1>2, <1>5, <2>1
    <3> QED BY <1>3, <3>1 DEF m
  <2>2. CASE k # 0
    <3>1. k + m \in 0..(m + n) /\ ~(k + m <= m) /\ (k + m) - m = k
      BY <1>2, <2>2
    <3>2. w[k + m] = x * q[(k + m) - m]
      BY <3>1, Zenon
    <3> QED BY <3>1, <3>2, Zenon
  <2> QED BY <2>1, <2>2
<1>9. \A k \in 1..n : w[k + m] = w[(k - 1) + m] * h[k + m].radix
  <2> SUFFICES ASSUME NEW k \in 1..n PROVE w[k + m] = w[(k - 1) + m] * h[k + m].radix
    OBVIOUS
  <2> DEFINE a == q[k - 1]
             b == g[k].radix
  <2>1. a \in Nat /\ b \in Nat /\ q[k] = a * b
    BY <1>5, <1>6, <1>7, Zenon
  <2>2. w[k + m] = x * (a * b) /\ w[(k - 1) + m] = x * a /\ h[k + m].radix = b
    <3> HIDE DEF w
    <3> QED BY <1>2, <1>7, <1>8, <2>1, Zenon
  <2> HIDE DEF a, b, w
  <2>3. x * (a * b) = (x * a) * b
    BY <2>1, Z3
  <2> QED BY <2>2, <2>3, Zenon
<1>10. \A k \in 0..(m + n) : w[k] \in Nat
  <2> SUFFICES ASSUME NEW k \in 0..(m + n) PROVE w[k] \in Nat
    OBVIOUS
  <2>1. CASE k <= m
    <3>1. k \in 0..m
      BY <1>2, <2>1
    <3>2. w[k] = r[k]
      BY <2>1, Zenon
    <3> QED BY <1>5, <3>1, <3>2, Zenon
  <2>2. CASE ~(k <= m)
    <3>1. k - m \in 0..n
      BY <1>2, <2>2
    <3> DEFINE b == q[k - m]
    <3>2. b \in Nat /\ w[k] = x * b
      BY <1>5, <2>2, <3>1, Zenon
    <3> HIDE DEF b, w
    <3>3. x * b \in Nat
      BY <3>2, Z3
    <3> QED BY <3>2, <3>3, Zenon
  <2> QED BY <2>1, <2>2
<1>11. w[0] = 1 /\ \A k \in 1..(m + n) : w[k] = w[k - 1] * h[k].radix
  <2>1. w[0] = 1
    BY <1>2, <1>5
  <2> SUFFICES ASSUME NEW k \in 1..(m + n) PROVE w[k] = w[k - 1] * h[k].radix
    BY <2>1
  <2>2. CASE k <= m
    <3>1. k \in 1..m /\ k - 1 <= m /\ k \in 0..(m + n) /\ k - 1 \in 0..(m + n)
      BY <1>2, <2>2
    <3>2. w[k] = r[k] /\ w[k - 1] = r[k - 1]
      BY <2>2, <3>1, Zenon
    <3> HIDE DEF w
    <3> QED BY <1>2, <1>5, <3>1, <3>2, Zenon
  <2>3. CASE ~(k <= m)
    <3>1. k - m \in 1..n /\ (k - m) + m = k /\ ((k - m) - 1) + m = k - 1
      BY <1>2, <2>3
    <3> HIDE DEF w
    <3> QED BY <1>9, <3>1
  <2> QED BY <2>2, <2>3
<1>12. w \in [0..(m + n) -> Nat]
  <2>1. w = [k \in 0..(m + n) |-> w[k]]
    OBVIOUS
  <2> HIDE DEF w
  <2> QED BY <1>10, <2>1, Zenon
<1>13. w[m + n] = x * y
  <2>1. n \in 0..n /\ n + m = m + n
    BY <1>2
  <2> HIDE DEF w
  <2>2. w[n + m] = x * q[n]
    BY <1>8, <2>1, Zenon
  <2> QED BY <1>4, <2>1, <2>2 DEF n
<1>14. HasRoom(h, x * y)
  <2> HIDE DEF w
  <2>1. Rooms(w, h)
    BY <1>2, <1>11, <1>12, Zenon DEF Rooms
  <2> QED BY <1>2, <1>13, <2>1, Zenon DEF HasRoom
<1>15. ASSUME NEW k \in 1..(m + n) PROVE Packed(h[k], c[k]) /\ Reads(c[k], h[k])
  <2>1. CASE k <= m
    <3>1. k \in 1..m
      BY <1>2, <2>1
    <3>2. h[k] = f[k] /\ c[k] = d[k]
      BY <1>2, <3>1, Zenon
    <3>3. Packed(f[k], d[k]) /\ Reads(d[k], f[k])
      BY <1>1, <3>1, Zenon DEF m
    <3> QED BY <3>2, <3>3, Zenon
  <2>2. CASE ~(k <= m)
    <3>1. k - m \in 1..n /\ (k - m) + m = k
      BY <1>2, <2>2
    <3>2. h[k] = g[k - m] /\ c[k] = e[k - m]
      <4>1. h[(k - m) + m] = g[k - m] /\ c[(k - m) + m] = e[k - m]
        BY <1>2, <3>1, Zenon
      <4> QED BY <3>1, <4>1
    <3>3. Packed(g[k - m], e[k - m]) /\ Reads(e[k - m], g[k - m])
      BY <1>1, <3>1, Zenon DEF n
    <3> QED BY <3>2, <3>3, Zenon
  <2> QED BY <2>1, <2>2
<1> QED BY <1>2, <1>14, <1>15, Zenon DEF Paired, h, c
=============================================================================
