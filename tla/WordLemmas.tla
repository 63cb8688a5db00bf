------------------------------ MODULE WordLemmas ------------------------------
(***************************************************************************)
(* Facts about the C integers and the images of bytes of Words, for every   *)
(* number of values of a byte: what is read of what was written, what a     *)
(* store, a fill and a copy leave, and what the masks keep in range.        *)
(***************************************************************************)
EXTENDS Words, Lemmas

-----------------------------------------------------------------------------
(* A word has an even number of values, at least sixteen.                   *)
LEMMA WordSize ==
    /\ ByteMod \in Nat /\ ByteMod >= 2
    /\ W \in Nat /\ W >= 8 * ByteMod /\ W % 2 = 0
<1>1. ByteMod \in Nat /\ ByteMod >= 2 /\ ByteMod % 2 = 0
    BY ByteAssumption
<1> DEFINE S == ByteMod * ByteMod
<1>2. S \in Nat /\ S >= 2 * ByteMod
    BY <1>1
<1>3. W = S * S
    BY <1>1, <1>2 DEF W
<1>4. S * S \in Nat /\ S * S >= 4 * S
    BY <1>1, <1>2
<1>5. W \in Nat /\ W >= 8 * ByteMod
    BY <1>1, <1>2, <1>3, <1>4
<1>6. W % 2 = 0
    <2>1. PICK h \in Nat : ByteMod = 2 * h
        BY <1>1
    <2> DEFINE m == ByteMod * ByteMod * ByteMod * h
    <2>2. m \in Int
        BY <1>1, <2>1
    <2>3. W = 2 * m
        BY <1>1, <2>1 DEF W
    <2> HIDE DEF m
    <2>4. QED BY <2>2, <2>3
<1>7. QED BY <1>1, <1>5, <1>6

(* Truncation to a word gives a word, and leaves a word as it is.           *)
LEMMA ToWordFacts ==
    ASSUME NEW n \in Int
    PROVE  /\ ToWord(n) \in Word
           /\ n \in Word => ToWord(n) = n
<1>1. W \in Nat /\ W > 0 /\ W % 2 = 0
    BY WordSize
<1>2. n % W \in 0 .. W - 1
    BY <1>1
<1>3. PICK h \in Nat : W = 2 * h /\ W \div 2 = h
    BY <1>1
<1>4. ToWord(n) \in Word
    BY <1>1, <1>2, <1>3 DEF ToWord, Signed, Word
<1>5. ASSUME n \in Word PROVE ToWord(n) = n
    <2>1. -h <= n /\ n < h
        BY <1>3, <1>5 DEF Word
    <2>2. n % W = IF n >= 0 THEN n ELSE n + W
        BY <1>1, <1>3, <2>1
    <2>3. QED BY <1>3, <2>1, <2>2 DEF ToWord, Signed
<1>6. QED BY <1>4, <1>5

(* Zero, every byte and every small number is a word.                       *)
LEMMA SmallWords == Byte \subseteq Word /\ 0 \in Word /\ Byte \subseteq Nat
<1>1. PICK h \in Nat : W = 2 * h /\ W \div 2 = h
    BY WordSize
<1>2. QED BY <1>1, WordSize DEF Byte, Word

(* The bounds of a word are numbers.                                        *)
LEMMA WordIsInt == Word \subseteq Int /\ W \div 2 \in Nat
    BY WordSize DEF Word

(* Four bytes make a word.                                                  *)
LEMMA WordAtFacts ==
    ASSUME NEW mem, NEW a \in Int,
           mem[a] \in Byte, mem[a + 1] \in Byte, mem[a + 2] \in Byte,
           mem[a + 3] \in Byte
    PROVE  WordAt(mem, a) \in Word
<1>1. mem[a] \in Int /\ mem[a + 1] \in Int /\ mem[a + 2] \in Int
      /\ mem[a + 3] \in Int /\ ByteMod \in Int
    <2>1. \A b \in Byte : b \in Int
        BY SmallWords
    <2>2. QED BY <2>1, WordSize
<1>2. ByteMod * mem[a + 3] \in Int
    BY <1>1
<1>3. ByteMod * (mem[a + 2] + ByteMod * mem[a + 3]) \in Int
    BY <1>1, <1>2
<1>4. ByteMod * (mem[a + 1] + ByteMod * (mem[a + 2] + ByteMod * mem[a + 3]))
         \in Int
    BY <1>1, <1>3
<1>5. QED BY <1>1, <1>4, ToWordFacts DEF WordAt

-----------------------------------------------------------------------------
(* Quotients and remainders, for a divisor that is no numeral.               *)

LEMMA QuotientRemainder ==
    ASSUME NEW n \in Int, NEW d \in Nat, d > 0
    PROVE  n \div d \in Int /\ n % d \in 0 .. d - 1 /\ n = d * (n \div d) + (n % d)
    OBVIOUS

LEMMA DivUnique ==
    ASSUME NEW n \in Int, NEW d \in Nat, d > 0, NEW q \in Int, NEW r \in 0 .. d - 1,
           n = d * q + r
    PROVE  n \div d = q /\ n % d = r
<1> DEFINE p == n \div d
           s == n % d
<1>1. p \in Int /\ s \in 0 .. d - 1 /\ n = d * p + s
    BY QuotientRemainder
<1> HIDE DEF p, s
<1>2. ASSUME NEW x \in Int, NEW y \in Int, x > y PROVE d * x >= d * y + d
    <2> DEFINE m == x - y
    <2>1. m \in Nat /\ m >= 1 /\ x = y + m
        BY <1>2
    <2> HIDE DEF m
    <2>2. d * m >= d
        BY <2>1
    <2>3. d * x = d * y + d * m
        BY <2>1
    <2>4. d * x \in Int /\ d * y \in Int /\ d * m \in Int
        BY <2>1
    <2>5. QED BY <2>2, <2>3, <2>4
<1>3. d * p \in Int /\ d * q \in Int
    BY <1>1
<1>4. ~ (p > q) /\ ~ (q > p)
    BY <1>1, <1>2, <1>3
<1>5. p = q
    BY <1>1, <1>4
<1>6. s = r
    BY <1>1, <1>3, <1>5
<1>7. QED BY <1>5, <1>6 DEF p, s

(* Dividing twice is dividing by the product.                               *)
LEMMA DivDiv ==
    ASSUME NEW n \in Int, NEW b \in Nat, b > 0, NEW c \in Nat, c > 0
    PROVE  n \div (b * c) = (n \div b) \div c
<1> DEFINE q == n \div b
           r == n % b
           p == q \div c
           s == q % c
<1>1. q \in Int /\ r \in 0 .. b - 1 /\ n = b * q + r
    BY QuotientRemainder
<1>2. p \in Int /\ s \in 0 .. c - 1 /\ q = c * p + s
    BY <1>1, QuotientRemainder
<1> HIDE DEF q, r, p, s
<1>3. b * c \in Nat /\ b * c > 0
    OBVIOUS
<1>4. n = (b * c) * p + (b * s + r)
    <2>1. b * q = b * (c * p) + b * s
        BY <1>1, <1>2
    <2>2. b * (c * p) = (b * c) * p
        BY <1>2
    <2>3. b * (c * p) \in Int /\ b * s \in Int
        BY <1>2
    <2>4. QED BY <1>1, <2>1, <2>2, <2>3
<1>5. b * s + r \in 0 .. b * c - 1
    <2> DEFINE t == c - 1 - s
    <2>1. t \in Nat /\ c = s + 1 + t
        BY <1>2
    <2> HIDE DEF t
    <2>2. b * c = b * s + b + b * t
        BY <1>2, <2>1
    <2>3. b * s \in Nat /\ b * t \in Nat
        BY <1>2, <2>1
    <2>4. QED BY <1>1, <1>3, <2>2, <2>3
<1> DEFINE u == b * s + r
           d == b * c
<1>6. d \in Nat /\ d > 0 /\ u \in 0 .. d - 1 /\ n = d * p + u
    BY <1>3, <1>4, <1>5
<1> HIDE DEF u, d
<1>7. n \div d = p
    BY <1>2, <1>6, DivUnique
<1>8. QED BY <1>7 DEF d, p, q

(* A word is read as it was written, byte by byte.                          *)
LEMMA WordRoundTrip ==
    ASSUME NEW v \in Word, NEW mem, NEW a \in Int,
           mem[a] = ByteOf(v, 0), mem[a + 1] = ByteOf(v, 1),
           mem[a + 2] = ByteOf(v, 2), mem[a + 3] = ByteOf(v, 3)
    PROVE  WordAt(mem, a) = v
<1> DEFINE B  == ByteMod
           q1 == v \div B
           q2 == q1 \div B
           q3 == q2 \div B
           q4 == q3 \div B
           r0 == v % B
           r1 == q1 % B
           r2 == q2 % B
           r3 == q3 % B
           u  == r0 + B * (r1 + B * (r2 + B * r3))
<1>1. B \in Nat /\ B > 0 /\ v \in Int /\ B * B \in Nat /\ B * B > 0
    <2>1. B \in Nat /\ B >= 2
        BY WordSize
    <2>2. B * B \in Nat /\ B * B > 0
        BY <2>1
    <2>3. QED BY <2>1, <2>2, WordIsInt
<1>2. /\ mem[a] = r0 /\ mem[a + 1] = r1
      /\ mem[a + 2] = r2 /\ mem[a + 3] = r3
    <2>1. v \div (B * B) = q2
        BY <1>1, DivDiv
    <2>2. v \div (B * (B * B)) = q3
        <3>1. v \div (B * (B * B)) = q1 \div (B * B)
            BY <1>1, DivDiv
        <3>2. q1 \in Int
            BY <1>1
        <3>3. q1 \div (B * B) = q3
            BY <1>1, <3>2, DivDiv
        <3>4. QED BY <3>1, <3>3
    <2>3. ByteOf(v, 0) = r0 /\ ByteOf(v, 1) = r1
        BY DEF ByteOf
    <2>4. ByteOf(v, 2) = r2
        BY <2>1 DEF ByteOf, ShortMod
    <2>5. ByteOf(v, 3) = r3
        BY <2>2 DEF ByteOf, ShortMod
    <2>6. QED BY <2>3, <2>4, <2>5
<1>3. q1 \in Int /\ r0 \in Nat /\ v = B * q1 + r0
    BY <1>1, QuotientRemainder
<1>4. q2 \in Int /\ r1 \in Nat /\ q1 = B * q2 + r1
    BY <1>1, <1>3, QuotientRemainder
<1>5. q3 \in Int /\ r2 \in Nat /\ q2 = B * q3 + r2
    BY <1>1, <1>4, QuotientRemainder
<1>6. q4 \in Int /\ r3 \in Nat /\ q3 = B * q4 + r3
    BY <1>1, <1>5, QuotientRemainder
<1>7. WordAt(mem, a) = ToWord(u)
    BY <1>2 DEF WordAt
<1> HIDE DEF B, q1, q2, q3, q4, r0, r1, r2, r3
<1>8. v = W * q4 + u /\ u \in Int
    <2> DEFINE u2 == r2 + B * r3
               u1 == r1 + B * u2
    <2>1. q2 = (B * B) * q4 + u2 /\ u2 \in Int
        <3>1. B * q3 = B * (B * q4) + B * r3
            BY <1>1, <1>6
        <3>2. B * (B * q4) = (B * B) * q4 /\ (B * B) * q4 \in Int /\ B * r3 \in Int
            BY <1>1, <1>6
        <3>3. QED BY <1>5, <3>1, <3>2
    <2> HIDE DEF u2
    <2>2. q1 = (B * B * B) * q4 + u1 /\ u1 \in Int
        <3>1. B * q2 = B * ((B * B) * q4) + B * u2
            BY <1>1, <1>6, <2>1
        <3>2. B * ((B * B) * q4) = (B * B * B) * q4 /\ (B * B * B) * q4 \in Int
              /\ B * u2 \in Int
            BY <1>1, <1>6, <2>1
        <3>3. QED BY <1>4, <3>1, <3>2
    <2> HIDE DEF u1
    <2>3. v = (B * B * B * B) * q4 + (r0 + B * u1) /\ r0 + B * u1 \in Int
        <3>1. B * q1 = B * ((B * B * B) * q4) + B * u1
            BY <1>1, <1>6, <2>2
        <3>2. B * ((B * B * B) * q4) = (B * B * B * B) * q4
              /\ (B * B * B * B) * q4 \in Int /\ B * u1 \in Int
            BY <1>1, <1>6, <2>2
        <3>3. QED BY <1>3, <3>1, <3>2
    <2>4. r0 + B * u1 = u
        BY DEF u1, u2
    <2>5. B * B * B * B = W
        BY DEF B, W
    <2>6. QED BY <2>3, <2>4, <2>5
<1> HIDE DEF u
<1>9. u % W = v % W
    <2>1. W \in Nat /\ W > 0
        BY WordSize
    <2>2. u \div W \in Int /\ u % W \in 0 .. W - 1 /\ u = W * (u \div W) + (u % W)
        BY <1>8, <2>1, QuotientRemainder
    <2> DEFINE p == u \div W
               s == u % W
    <2>3. v = W * (q4 + p) + s
        <3>1. p \in Int /\ s \in Int /\ u = W * p + s
            BY <2>1, <2>2
        <3> HIDE DEF p, s
        <3>2. W * (q4 + p) = W * q4 + W * p /\ W * q4 \in Int /\ W * p \in Int
            BY <1>6, <2>1, <3>1
        <3>3. QED BY <1>8, <3>1, <3>2
    <2>4. q4 + p \in Int /\ s \in 0 .. W - 1 /\ v \in Int
        BY <1>1, <1>6, <2>2
    <2> HIDE DEF p, s
    <2>5. v % W = s
        BY <2>1, <2>3, <2>4, DivUnique
    <2>6. QED BY <2>5 DEF s
<1>10. ToWord(u) = ToWord(v)
    BY <1>9 DEF ToWord, Signed
<1>11. QED BY <1>7, <1>10, <1>1, ToWordFacts

-----------------------------------------------------------------------------
(* What is put together from bits is a word: the sum of powers of two that  *)
(* FromBits counts up exists, and all of it are integers.                   *)

LEMMA BitSum ==
    ASSUME NEW N \in Nat, NEW B
    PROVE  \E f : f = [k \in 0 .. N |->
                          IF k = 0 THEN 0
                          ELSE f[k - 1] + (IF k - 1 \in B THEN 2 ^ (k - 1) ELSE 0)]
<1> DEFINE Bit(k)    == IF k - 1 \in B THEN 2 ^ (k - 1) ELSE 0
           Sum(f, n) == f = [k \in 0 .. n |-> IF k = 0 THEN 0
                                              ELSE f[k - 1] + Bit(k)]
           P         == {n \in 0 .. N : \E f : Sum(f, n)}
<1> HIDE DEF Bit
<1>1. 0 \in P
    <2> DEFINE z == [k \in 0 .. 0 |-> 0]
    <2>1. \A k \in 0 .. 0 : z[k] = IF k = 0 THEN 0 ELSE z[k - 1] + Bit(k)
        OBVIOUS
    <2>2. Sum(z, 0)
        BY <2>1
    <2> HIDE DEF z, Sum
    <2>3. QED BY <2>2
<1>2. ASSUME NEW n \in P, n < N PROVE n + 1 \in P
    <2>1. PICK f : Sum(f, n)
        OBVIOUS
    <2> DEFINE g == [k \in 0 .. n + 1 |-> IF k = 0 THEN 0
                                          ELSE f[k - 1] + Bit(k)]
    <2>2. n \in Nat /\ n + 1 \in 0 .. N
        BY <1>2
    <2>3. \A k \in 0 .. n : g[k] = f[k]
        BY <2>1, <2>2
    <2>4. \A k \in 0 .. n + 1 : g[k] = IF k = 0 THEN 0 ELSE g[k - 1] + Bit(k)
        <3> SUFFICES ASSUME NEW k \in 0 .. n + 1, k # 0
                     PROVE  g[k] = g[k - 1] + Bit(k)
            BY <2>2
        <3>1. k - 1 \in 0 .. n
            BY <2>2
        <3>2. QED BY <2>2, <2>3, <3>1
    <2>5. Sum(g, n + 1)
        BY <2>4
    <2>6. QED BY <2>2, <2>5
<1>3. P = 0 .. N
    <2> HIDE DEF P
    <2>1. P \in SUBSET (0 .. N)
        BY DEF P
    <2>2. QED BY <1>1, <1>2, <2>1, BoundedInduction
<1>4. QED BY <1>3 DEF Bit

LEMMA FromBitsFacts ==
    ASSUME NEW B
    PROVE  FromBits(B) \in Word
<1> DEFINE sum == CHOOSE f : f = [k \in 0 .. WordBits |->
                          IF k = 0 THEN 0
                          ELSE f[k - 1] + (IF k - 1 \in B THEN 2 ^ (k - 1) ELSE 0)]
           P   == {k \in 0 .. WordBits : sum[k] \in Int}
<1>1. WordBits \in Nat
    BY ByteAssumption DEF WordBits
<1>2. FromBits(B) = ToWord(sum[WordBits])
    BY Zenon DEF FromBits
<1>3. sum = [k \in 0 .. WordBits |->
                IF k = 0 THEN 0
                ELSE sum[k - 1] + (IF k - 1 \in B THEN 2 ^ (k - 1) ELSE 0)]
    BY <1>1, BitSum
<1> HIDE DEF sum
<1>4. P = 0 .. WordBits
    <2>1. 0 \in P
        BY <1>1, <1>3
    <2>2. ASSUME NEW k \in P, k < WordBits PROVE k + 1 \in P
        <3>1. k \in Nat /\ k + 1 \in 0 .. WordBits /\ sum[k] \in Int
            BY <1>1, <2>2
        <3>2. 2 ^ k \in Int
            BY <3>1
        <3>3. sum[k + 1] = sum[k] + (IF k \in B THEN 2 ^ k ELSE 0)
            BY <1>3, <3>1
        <3>4. QED BY <3>1, <3>2, <3>3
    <2>3. P \in SUBSET (0 .. WordBits)
        OBVIOUS
    <2> HIDE DEF P
    <2>4. QED BY <1>1, <2>1, <2>2, <2>3, BoundedInduction
<1>5. sum[WordBits] \in Int
    BY <1>1, <1>4
<1>6. QED BY <1>2, <1>5, ToWordFacts

-----------------------------------------------------------------------------
(* Parts of words, and what stores, fills and copies make of an image.       *)

LEMMA HalfWordSize ==
    /\ ShortMod \in Nat /\ ShortMod > 0
    /\ 4 * ByteMod <= W /\ 4 * ShortMod <= W
<1>1. ByteMod \in Nat /\ ByteMod >= 2
    BY WordSize
<1>2. ShortMod \in Nat /\ ShortMod >= 4
    <2>1. ByteMod * ByteMod \in Nat /\ ByteMod * ByteMod >= 2 * ByteMod
        BY <1>1
    <2>2. QED BY <1>1, <2>1 DEF ShortMod
<1>3. W = ShortMod * ShortMod
    <2> DEFINE b == ByteMod
    <2>1. b * b * b * b = (b * b) * (b * b)
        BY <1>1
    <2>2. QED BY <2>1 DEF W, ShortMod
<1>4. ShortMod * ShortMod >= 4 * ShortMod
    BY <1>2
<1>5. QED BY <1>2, <1>3, <1>4, WordSize

(* Sign extension of a byte or of two gives a word.                         *)
LEMMA SignedFacts ==
    ASSUME NEW n \in Int, NEW mod \in {ByteMod, ShortMod}
    PROVE  Signed(n, mod) \in Word
<1>1. mod \in Nat /\ mod > 0 /\ 4 * mod <= W
    BY HalfWordSize, WordSize
<1>2. n % mod \in 0 .. mod - 1
    BY <1>1, QuotientRemainder
<1>3. PICK h \in Nat : W = 2 * h /\ W \div 2 = h
    BY WordSize
<1>4. QED BY <1>1, <1>2, <1>3 DEF Signed, Word

LEMMA UnsignedFacts ==
    ASSUME NEW w \in Word
    PROVE  /\ Unsigned(w) \in 0 .. W - 1
           /\ Unsigned(w) = IF w >= 0 THEN w ELSE w + W
           /\ Unsigned(w) <= DataMask => w = Unsigned(w)
<1>1. PICK h \in Nat : W = 2 * h /\ W \div 2 = h
    BY WordSize
<1>2. W \in Nat /\ W > 0 /\ DataMask \in Nat /\ DataMask + 1 < h
    BY WordSize, MaskAssumption, <1>1
<1>3. w \in Int /\ -h <= w /\ w < h
    BY <1>1 DEF Word
<1>4. w % W = IF w >= 0 THEN w ELSE w + W
    BY <1>1, <1>2, <1>3
<1>5. QED BY <1>1, <1>2, <1>3, <1>4 DEF Unsigned

(* The mask leads into the image, three bytes before its end.               *)
LEMMA MaskedFacts ==
    ASSUME NEW n \in Int
    PROVE  Masked(n) \in 0 .. DataMask
    BY MaskAssumption, QuotientRemainder DEF Masked

LEMMA ByteOfFacts ==
    ASSUME NEW w \in Int, NEW k
    PROVE  ByteOf(w, k) \in Byte
<1> DEFINE part == CASE k = 0 -> w
                     [] k = 1 -> w \div ByteMod
                     [] k = 2 -> w \div ShortMod
                     [] OTHER -> w \div (ByteMod * ShortMod)
<1>1. ByteMod \in Nat /\ ByteMod > 0 /\ ShortMod \in Nat /\ ShortMod > 0
    BY WordSize, HalfWordSize
<1>2. ByteMod * ShortMod \in Nat /\ ByteMod * ShortMod > 0
    BY <1>1
<1>3. /\ w \div ByteMod \in Int /\ w \div ShortMod \in Int
      /\ w \div (ByteMod * ShortMod) \in Int
    <2> DEFINE d == ByteMod * ShortMod
    <2>1. d \in Nat /\ d > 0
        BY <1>2
    <2> HIDE DEF d
    <2>2. w \div d \in Int
        BY <2>1, QuotientRemainder
    <2>3. QED BY <1>1, <2>2, QuotientRemainder DEF d
<1>4. part \in Int
    BY <1>3
<1> HIDE DEF part
<1>5. part % ByteMod \in 0 .. ByteMod - 1
    BY <1>1, <1>4, QuotientRemainder
<1>6. QED BY <1>5 DEF ByteOf, Byte, part

LEMMA PutFacts ==
    ASSUME NEW mem \in Image, NEW a \in Int, NEW n \in Int, NEW w \in Int
    PROVE  Put(mem, a, n, w) \in Image
    BY ByteOfFacts DEF Put, Image

LEMMA PutWordFacts ==
    ASSUME NEW mem \in Image, NEW a \in Int, NEW w \in Int
    PROVE  PutWord(mem, a, w) \in Image
    BY PutFacts DEF PutWord

LEMMA PutWordsFacts ==
    ASSUME NEW mem \in Image, NEW a \in Int, NEW n \in Nat,
           NEW words \in [0 .. n - 1 -> Int]
    PROVE  PutWords(mem, a, n, words) \in Image
<1>1. ASSUME NEW x \in Addresses, x \in a .. a + 4 * n - 1
      PROVE  ByteOf(words[(x - a) \div 4], (x - a) % 4) \in Byte
    <2>1. (x - a) \div 4 \in 0 .. n - 1
        BY <1>1, MaskAssumption DEF Addresses
    <2>2. words[(x - a) \div 4] \in Int
        BY <2>1
    <2>3. QED BY <2>2, ByteOfFacts
<1>2. QED BY <1>1 DEF PutWords, Image

LEMMA FillFacts ==
    ASSUME NEW mem \in Image, NEW a \in Int, NEW n \in Int, NEW b \in Int
    PROVE  Fill(mem, a, n, b) \in Image
<1>1. b % ByteMod \in Byte
    BY WordSize, QuotientRemainder DEF Byte
<1>2. QED BY <1>1 DEF Fill, Image

LEMMA MemcpyFacts ==
    ASSUME NEW mem \in Image, NEW dest \in Nat, NEW src \in Nat, NEW n \in Nat,
           src + n <= DataMask + 5, NEW m \in Memcpy(mem, dest, src, n)
    PROVE  m \in Image
<1>1. DataMask \in Nat
    BY MaskAssumption
<1>2. ASSUME NEW k \in 0 .. n - 1 PROVE mem[src + k] \in Byte
    BY <1>1 DEF Image, Addresses
<1>3. Moved(mem, dest, src, n) \in Image
    <2>1. ASSUME NEW x \in dest .. dest + n - 1 PROVE mem[src + (x - dest)] \in Byte
        BY <1>2
    <2>2. QED BY <2>1 DEF Moved, Image
<1>4. MovedForward(mem, dest, src, n) \in Image
    <2>1. CASE dest > src /\ dest < src + n
        <3> DEFINE d == dest - src
        <3>1. d \in Nat /\ d > 0 /\ d <= n
            BY <2>1
        <3>2. ASSUME NEW x \in dest .. dest + n - 1
              PROVE  mem[src + ((x - dest) % d)] \in Byte
            <4>1. (x - dest) % d \in 0 .. d - 1
                <5>1. x - dest \in Int
                    OBVIOUS
                <5> HIDE DEF d
                <5>2. QED BY <3>1, <5>1, QuotientRemainder
            <4> HIDE DEF d
            <4>2. (x - dest) % d \in 0 .. n - 1
                BY <3>1, <4>1
            <4>3. QED BY <4>2, <1>2
        <3>3. QED BY <2>1, <3>2 DEF MovedForward, Image
    <2>2. CASE ~ (dest > src /\ dest < src + n)
        BY <1>3, <2>2 DEF MovedForward
    <2>3. QED BY <2>1, <2>2
<1>5. QED BY <1>3, <1>4 DEF Memcpy

(* What is read within the image is a word.                                 *)
LEMMA ReadFacts ==
    ASSUME NEW mem \in Image, NEW a \in Int
    PROVE  /\ InImage(a, 4) => WordAt(mem, a) \in Word
           /\ InImage(a, 2) => ShortAt(mem, a) \in Word
           /\ InImage(a, 1) => ByteAt(mem, a) \in Word
<1>1. DataMask \in Nat
    BY MaskAssumption
<1>2. ASSUME InImage(a, 4) PROVE WordAt(mem, a) \in Word
    <2>1. /\ a \in Addresses /\ a + 1 \in Addresses /\ a + 2 \in Addresses
          /\ a + 3 \in Addresses
        BY <1>1, <1>2 DEF InImage, Addresses
    <2>2. QED BY <2>1, WordAtFacts DEF Image
<1>3. ASSUME InImage(a, 2) PROVE ShortAt(mem, a) \in Word
    <2>1. a \in Addresses /\ a + 1 \in Addresses
        BY <1>1, <1>3 DEF InImage, Addresses
    <2>2. mem[a] \in 0 .. ByteMod - 1 /\ mem[a + 1] \in 0 .. ByteMod - 1
        BY <2>1 DEF Image, Byte
    <2> DEFINE lo == mem[a]  hi == mem[a + 1]
    <2> HIDE DEF lo, hi
    <2>3. ByteMod \in Nat /\ lo \in 0 .. ByteMod - 1 /\ hi \in 0 .. ByteMod - 1
        BY <2>2, WordSize DEF lo, hi
    <2>4. ByteMod * hi \in Nat /\ ByteMod * hi <= ByteMod * (ByteMod - 1)
        BY <2>3
    <2>5. ByteMod * (ByteMod - 1) = ShortMod - ByteMod
        BY <2>3 DEF ShortMod
    <2>6. lo + ByteMod * hi \in 0 .. ShortMod - 1
        BY <2>3, <2>4, <2>5, HalfWordSize
    <2>7. PICK h \in Nat : W = 2 * h /\ W \div 2 = h
        BY WordSize
    <2>8. lo + ByteMod * hi \in Word
        BY <2>6, <2>7, HalfWordSize DEF Word
    <2>9. QED BY <2>8 DEF ShortAt, lo, hi
<1>4. ASSUME InImage(a, 1) PROVE ByteAt(mem, a) \in Word
    <2>1. a \in Addresses
        BY <1>1, <1>4 DEF InImage, Addresses
    <2>2. mem[a] \in Byte
        BY <2>1 DEF Image
    <2>3. QED BY <2>2, SmallWords DEF ByteAt
<1>5. QED BY <1>2, <1>3, <1>4
===============================================================================
