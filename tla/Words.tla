-------------------------------- MODULE Words --------------------------------
(***************************************************************************)
(* The C integers the interpreter (src/src/vm/vm.c) computes with, and the *)
(* data image as an array of bytes.  A word is a signed two's complement   *)
(* integer of four bytes, in little endian order; how many values a byte   *)
(* has is a parameter, so that a small instance still wraps around, sign-  *)
(* extends and masks addresses.                                            *)
(***************************************************************************)
EXTENDS Integers, FiniteSetsExt

CONSTANTS
    ByteBits,  \* 8
    ByteMod,   \* 256, the number of values of a byte
    DataMask   \* vm->dataMask, one less than a power of two

ASSUME ByteAssumption ==
    /\ ByteBits \in Nat \ {0} /\ ByteMod \in Nat \ {0}
    /\ ByteMod = 2 ^ ByteBits /\ ByteMod % 2 = 0

W        == ByteMod * ByteMod * ByteMod * ByteMod
ShortMod == ByteMod * ByteMod
WordBits == 4 * ByteBits
Word     == -(W \div 2) .. W \div 2 - 1
MinWord  == -(W \div 2)
Byte     == 0 .. ByteMod - 1

ASSUME MaskAssumption == DataMask \in Nat /\ DataMask + 1 < W \div 2

(* Two's complement: the signed number that n is modulo 2^bits, and the     *)
(* unsigned number a word is.                                               *)
Signed(n, mod) == LET u == n % mod IN IF u >= mod \div 2 THEN u - mod ELSE u
ToWord(n)      == Signed(n, W)
Unsigned(w)    == w % W

(* Masked(a) is a & vm->dataMask: DataMask is all ones.                     *)
Masked(a) == a % (DataMask + 1)

(* vm->dataBase has four bytes more than the mask addresses.                *)
Addresses == 0 .. DataMask + 4
Image     == [Addresses -> Byte]

InImage(a, n) == a >= 0 /\ a + n - 1 <= DataMask + 4

ByteAt(mem, a)  == mem[a]
ShortAt(mem, a) == mem[a] + ByteMod * mem[a + 1]
WordAt(mem, a)  ==
    ToWord(mem[a] + ByteMod * (mem[a + 1] + ByteMod * (mem[a + 2] +
           ByteMod * mem[a + 3])))

(* Mutant of ByteOf: a store does not truncate.                             *)
ByteOfUncut(w, k) ==
    CASE k = 0 -> w
      [] k = 1 -> w \div ByteMod
      [] k = 2 -> w \div ShortMod
      [] OTHER -> w \div (ByteMod * ShortMod)

(* The k-th byte of w; its n low bytes, or a row of words, at address a.     *)
ByteOf(w, k) ==
    (CASE k = 0 -> w
       [] k = 1 -> w \div ByteMod
       [] k = 2 -> w \div ShortMod
       [] OTHER -> w \div (ByteMod * ShortMod)) % ByteMod

Put(mem, a, n, w) ==
    [x \in Addresses |-> IF x \in a .. a + n - 1 THEN ByteOf(w, x - a) ELSE mem[x]]

PutWords(mem, a, n, words) ==
    [x \in Addresses |->
        IF x \in a .. a + 4 * n - 1
        THEN ByteOf(words[(x - a) \div 4], (x - a) % 4) ELSE mem[x]]

PutWord(mem, a, w) == Put(mem, a, 4, w)

(* memset and memcpy of n bytes.  Of two overlapping regions memcpy may     *)
(* read a byte it has already written.                                      *)
Fill(mem, a, n, b) == [x \in Addresses |-> IF x \in a .. a + n - 1
                                            THEN b % ByteMod ELSE mem[x]]
Moved(mem, dest, src, n) ==
    [x \in Addresses |-> IF x \in dest .. dest + n - 1
                         THEN mem[src + (x - dest)] ELSE mem[x]]
MovedForward(mem, dest, src, n) ==
    IF dest > src /\ dest < src + n
    THEN [x \in Addresses |->
             IF x \in dest .. dest + n - 1
             THEN mem[src + ((x - dest) % (dest - src))] ELSE mem[x]]
    ELSE Moved(mem, dest, src, n)
Memcpy(mem, dest, src, n) ==
    {Moved(mem, dest, src, n), MovedForward(mem, dest, src, n)}

(* Words as sets of bit numbers.                                            *)
Bits(w)     == {k \in 0 .. WordBits - 1 : (Unsigned(w) \div 2 ^ k) % 2 = 1}
FromBits(B) ==
    LET sum[k \in 0 .. WordBits] ==
            IF k = 0 THEN 0
            ELSE sum[k - 1] + (IF k - 1 \in B THEN 2 ^ (k - 1) ELSE 0)
    IN  ToWord(sum[WordBits])
=============================================================================
