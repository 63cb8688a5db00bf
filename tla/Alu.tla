--------------------------------- MODULE Alu ---------------------------------
(***************************************************************************)
(* What the arithmetic, logical and comparing instructions of              *)
(* VM_CallInterpreted (src/src/vm/vm.c) compute, r1 being the word below   *)
(* the top r0 of the operand stack.                                        *)
(*                                                                         *)
(* The value is a set: empty where the C division traps, of several words  *)
(* where the result is not determined here.  Those are floating point (a   *)
(* float is a word nothing is known of) and a shift by a count that C does *)
(* not define; both give any of the words in Unspecified.  Signed addition *)
(* and multiplication wrap around, as the code generated for vm.c does.    *)
(***************************************************************************)
EXTENDS Words, Opcodes

CONSTANT Unspecified  \* outcomes tried where a result is not determined

ASSUME UnspecifiedAssumption == Unspecified # {} /\ Unspecified \subseteq Word

(* Mutant of Quotient: rounds towards minus infinity.                       *)
FloorQuotient(a, b) == IF b > 0 THEN a \div b ELSE (-a) \div (-b)

Magnitude(n) == IF n < 0 THEN -n ELSE n

(* C division truncates towards zero.                                       *)
Quotient(a, b) ==
    LET q == Magnitude(a) \div Magnitude(b)
    IN  IF (a < 0) = (b < 0) THEN q ELSE -q

Traps(r1, r0)    == r0 = 0 \/ (r1 = MinWord /\ r0 = -1)
BitNumbers       == 0 .. WordBits - 1
ShiftDefined(r0) == r0 \in BitNumbers

Arithmetic(op, r1, r0) ==
    CASE op = "OP_ADD"  -> {ToWord(r1 + r0)}
      [] op = "OP_SUB"  -> {ToWord(r1 - r0)}
      [] op \in {"OP_MULI", "OP_MULU"} -> {ToWord(r1 * r0)}
      [] op = "OP_DIVI" -> IF Traps(r1, r0) THEN {} ELSE {Quotient(r1, r0)}
      [] op = "OP_MODI" -> IF Traps(r1, r0) THEN {}
                           ELSE {r1 - r0 * Quotient(r1, r0)}
      [] op = "OP_DIVU" -> IF r0 = 0 THEN {}
                           ELSE {ToWord(Unsigned(r1) \div Unsigned(r0))}
      [] op = "OP_MODU" -> IF r0 = 0 THEN {}
                           ELSE {ToWord(Unsigned(r1) % Unsigned(r0))}
      [] op = "OP_BAND" -> {FromBits(Bits(r1) \cap Bits(r0))}
      [] op = "OP_BOR"  -> {FromBits(Bits(r1) \cup Bits(r0))}
      [] op = "OP_BXOR" -> {FromBits(SymDiff(Bits(r1), Bits(r0)))}
      [] op \in {"OP_LSH", "OP_RSHI", "OP_RSHU"} /\ ~ ShiftDefined(r0) ->
            Unspecified
      [] op = "OP_LSH"  -> {FromBits({k \in BitNumbers : k - r0 \in Bits(r1)})}
      [] op = "OP_RSHU" -> {FromBits({k \in BitNumbers : k + r0 \in Bits(r1)})}
      [] op = "OP_RSHI" -> {FromBits({k \in BitNumbers :
                                        IF k + r0 \in BitNumbers
                                        THEN k + r0 \in Bits(r1) ELSE r1 < 0})}
      [] OTHER          -> Unspecified

Complement(r0) == -1 - r0

Conversion(op, r0) ==
    CASE op = "OP_NEGI"  -> {ToWord(-r0)}
      [] op = "OP_BCOM"  -> {Complement(r0)}
      [] op = "OP_SEX8"  -> {Signed(r0, ByteMod)}
      [] op = "OP_SEX16" -> {Signed(r0, ShortMod)}
      [] OTHER           -> Unspecified

Holds(op, r1, r0) ==
    CASE op = "OP_EQ"  -> r1 = r0
      [] op = "OP_NE"  -> r1 # r0
      [] op = "OP_LTI" -> r1 < r0
      [] op = "OP_LEI" -> r1 <= r0
      [] op = "OP_GTI" -> r1 > r0
      [] op = "OP_GEI" -> r1 >= r0
      [] op = "OP_LTU" -> Unsigned(r1) < Unsigned(r0)
      [] op = "OP_LEU" -> Unsigned(r1) <= Unsigned(r0)
      [] op = "OP_GTU" -> Unsigned(r1) > Unsigned(r0)
      [] op = "OP_GEU" -> Unsigned(r1) >= Unsigned(r0)

(* Whether a branch may be taken: floats compare either way.                *)
Outcomes(op, r1, r0) ==
    IF op \in FloatBranches THEN BOOLEAN ELSE {Holds(op, r1, r0)}
=============================================================================
