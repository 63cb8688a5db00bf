------------------------------ MODULE SourceOps -------------------------------
(***************************************************************************)
(* sourceOps (src/q3asm/opstrings.h): what q3asm makes of the names lcc    *)
(* gives its operations.  A name is an operation and a type; q3asm has     *)
(* names for some pairs only, and "OP_UNDEF" for a few it refuses.         *)
(***************************************************************************)
EXTENDS Integers, Sequences, TLC

Typed(prefix, types, op) == [w \in {prefix \o t : t \in types} |-> op]

Words4 == {"F4", "I4", "P4", "U4"}
Ints4  == {"I4", "U4"}
Ints2  == {"I2", "U2"}
Ints1  == {"I1", "U1"}

Memory ==
    Typed("CNST", Words4 \cup Ints2 \cup Ints1, "OP_CONST")
    @@ Typed("ADDRG", {"P4"}, "OP_CONST")
    @@ Typed("ASGN", {"B"}, "OP_BLOCK_COPY")
    @@ Typed("ASGN", Words4, "OP_STORE4")
    @@ Typed("ASGN", Ints2, "OP_STORE2")
    @@ Typed("ASGN", Ints1, "OP_STORE1")
    @@ Typed("INDIR", {"B"}, "OP_IGNORE")
    @@ Typed("INDIR", Words4, "OP_LOAD4")
    @@ Typed("INDIR", Ints2, "OP_LOAD2")
    @@ Typed("INDIR", Ints1, "OP_LOAD1")
    @@ Typed("LOAD", Words4 \cup {"B4"}, "OP_UNDEF")

(* CVII4 becomes OP_SEX8 or OP_SEX16.                                       *)
Conversions ==
    Typed("CV", {"FF4"}, "OP_UNDEF")
    @@ Typed("CV", {"FI4"}, "OP_CVFI")
    @@ Typed("CV", {"IF4"}, "OP_CVIF")
    @@ Typed("CV", {"II4"}, "OP_SEX8")
    @@ Typed("CV", {"II1", "II2", "IU4", "PU4", "UI4", "UP4", "UU4", "UU1", "UU2"},
             "OP_IGNORE")

ArithmeticOps ==
    Typed("NEG", {"F4"}, "OP_NEGF") @@ Typed("NEG", {"I4"}, "OP_NEGI")
    @@ Typed("ADD", {"F4"}, "OP_ADDF")
    @@ Typed("ADD", {"I4", "P4", "P", "U4"}, "OP_ADD")
    @@ Typed("SUB", {"F4"}, "OP_SUBF")
    @@ Typed("SUB", {"I4", "P4", "U4"}, "OP_SUB")
    @@ Typed("MUL", {"F4"}, "OP_MULF")
    @@ Typed("MUL", {"I4"}, "OP_MULI") @@ Typed("MUL", {"U4"}, "OP_MULU")
    @@ Typed("DIV", {"F4"}, "OP_DIVF")
    @@ Typed("DIV", {"I4"}, "OP_DIVI") @@ Typed("DIV", {"U4"}, "OP_DIVU")
    @@ Typed("MOD", {"I4"}, "OP_MODI") @@ Typed("MOD", {"U4"}, "OP_MODU")
    @@ Typed("RSH", {"I4"}, "OP_RSHI") @@ Typed("RSH", {"U4"}, "OP_RSHU")
    @@ Typed("LSH", Ints4, "OP_LSH")
    @@ Typed("BAND", Ints4, "OP_BAND") @@ Typed("BOR", Ints4, "OP_BOR")
    @@ Typed("BXOR", Ints4, "OP_BXOR") @@ Typed("BCOM", Ints4, "OP_BCOM")

Comparison(prefix) ==
    Typed(prefix, {"F4"}, "OP_" \o prefix \o "F")
    @@ IF prefix \in {"EQ", "NE"}
       THEN Typed(prefix, Ints4, "OP_" \o prefix)
       ELSE Typed(prefix, {"I4"}, "OP_" \o prefix \o "I")
            @@ Typed(prefix, {"U4"}, "OP_" \o prefix \o "U")

sourceOps ==
    Memory @@ Conversions @@ ArithmeticOps
    @@ Comparison("EQ") @@ Comparison("NE") @@ Comparison("LT")
    @@ Comparison("LE") @@ Comparison("GT") @@ Comparison("GE")
    @@ [w \in {"BREAK"} |-> "OP_BREAK"] @@ [w \in {"JUMPV"} |-> "OP_JUMP"]
=============================================================================
