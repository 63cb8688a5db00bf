------------------------------- MODULE Opcodes -------------------------------
(***************************************************************************)
(* opcode_t (src/src/vm/vm.c), and the groups of opcodes that have one     *)
(* shape: an operand of a size, a jump target, a pair of words to compare. *)
(***************************************************************************)
EXTENDS Integers

Mnemonic ==
    << "OP_IGNORE", "OP_BREAK", "OP_ENTER", "OP_LEAVE", "OP_CALL", "OP_PUSH",
       "OP_POP", "OP_CONST", "OP_LOCAL", "OP_JUMP",
       "OP_EQ", "OP_NE", "OP_LTI", "OP_LEI", "OP_GTI", "OP_GEI",
       "OP_LTU", "OP_LEU", "OP_GTU", "OP_GEU",
       "OP_EQF", "OP_NEF", "OP_LTF", "OP_LEF", "OP_GTF", "OP_GEF",
       "OP_LOAD1", "OP_LOAD2", "OP_LOAD4", "OP_STORE1", "OP_STORE2",
       "OP_STORE4", "OP_ARG", "OP_BLOCK_COPY", "OP_SEX8", "OP_SEX16",
       "OP_NEGI", "OP_ADD", "OP_SUB", "OP_DIVI", "OP_DIVU", "OP_MODI",
       "OP_MODU", "OP_MULI", "OP_MULU", "OP_BAND", "OP_BOR", "OP_BXOR",
       "OP_BCOM", "OP_LSH", "OP_RSHI", "OP_RSHU", "OP_NEGF", "OP_ADDF",
       "OP_SUBF", "OP_DIVF", "OP_MULF", "OP_CVIF", "OP_CVFI" >>

OP_UNDEF == 0
OP_MAX   == 60

(* The enumeration numbers the names from OP_UNDEF = 0 on.                  *)
Name(n)    == IF n \in 1 .. OP_MAX - 1 THEN Mnemonic[n] ELSE "OP_UNDEF"
Code(name) == CHOOSE n \in OP_UNDEF .. OP_MAX - 1 : Name(n) = name

IntBranches   == {"OP_EQ", "OP_NE", "OP_LTI", "OP_LEI", "OP_GTI", "OP_GEI",
                  "OP_LTU", "OP_LEU", "OP_GTU", "OP_GEU"}
FloatBranches == {"OP_EQF", "OP_NEF", "OP_LTF", "OP_LEF", "OP_GTF", "OP_GEF"}
Branches      == IntBranches \cup FloatBranches

(* Instructions with an operand of four bytes, and of one.                  *)
WordOperand == Branches \cup {"OP_ENTER", "OP_LEAVE", "OP_CONST", "OP_LOCAL",
                              "OP_BLOCK_COPY"}
ByteOperand == {"OP_ARG"}

Loads  == {"OP_LOAD1", "OP_LOAD2", "OP_LOAD4"}
Stores == {"OP_STORE1", "OP_STORE2", "OP_STORE4"}

(* Instructions that replace the top of the operand stack by a function of  *)
(* it, and the two topmost words by a function of both.                     *)
Unary  == {"OP_NEGI", "OP_BCOM", "OP_SEX8", "OP_SEX16", "OP_NEGF", "OP_CVIF",
           "OP_CVFI"}
Binary == {"OP_ADD", "OP_SUB", "OP_DIVI", "OP_DIVU", "OP_MODI", "OP_MODU",
           "OP_MULI", "OP_MULU", "OP_BAND", "OP_BOR", "OP_BXOR", "OP_LSH",
           "OP_RSHI", "OP_RSHU", "OP_ADDF", "OP_SUBF", "OP_DIVF", "OP_MULF"}
=============================================================================
