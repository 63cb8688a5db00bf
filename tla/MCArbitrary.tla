----------------------------- MODULE MCArbitrary -----------------------------
(***************************************************************************)
(* Instances of Interpreter for TLC with programs no compiler made: two    *)
(* words on the operand stack, any two instructions, and an OP_LEAVE that   *)
(* ends VM_Call if the program stack is where OP_ENTER left it.            *)
(***************************************************************************)
EXTENDS Interpreter

AnyInstruction ==
    {Plain(op) : op \in {"OP_UNDEF", "OP_IGNORE", "OP_BREAK", "OP_CALL", "OP_PUSH",
                         "OP_POP", "OP_JUMP", "OP_SEX8", "OP_NEGI", "OP_CVIF"}
                        \cup Loads \cup Stores
                        \cup {"OP_ADD", "OP_SUB", "OP_DIVI", "OP_DIVU", "OP_LSH", "OP_MULF"}}
    \cup {Instruction(op, 1) : op \in {"OP_EQ", "OP_LTI", "OP_LTU", "OP_GEF"}}
    \cup {Instruction("OP_CONST", n) : n \in {-3, -4, 99}}
    \cup {Instruction("OP_ENTER", n) : n \in {6, 8}}
    \cup {Instruction("OP_LEAVE", n) : n \in {8, 100}}
    \cup {Instruction("OP_BLOCK_COPY", n) : n \in {-2, 2}}
    \cup {Instruction("OP_LOCAL", 8), Instruction("OP_ARG", 8)}

Body(frame, a, b, x, y) ==
    << Instruction("OP_ENTER", frame), Instruction("OP_CONST", a),
       Instruction("OP_CONST", b), x, y, Instruction("OP_LEAVE", frame) >>

(* memset(8, 0, -4): the range is accepted, the length is not one.          *)
NegativeLength ==
    << Instruction("OP_ENTER", 12), Instruction("OP_CONST", 8),
       Instruction("OP_ARG", 8), Instruction("OP_CONST", -4),
       Instruction("OP_ARG", 16), Instruction("OP_CONST", -3), Plain("OP_CALL"),
       Instruction("OP_LEAVE", 12) >>

MCPrograms ==
    {Load("any", Body(8, a, b, x, y)) :
        a \in {0, 6}, b \in {-7, 0, 2}, x \in AnyInstruction, y \in AnyInstruction}
    \cup {Load("any", NegativeLength)}

MCHostArgs      == {[k \in 0 .. 1 |-> 1]}
MCOpStacks      == {[k \in 1 .. 3 |-> 4]}
MCUnspecified   == {0, 3}
MCMeaning(p, a) == {}
=============================================================================
