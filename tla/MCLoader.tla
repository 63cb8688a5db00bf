------------------------------ MODULE MCLoader -------------------------------
(***************************************************************************)
(* Instances of Loader for TLC: files as q3asm writes them, and files with *)
(* one thing wrong.  A byte has 64 values, enough for every opcode and for *)
(* four that are none.                                                     *)
(***************************************************************************)
EXTENDS Loader, SequencesExt

Zeros(n) == [k \in 1 .. n |-> 0]

(* The code, aligned, follows the header; the data and the strings follow    *)
(* the code.                                                               *)
File(instrs, source, dataLength, litLength, bssLength) ==
    LET code0 == FlattenSeq([k \in 1 .. Len(instrs) |-> Encoded(instrs[k])])
        image == code0 \o Zeros(Aligned(Len(code0)) - Len(code0))
                       \o Zeros(dataLength + litLength)
    IN  [source |-> source,
         length |-> HeaderSize + Len(image),
         bytes  |-> [x \in HeaderSize .. HeaderSize + Len(image) - 1 |->
                        image[x - HeaderSize + 1]],
         header |-> [magic            |-> TRUE,
                     instructionCount |-> Len(instrs),
                     codeOffset       |-> HeaderSize,
                     codeLength       |-> Aligned(Len(code0)),
                     dataOffset       |-> HeaderSize + Aligned(Len(code0)),
                     dataLength       |-> dataLength,
                     litLength        |-> litLength,
                     bssLength        |-> bssLength]]

Programs == {
    << Instruction("OP_ENTER", 8), Instruction("OP_CONST", -3),
       Instruction("OP_ARG", 8), Plain("OP_PUSH"), Instruction("OP_LEAVE", 8) >>,
    << Instruction("OP_LOCAL", 8), Plain("OP_LOAD4"),
       Instruction("OP_BLOCK_COPY", 300), Instruction("OP_EQ", 0),
       Instruction("OP_ARG", 63), Instruction("OP_GEF", 6),
       Instruction("OP_LTU", 3) >>,
    << Instruction("OP_NE", 1), Plain("OP_IGNORE"), Instruction("OP_LEF", 2) >>,
    << Plain("OP_POP"), Plain("OP_BREAK"), Plain("OP_ADD"), Plain("OP_CVFI") >> }

(* At least the unused first word in .data, and the stack in .bss.          *)
AssembledFiles ==
    {File(p, p, 4, 0, StackSize) : p \in Programs}
    \cup {File(p, p, d, 8, b) : p \in Programs, d \in {4, 24}, b \in {48, 100}}

Base == File(<< Instruction("OP_ENTER", 8), Instruction("OP_NE", 0),
                Instruction("OP_LEAVE", 8), Plain("OP_PUSH") >>,
             << >>, 4, 0, StackSize)

Edited(field, value) == [Base EXCEPT !.header[field] = value]

BadHeaders ==
    {[Base EXCEPT !.length = n] : n \in {0, HeaderSize, HeaderSize + 10, MaxImage + 1}}
    \cup {Edited("magic", FALSE)}
    \cup {Edited(f, -1) : f \in {"instructionCount", "codeOffset", "codeLength",
                                 "dataOffset", "dataLength", "litLength",
                                 "bssLength"}}
    \cup {Edited(f, W \div 2 - 1) : f \in {"codeOffset", "dataOffset", "litLength",
                                          "bssLength"}}
    \cup {Edited("codeLength", 0), Edited("bssLength", MaxBss + 1)}

(* The header claims other numbers of instructions and of bytes of code.    *)
BadCounts ==
    {Edited("instructionCount", n) : n \in {1, 3, 5, 8, 30}}
    \cup {Edited("codeLength", n) : n \in {1, 4, 10, 15, 24}}
    \cup {[Edited("instructionCount", n) EXCEPT !.header.codeLength = 4] :
             n \in {5, 30}}

(* Nothing follows the code; it may end within an instruction.              *)
Ending(p) == File(p, << >>, 0, 0, 0)
BadEnds ==
    {[Ending(<< Plain("OP_ADD"), Plain("OP_SUB"), Plain("OP_POP"), last >>)
          EXCEPT !.header.instructionCount = n] :
        last \in {Plain("OP_POP"), Instruction("OP_ARG", 8)}, n \in 4 .. 9}
    \cup {[Ending(<< Plain("OP_POP"), Instruction("OP_CONST", 8),
                     Plain("OP_POP"), Plain("OP_POP") >>)
            EXCEPT !.header.codeLength = 4, !.length = HeaderSize + n] :
                n \in {4, 5, 8}}

(* Targets that are no instructions, and bytes that are no opcodes.         *)
BadCode ==
    {File(<< Plain("OP_PUSH"), Instruction(op, n), Plain("OP_POP") >>, << >>,
          4, 0, StackSize) : op \in {"OP_EQ", "OP_GEF"}, n \in {-1, 3, 4, 5000}}
    \cup {[Base EXCEPT !.bytes[HeaderSize + x] = n] : x \in {0, 5, 15}, n \in {60, 63}}

MCFiles == AssembledFiles \cup BadHeaders \cup BadCounts \cup BadEnds \cup BadCode
===============================================================================
