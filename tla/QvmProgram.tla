----------------------------- MODULE QvmProgram ------------------------------
(***************************************************************************)
(* A loaded program: what VM_PrepareInterpreter (src/src/vm/vm.c) makes of  *)
(* the instructions of a .qvm file.  The file's instructions are a sequence *)
(* of records [op, operand], operand 0 where the opcode has none; branch,   *)
(* call and jump targets in it count instructions from 0.                  *)
(***************************************************************************)
EXTENDS Integers, Sequences, Opcodes

Instruction(op, operand) == [op |-> op, operand |-> operand]
Plain(op)                == Instruction(op, 0)

(* Length of an instruction in the file, in bytes, and in codeBase, in ints.*)
FileLength(i) == CASE i.op \in WordOperand -> 5
                   [] i.op \in ByteOperand -> 2
                   [] OTHER                -> 1
CodeInts(i)   == IF i.op \in WordOperand \cup ByteOperand THEN 2 ELSE 1

(* Offset of the k-th instruction (from 0) in the file's code and, as       *)
(* vm->instructionPointers[k], in codeBase.                                 *)
FileOffsets(instrs) ==
    LET at[k \in 0 .. Len(instrs)] ==
            IF k = 0 THEN 0 ELSE at[k - 1] + FileLength(instrs[k])
    IN  at
InstructionPointers(instrs) ==
    LET at[k \in 0 .. Len(instrs)] ==
            IF k = 0 THEN 0 ELSE at[k - 1] + CodeInts(instrs[k])
    IN  at

(* q3asm aligns every segment to words.                                     *)
Aligned(n) == ((n + 3) \div 4) * 4

(* Mutant of ResolvedOperand: the target stays an instruction number.       *)
UnresolvedOperand(i, pointers) == i.operand

(* Conditional branches are resolved in the code, calls and jumps when they *)
(* are executed.                                                            *)
ResolvedOperand(i, pointers) ==
    IF i.op \in Branches THEN pointers[i.operand] ELSE i.operand

Load(name, instrs) ==
    LET pointers == InstructionPointers(instrs)
        starts   == {pointers[k] : k \in 0 .. Len(instrs) - 1}
        At(x)    == CHOOSE k \in 1 .. Len(instrs) : pointers[k - 1] = x
    IN  [name     |-> name,
         codeBase |->
            [x \in 0 .. pointers[Len(instrs)] - 1 |->
                IF x \in starts
                THEN Code(instrs[At(x)].op)
                ELSE ResolvedOperand(instrs[At(x - 1)], pointers)],
         codeLength          |-> Aligned(FileOffsets(instrs)[Len(instrs)]),
         instructionCount    |-> Len(instrs),
         instructionPointers |-> [k \in 0 .. Len(instrs) - 1 |-> pointers[k]]]
=============================================================================
