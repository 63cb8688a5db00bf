------------------------------- MODULE QvmFile --------------------------------
(***************************************************************************)
(* A .qvm file: vmHeader_t (src/src/vm/vm.h), what VM_LoadQVM asks of it,  *)
(* and the bytes q3asm writes for an instruction.  A file is a record: its *)
(* header, its length, bytes (by offset, the header's left out), and       *)
(* source, the instructions it was assembled from, if it was.              *)
(***************************************************************************)
EXTENDS Words, QvmProgram

CONSTANTS
    HeaderSize,  \* sizeof(vmHeader_t)
    MaxImage,    \* VM_MAX_IMAGE_SIZE
    MaxBss       \* VM_MAX_BSS_LENGTH

ASSUME FileAssumption ==
    HeaderSize \in Nat /\ MaxImage \in Nat /\ MaxBss \in Nat

CodeEnd(h)    == h.codeOffset + h.codeLength
DataEnd(h)    == h.dataOffset + h.dataLength + h.litLength
DataLength(h) == h.dataLength + h.litLength + h.bssLength

GoodFields(h, length) ==
    /\ length > HeaderSize /\ length <= MaxImage
    /\ h.magic
    /\ h.bssLength >= 0 /\ h.dataLength >= 0 /\ h.litLength >= 0
    /\ h.codeLength > 0 /\ h.codeOffset >= 0 /\ h.dataOffset >= 0
    /\ h.instructionCount > 0
    /\ h.bssLength <= MaxBss

GoodHeader(h, length) ==
    GoodFields(h, length) /\ CodeEnd(h) <= length /\ DataEnd(h) <= length

(* An instruction in the code segment: the opcode, and the operand if there *)
(* is one.                                                                  *)
Bytes(v) == [k \in 1 .. 4 |-> ByteOf(v, k - 1)]

Encoded(i) ==
    << Code(i.op) >>
    \o (CASE i.op \in WordOperand -> Bytes(i.operand)
         [] i.op \in ByteOperand -> << i.operand >>
         [] OTHER                -> << >>)

(* The programs that an assembled file can hold: an operand fits its bytes,  *)
(* and a branch goes to an instruction.                                     *)
OpcodeNames == {Name(n) : n \in OP_UNDEF + 1 .. OP_MAX - 1}
Writable(instrs) ==
    /\ instrs \in Seq([op : OpcodeNames, operand : Int])
    /\ \A k \in 1 .. Len(instrs) :
          /\ instrs[k].op \in WordOperand => instrs[k].operand \in Word
          /\ instrs[k].op \in ByteOperand => instrs[k].operand \in Byte
          /\ instrs[k].op \in Branches => instrs[k].operand \in 0 .. Len(instrs) - 1

(* Where the count-th instruction of the code begins, for one who reads the *)
(* code from its start as the loader does.                                  *)
EndOfCode(code, count) ==
    LET at[k \in 0 .. count] ==
            IF k = 0 THEN 1
            ELSE LET here == at[k - 1]
                 IN  IF here \in DOMAIN code
                     THEN here + FileLength(Plain(Name(code[here])))
                     ELSE Len(code) + 5
    IN  at[count] - 1
=============================================================================
