-------------------------------- MODULE Loader --------------------------------
(***************************************************************************)
(* VM_Create, VM_LoadQVM and VM_PrepareInterpreter (src/src/vm/vm.c) over  *)
(* the bytes of a .qvm file, well formed or not, in a build without        *)
(* DEBUG_VM.  An iteration of one of the two loops over the code is a step.*)
(*                                                                         *)
(* A file is a record: its header, its length, bytes (by offset, without   *)
(* the header, which no code or data overlaps here), and source, the        *)
(* instructions it was assembled from, empty for a file that was not.      *)
(* What vm.c does beyond the memory it was given or took is not defined:   *)
(* mode becomes "wild".  Byte order is that of a little endian host, on     *)
(* which the loops that swap the header and the data change nothing.       *)
(***************************************************************************)
EXTENDS QvmFile, VmErrors

CONSTANTS
    StackSize,   \* VM_PROGRAM_STACK_SIZE
    Files        \* the files the host gives to VM_Create

(* 1 << i, for the sizes that are powers of two.                            *)
ShiftedOne[i \in Nat] == IF i = 0 THEN 1 ELSE 2 * ShiftedOne[i - 1]

(* The stack is a power of two; no image is longer than an int can shift to, *)
(* and no file longer than an int can say.                                  *)
ASSUME LoaderAssumption ==
    /\ \E k \in 0 .. WordBits : StackSize = ShiftedOne[k]
    /\ MaxImage + MaxBss <= ShiftedOne[WordBits] /\ MaxImage \in Word

Header == [magic : BOOLEAN, instructionCount : Word, codeOffset : Word,
           codeLength : Word, dataOffset : Word, dataLength : Word,
           litLength : Word, bssLength : Word]

(* The file has the instructions of its source, as q3asm writes them, within *)
(* the limits of the virtual machine; q3asm reserves the stack in .bss and   *)
(* never leaves .data empty.                                                *)
HoldsSource(f) ==
    LET offsets == FileOffsets(f.source)
    IN  /\ Writable(f.source)
        /\ GoodHeader(f.header, f.length)
        /\ f.header.instructionCount = Len(f.source)
        /\ f.header.codeLength = Aligned(offsets[Len(f.source)])
        /\ \A k \in 1 .. Len(f.source) :
              \A x \in 1 .. FileLength(f.source[k]) :
                 f.bytes[f.header.codeOffset + offsets[k - 1] + (x - 1)] =
                    Encoded(f.source[k])[x]
        /\ DataLength(f.header) > StackSize

(* The fields of a header are ints, good or bad; a file has the bytes its    *)
(* length says, as far as the code is concerned.                            *)
ASSUME FilesAssumption ==
    \A f \in Files :
        /\ f.header \in Header /\ f.length \in Int
        /\ \A x \in DOMAIN f.bytes : f.bytes[x] \in Byte
        /\ GoodHeader(f.header, f.length) =>
              \A k \in 0 .. f.header.codeLength - 1 :
                 f.header.codeOffset + k \in DOMAIN f.bytes
        /\ f.source # << >> => HoldsSource(f)

VARIABLES
    file,                 \* the file VM_Create was given
    creating,             \* where VM_Create stands, or "no"
    lastError,            \* vm->lastError
    reported,             \* history: the level of the last Com_Error
    live,                 \* blocks the host has handed out and not got back
    owned,                \* which of codeBase, dataBase, instructionPointers are set
    codeLength,           \* vm->codeLength
    instructionCount,     \* vm->instructionCount
    instructionPointers,  \* its entries written so far
    codeBase,             \* its ints written so far
    dataMask, dataAlloc,  \* vm->dataMask, vm->dataAlloc
    programStack,         \* vm->programStack
    loop,                 \* the locals of VM_PrepareInterpreter
    mode                  \* "ok" or "wild"

errors == << lastError, reported >>
blocks == << live, owned >>
code   == << codeLength, instructionCount, instructionPointers, codeBase >>
data   == << dataMask, dataAlloc >>
vars   == << file, creating, errors, blocks, code, data, programStack, loop, mode >>

AllocTypes == {"VM_ALLOC_CODE_SEC", "VM_ALLOC_DATA_SEC",
               "VM_ALLOC_INSTRUCTION_POINTERS"}

header == file.header
Loaded == creating = "no" /\ codeLength > 0

(* The offset in the file of a byte of the code, and what is there.         *)
CodeAt(pc)      == header.codeOffset + pc
CanRead(pc, n)  == \A k \in 0 .. n - 1 : CodeAt(pc + k) \in DOMAIN file.bytes

-----------------------------------------------------------------------------
(* VM_LoadQVM.                                                              *)

(* The ends of the segments are computed as ints; one that does not fit is  *)
(* not defined.                                                             *)
Overflows(h, length) ==
    /\ GoodFields(h, length)
    /\ \/ CodeEnd(h) \notin Word
       \/ CodeEnd(h) <= length /\ DataEnd(h) \notin Word

(* Mutant of RoundedUp: the exact power of two is missed.                   *)
RoundedDown(n) ==
    LET i == CHOOSE k \in 0 .. WordBits :
                 ShiftedOne[k + 1] > n
                 /\ \A j \in 0 .. k - 1 : ShiftedOne[j + 1] <= n
    IN  ShiftedOne[i]

(* The first power of two that n does not exceed.                           *)
RoundedUp(n) ==
    LET i == CHOOSE k \in 0 .. WordBits :
                 ShiftedOne[k] >= n /\ \A j \in 0 .. k - 1 : ShiftedOne[j] < n
    IN  ShiftedOne[i]

-----------------------------------------------------------------------------
(* Steps of VM_Create that fail, or go on.                                  *)

Fails ==
    /\ creating' = "failed"
    /\ UNCHANGED << file, blocks, programStack, mode >>

FailStoring(level) == Fails /\ lastError' = level /\ reported' = level

Take(type) ==
    /\ live' = live \cup {type}
    /\ owned' = owned \cup {type}

GoWild ==
    /\ mode' = "wild"
    /\ UNCHANGED << file, creating, errors, blocks, code, data, programStack, loop >>

Going(step) == creating = step /\ mode = "ok"

CreateBegin ==
    /\ Going("no") /\ codeLength = 0
    /\ file' \in Files
    /\ creating' = "load"
    /\ lastError' = VM_NO_ERROR
    /\ owned' = {}
    /\ instructionCount' = 0 /\ dataMask' = 0 /\ dataAlloc' = 0
    /\ UNCHANGED << reported, live, codeLength, instructionPointers, codeBase,
                    programStack, loop, mode >>

BadHeader ==
    /\ Going("load")
    /\ ~ GoodHeader(header, file.length) /\ ~ Overflows(header, file.length)
    /\ FailStoring(VM_FAILED_TO_LOAD_BYTECODE)
    /\ UNCHANGED << code, data, loop >>

BadHeaderWild ==
    /\ Going("load")
    /\ Overflows(header, file.length)
    /\ GoWild

(* The image has four bytes more than its mask addresses.  When there is no *)
(* memory for it, that is reported first, then that the file was not loaded.*)
LoadData ==
    /\ Going("load")
    /\ GoodHeader(header, file.length)
    /\ LET size == RoundedUp(DataLength(header))
       IN  dataMask' = size - 1 /\ dataAlloc' = size + 4
    /\ \/ /\ Take("VM_ALLOC_DATA_SEC")
          /\ creating' = "pointers"
          /\ UNCHANGED << file, errors, programStack, mode >>
       \/ FailStoring(VM_FAILED_TO_LOAD_BYTECODE)
    /\ UNCHANGED << code, loop >>

AllocatePointers ==
    /\ Going("pointers")
    /\ instructionCount' = header.instructionCount
    /\ \/ /\ Take("VM_ALLOC_INSTRUCTION_POINTERS")
          /\ codeLength' = header.codeLength
          /\ creating' = "prepare"
          /\ UNCHANGED << file, errors, programStack, mode >>
       \/ FailStoring(VM_MALLOC_FAILED) /\ UNCHANGED codeLength
    /\ UNCHANGED << instructionPointers, codeBase, data, loop >>

-----------------------------------------------------------------------------
(* VM_PrepareInterpreter.                                                   *)

Start(pass) == [pass |-> pass, bytePc |-> 0, intPc |-> 0, instruction |-> 0]

(* The bytes of the code are first copied to codeBase as they are.          *)
AllocateCode ==
    /\ Going("prepare")
    /\ \/ /\ Take("VM_ALLOC_CODE_SEC")
          /\ codeBase' = [n \in 0 .. (codeLength \div 4) - 1 |->
                             WordAt(file.bytes, CodeAt(4 * n))]
          /\ loop' = Start("expand")
          /\ creating' = "translate"
          /\ UNCHANGED << file, errors, programStack, mode >>
       \/ /\ Fails /\ reported' = VM_MALLOC_FAILED
          /\ UNCHANGED << lastError, codeBase, loop >>
    /\ UNCHANGED << codeLength, instructionCount, instructionPointers, data >>

InLoop(pass) == Going("translate") /\ loop.pass = pass

(* Mutant of OperandBytes: OP_ARG is forgotten.                             *)
OperandBytesNoArg(op) == IF Name(op) \in WordOperand THEN 4 ELSE 0

(* The number of bytes of an operand that follow the opcode.                *)
OperandBytes(op) == IF Name(op) \in WordOperand THEN 4
                    ELSE IF Name(op) \in ByteOperand THEN 1 ELSE 0

Operand(n) == IF n = 4 THEN WordAt(file.bytes, CodeAt(loop.bytePc + 1))
                       ELSE file.bytes[CodeAt(loop.bytePc + 1)]

(* A table with one more entry, or another value in one it has.             *)
Stored(table, x, value) ==
    [y \in DOMAIN table \cup {x} |-> IF y = x THEN value ELSE table[y]]

(* codeBase has codeLength ints.                                            *)
CanWrite(pc) == pc < codeLength

InsideCode(pc) == pc <= header.codeLength

(* One iteration of the first loop.  The instruction is put into the table, *)
(* its opcode read and written to codeBase, before the position is compared *)
(* with the length of the code.                                             *)
Expand ==
    LET pc  == loop.bytePc
        op  == file.bytes[CodeAt(pc)]
        n   == OperandBytes(op)
        one == Stored(codeBase, loop.intPc, op)
    IN
    /\ InLoop("expand") /\ loop.instruction < instructionCount
    /\ CanRead(pc, 1) /\ CanWrite(loop.intPc)
    /\ instructionPointers' = Stored(instructionPointers, loop.instruction, loop.intPc)
    /\ \/ /\ ~ InsideCode(pc)
          /\ codeBase' = one
          /\ FailStoring(VM_PC_OUT_OF_RANGE)
          /\ UNCHANGED loop
       \/ /\ InsideCode(pc) /\ op >= OP_MAX
          /\ codeBase' = one
          /\ FailStoring(VM_BAD_INSTRUCTION)
          /\ UNCHANGED loop
       \/ /\ InsideCode(pc) /\ op < OP_MAX
          /\ n > 0 => CanRead(pc + 1, n) /\ CanWrite(loop.intPc + 1)
          /\ codeBase' = IF n = 0 THEN one ELSE Stored(one, loop.intPc + 1, Operand(n))
          /\ loop' = [loop EXCEPT !.instruction = @ + 1,
                                  !.bytePc = @ + 1 + n,
                                  !.intPc  = @ + IF n = 0 THEN 1 ELSE 2]
          /\ UNCHANGED << file, creating, errors, blocks, programStack, mode >>
    /\ UNCHANGED << codeLength, instructionCount, data >>

(* The same where it reads beyond the file or writes beyond codeBase.       *)
ExpandWild ==
    LET pc == loop.bytePc
        n  == OperandBytes(file.bytes[CodeAt(pc)])
    IN
    /\ InLoop("expand") /\ loop.instruction < instructionCount
    /\ \/ ~ (CanRead(pc, 1) /\ CanWrite(loop.intPc))
       \/ /\ CanRead(pc, 1) /\ CanWrite(loop.intPc) /\ InsideCode(pc)
          /\ n > 0
          /\ ~ (CanRead(pc + 1, n) /\ CanWrite(loop.intPc + 1))
    /\ GoWild

Expanded ==
    /\ InLoop("expand") /\ loop.instruction = instructionCount
    /\ loop' = Start("resolve")
    /\ UNCHANGED << file, creating, errors, blocks, code, data, programStack, mode >>

(* The check accepts the number one past the last instruction.              *)
TargetRefused(target) == target < 0 \/ target > instructionCount

(* Mutant of PlaceOf: the target stays the number of an instruction.        *)
NumberOf(target) == target

(* The target of a branch is the number of an instruction in the file, and  *)
(* becomes its place in codeBase.                                           *)
PlaceOf(target) == instructionPointers[target]

(* One iteration of the second loop.                                        *)
Resolve ==
    LET op     == codeBase[loop.intPc]
        target == codeBase[loop.intPc + 1]
        next   == [loop EXCEPT
                      !.instruction = @ + 1,
                      !.intPc = @ + IF OperandBytes(op) > 0 THEN 2 ELSE 1]
    IN
    /\ InLoop("resolve") /\ loop.instruction < instructionCount
    /\ \/ /\ Name(op) \notin Branches
          /\ loop' = next
          /\ UNCHANGED << file, creating, errors, blocks, codeBase,
                          programStack, mode >>
       \/ /\ Name(op) \in Branches /\ TargetRefused(target)
          /\ FailStoring(VM_JUMP_TO_INVALID_INSTRUCTION)
          /\ UNCHANGED << codeBase, loop >>
       \/ /\ Name(op) \in Branches /\ ~ TargetRefused(target)
          /\ target \in DOMAIN instructionPointers
          /\ codeBase' = [codeBase EXCEPT ![loop.intPc + 1] = PlaceOf(target)]
          /\ loop' = next
          /\ UNCHANGED << file, creating, errors, blocks, programStack, mode >>
    /\ UNCHANGED << codeLength, instructionCount, instructionPointers, data >>

(* The same where it looks up the number one past the last.                 *)
ResolveWild ==
    /\ InLoop("resolve") /\ loop.instruction < instructionCount
    /\ Name(codeBase[loop.intPc]) \in Branches
    /\ LET target == codeBase[loop.intPc + 1]
       IN  ~ TargetRefused(target) /\ target \notin DOMAIN instructionPointers
    /\ GoWild

Created ==
    /\ InLoop("resolve") /\ loop.instruction = instructionCount
    /\ creating' = "no"
    /\ programStack' = dataMask + 1
    /\ UNCHANGED << file, errors, blocks, code, data, loop, mode >>

-----------------------------------------------------------------------------

(* Mutant of FreeAll: the code is not released.                             *)
FreeAllButCode ==
    /\ live' = live \ (owned \ {"VM_ALLOC_CODE_SEC"})
    /\ owned' = {}
    /\ codeLength' = 0 /\ instructionCount' = 0
    /\ instructionPointers' = << >> /\ codeBase' = << >>
    /\ dataMask' = 0 /\ dataAlloc' = 0 /\ programStack' = 0
    /\ lastError' = VM_NO_ERROR

(* VM_Free releases the blocks and zeroes the vm_t.                         *)
FreeAll ==
    /\ live' = live \ owned
    /\ owned' = {}
    /\ codeLength' = 0 /\ instructionCount' = 0
    /\ instructionPointers' = << >> /\ codeBase' = << >>
    /\ dataMask' = 0 /\ dataAlloc' = 0 /\ programStack' = 0
    /\ lastError' = VM_NO_ERROR

CreateFails ==
    /\ Going("failed")
    /\ creating' = "no"
    /\ FreeAll
    /\ UNCHANGED << file, reported, loop, mode >>

VM_Free ==
    /\ Going("no")
    /\ FreeAll
    /\ UNCHANGED << file, creating, reported, loop, mode >>

Init ==
    /\ file \in Files
    /\ creating = "no"
    /\ lastError = VM_NO_ERROR /\ reported = VM_NO_ERROR
    /\ live = {} /\ owned = {}
    /\ codeLength = 0 /\ instructionCount = 0
    /\ instructionPointers = << >> /\ codeBase = << >>
    /\ dataMask = 0 /\ dataAlloc = 0 /\ programStack = 0
    /\ loop = Start("expand")
    /\ mode = "ok"

Next ==
    \/ CreateBegin \/ BadHeader \/ BadHeaderWild \/ LoadData \/ AllocatePointers \/ AllocateCode
    \/ Expand \/ ExpandWild \/ Expanded \/ Resolve \/ ResolveWild \/ Created
    \/ CreateFails \/ VM_Free

Spec == Init /\ [][Next]_vars

-----------------------------------------------------------------------------

Assembled == file.source # << >>

(* Every field and every local keeps its type.                              *)
LoaderTypeOK ==
    /\ file \in Files
    /\ creating \in {"no", "load", "pointers", "prepare", "translate", "failed"}
    /\ lastError \in vmErrorCode_t /\ reported \in vmErrorCode_t
    /\ live \subseteq AllocTypes /\ owned \subseteq AllocTypes
    /\ codeLength \in Nat /\ instructionCount \in Int
    /\ DOMAIN instructionPointers \subseteq 0 .. instructionCount - 1
    /\ DOMAIN codeBase \subseteq 0 .. codeLength - 1
    /\ \A n \in DOMAIN codeBase : codeBase[n] \in Word
    /\ dataMask \in Nat /\ dataAlloc \in Nat /\ programStack \in Nat
    /\ loop \in [pass : {"expand", "resolve"}, bytePc : Nat, intPc : Nat,
                 instruction : Nat]
    /\ mode \in {"ok", "wild"}

(* What the two loops of VM_PrepareInterpreter leave in the vm_t for a file *)
(* of q3asm is the program QvmProgram defines without loops: every opcode,  *)
(* operand and jump in its place.                                           *)
LoadedFaithfully ==
    Loaded /\ Assembled =>
        LET program == Load("", file.source)
        IN  /\ codeBase = program.codeBase
            /\ codeLength = program.codeLength
            /\ instructionCount = program.instructionCount
            /\ instructionPointers = program.instructionPointers

(* A file of q3asm is refused for want of memory only, and nothing is read  *)
(* or written outside while it is loaded.                                   *)
AssembledAccepted ==
    Assembled =>
        /\ mode = "ok"
        /\ creating = "failed" =>
              /\ lastError \notin {VM_PC_OUT_OF_RANGE, VM_BAD_INSTRUCTION,
                                   VM_JUMP_TO_INVALID_INSTRUCTION}
              /\ dataAlloc > 0

(* In a program that VM_Create accepted, of whatever file, every branch     *)
(* goes to the opcode of an instruction and never into an operand.          *)
BranchesLand ==
    Loaded =>
        LET starts == {instructionPointers[k] : k \in 0 .. instructionCount - 1}
        IN  \A x \in starts :
               Name(codeBase[x]) \in Branches => codeBase[x + 1] \in starts

(* Whatever number of instructions the header claims, the walk over the     *)
(* code goes no further than one instruction beyond its end, and there are  *)
(* never more ints in codeBase than bytes read.                             *)
WalkBounded ==
    loop.pass = "expand" =>
        /\ loop.intPc <= loop.bytePc
        /\ creating = "translate" => loop.bytePc <= codeLength + 5

(* Of the targets no instruction has, the table of instructions is looked   *)
(* up for one at most, the number of instructions: a negative or a larger   *)
(* one is refused.                                                          *)
LookupBounded ==
    mode = "wild" /\ loop.pass = "resolve" /\ creating = "translate" =>
        codeBase[loop.intPc + 1] = instructionCount

(* The masked addresses hold every segment, so that the variables of the    *)
(* program, in front of the stack the assembler reserved, are clear of the  *)
(* stack the machine uses, at the top; below that stack there is at least   *)
(* as much memory again, on which the late check of the stack relies.       *)
StackClear ==
    Loaded =>
        /\ \E k \in 0 .. WordBits : dataMask + 1 = ShiftedOne[k]
        /\ DataLength(header) <= programStack
        /\ Assembled => programStack - StackSize >= StackSize

(* A file is loaded word for word, and the files of q3asm are accepted.     *)
FilesFollowed == LoadedFaithfully /\ AssembledAccepted

(* The loops stay in the code and in their tables, and every branch of a    *)
(* loaded file leads to an instruction.                                     *)
TargetsChecked == WalkBounded /\ LookupBounded /\ BranchesLand

(* The image has its size and leaves the stack clear of the variables.      *)
ImageSized == LoaderTypeOK /\ StackClear

-----------------------------------------------------------------------------
(* The loader implements the life cycle of a vm_t (VmLifecycle) in a build  *)
(* without DEBUG_VM, where every check of the file is a choice.  No VM_Call *)
(* is made here, so that the parameters of the calls play no part.          *)

Count(types) ==
    [t \in AllocTypes \cup {"VM_ALLOC_DEBUG"} |-> IF t \in types THEN 1 ELSE 0]

Lifecycle == INSTANCE VmLifecycle WITH
    DebugVm    <- FALSE,
    StackTop   <- 2 * StackSize,
    EntryFrame <- 8,
    FrameSizes <- {8},
    MaxFrame   <- 12,
    MaxLevel   <- 0,
    StackFloor <- 0,
    MaxSymbols <- 0,
    programStack <- IF programStack > 0 THEN 2 * StackSize ELSE 0,
    currentlyInterpreting <- FALSE,
    callLevel   <- 0,
    acts        <- << >>,
    faulted     <- FALSE,
    owned       <- Count(owned),
    live        <- Count(live),
    mapFile     <- FALSE,
    codeLength  <- codeLength > 0

(* Loading is a behaviour of VmLifecycle: the allocations, the releases and *)
(* the errors of every path through the checks and the loops are the ones   *)
(* by which that module accounts for the memory of a vm_t.                  *)
ImplementsLifecycle == Lifecycle!LifecycleSpec
===============================================================================
