----------------------------- MODULE Interpreter -----------------------------
(***************************************************************************)
(* VM_Call and VM_CallInterpreted (src/src/vm/vm.c) executing a loaded     *)
(* program, instruction by instruction, under the host of q3vm_test.c,     *)
(* whose RECURSIVE system call enters the virtual machine again.           *)
(*                                                                         *)
(* One action executes one instruction, from its fetch to the next         *)
(* DISPATCH; a system call is three steps: OP_CALL, the host's handler and *)
(* the return into OP_CALL.  An access outside of the memory that vm.c     *)
(* allocated has no defined outcome: mode becomes "wild" and nothing more  *)
(* is said; a trapping division makes it "trapped".  breakCount and        *)
(* profileCount, which the program cannot read, are left out, and so is    *)
(* the debug output of vm_debugLevel.                                      *)
(***************************************************************************)
EXTENDS Alu, QvmProgram, SequencesExt, VmErrors

CONSTANTS
    DebugVm,         \* TRUE: DEBUG_VM build, a switch; FALSE: computed gotos
    StackSize,       \* VM_PROGRAM_STACK_SIZE
    MaxVmMainArgs,   \* MAX_VMMAIN_ARGS
    MaxSyscallArgs,  \* MAX_VMSYSCALL_ARGS
    OpStackSize,     \* ints in the operand stack, the range of opStackOfs
    Canary,          \* 0x0000BEEF
    OpStacks,        \* contents tried for the uninitialised operand stack
    Programs,        \* programs as VM_Create leaves them, each with a name
    HostArgs,        \* argument vectors with which the host calls VM_Call
    MaxLevel,        \* bound: nesting of VM_Call
    MaxCalls,        \* bound: calls of VM_Call from outside a system call
    Meaning(_, _)    \* the values the source of a program can return, by arguments

ASSUME InterpreterAssumption ==
    /\ DebugVm \in BOOLEAN
    /\ StackSize \in Nat
    /\ MaxVmMainArgs \in Nat \ {0} /\ MaxSyscallArgs \in Nat \ (0 .. 3)
    /\ OpStackSize \in Nat /\ OpStackSize > 1 /\ Canary \in Word
    /\ OpStacks \subseteq [1 .. OpStackSize - 1 -> Word]
    /\ HostArgs \subseteq [0 .. MaxVmMainArgs - 1 -> Word]
    /\ MaxLevel \in Nat /\ MaxCalls \in Nat

(* What VM_PrepareInterpreter leaves of any file, whoever made it.          *)
ASSUME ProgramsAssumption ==
    \A p \in Programs :
        /\ p.codeBase \in [DOMAIN p.codeBase -> Word]
        /\ DOMAIN p.codeBase \subseteq Nat
        /\ p.codeLength \in Nat /\ p.instructionCount \in Nat
        /\ p.instructionPointers \in [0 .. p.instructionCount - 1 -> Nat]

VARIABLES
    program,                \* vm->codeBase and its companions
    mem,                    \* vm->dataBase
    programStack,           \* vm->programStack
    currentlyInterpreting,  \* vm->currentlyInterpreting
    callLevel,              \* vm->callLevel
    lastError,              \* vm->lastError
    acts,                   \* activations of VM_CallInterpreted, innermost last
    mode,                   \* "ok", "wild" or "trapped"
    calls,                  \* history: calls from outside a system call so far
    reported,               \* history: the level of the last Com_Error
    faulted,                \* history: some VM_Call returned through an error
    returned                \* history: how the last VM_Call returned

vm      == << programStack, currentlyInterpreting, callLevel, lastError >>
history == << calls, reported, faulted, returned >>
vars    == << program, mem, vm, acts, mode, history >>

StackTop    == DataMask + 1
StackBottom == StackTop - StackSize
EntryFrame  == 8 + 4 * MaxVmMainArgs

codeBase            == program.codeBase
codeLength          == program.codeLength
instructionCount    == program.instructionCount
instructionPointers == program.instructionPointers

OpStackIndex == 0 .. OpStackSize - 1
Slot(n)      == n % OpStackSize  \* opStackOfs is an unsigned char

-----------------------------------------------------------------------------
(* The innermost activation.                                                *)

Act == Last(acts)
R0  == Act.r0
R1  == Act.r1
R2  == codeBase[Act.programCounter + 1]

(* DISPATCH loads r0 and r1 from the operand stack; DISPATCH2 does not.     *)
Reload(act) ==
    [act EXCEPT !.r0 = act.opStack[act.opStackOfs],
                !.r1 = act.opStack[Slot(act.opStackOfs - 1)]]

(* The operand stack moved by n, and with v stored at its new top.          *)
Moving(act, n) == [act EXCEPT !.opStackOfs = Slot(@ + n)]
Setting(act, n, v) ==
    [Moving(act, n) EXCEPT !.opStack = [@ EXCEPT ![Slot(act.opStackOfs + n)] = v]]

(* The program counter moved over this instruction and its operand, or to a *)
(* place of its own.                                                        *)
Goto(act, pc)   == [act EXCEPT !.programCounter = pc]
Over(act, ints) == [act EXCEPT !.programCounter = @ + ints]

Continue(act) == acts' = [acts EXCEPT ![Len(acts)] = act]

Report(level) == lastError' = level /\ reported' = level

GoWild ==
    /\ mode' = "wild"
    /\ UNCHANGED << program, mem, vm, acts, history >>

(* Mutant of HandBack: the level is not counted down.                       *)
HandBackUncounted(how, value) ==
    /\ UNCHANGED callLevel
    /\ returned' = [how |-> how, args |-> Act.entry, value |-> value]
    /\ acts' = LET callers == Front(acts)
               IN  IF callers = << >> THEN callers
                   ELSE [callers EXCEPT
                            ![Len(callers)] = [@ EXCEPT !.at = "handled",
                                                        !.result = value]]

(* VM_Call hands a result to its caller: the host, or the handler of the    *)
(* system call it is nested in.                                             *)
HandBack(how, value) ==
    /\ callLevel' = callLevel - 1
    /\ returned' = [how |-> how, args |-> Act.entry, value |-> value]
    /\ acts' = LET callers == Front(acts)
               IN  IF callers = << >> THEN callers
                   ELSE [callers EXCEPT
                            ![Len(callers)] = [@ EXCEPT !.at = "handled",
                                                        !.result = value]]

(* return -1, without what the label done does.                             *)
ErrorReturn(level) ==
    /\ Report(level)
    /\ HandBack("error", -1)
    /\ faulted' = TRUE
    /\ UNCHANGED << program, programStack, currentlyInterpreting, mode, calls >>

-----------------------------------------------------------------------------
(* Instruction fetch.                                                       *)

Running == mode = "ok" /\ acts # << >> /\ Act.at = "code"

(* codeBase has room for codeLength ints; only a part of it is ever written.*)
Readable == Act.programCounter \in 0 .. codeLength - 1
Written  == Act.programCounter \in DOMAIN codeBase

(* Mutant of FetchErrors: the stack is not looked at.                       *)
FetchErrorsNoStack ==
    IF ~ DebugVm THEN {}
    ELSE IF Act.programCounter + 1 >= codeLength THEN {VM_PC_OUT_OF_RANGE}
    ELSE {}

(* The checks a DEBUG_VM build makes, in their order.                       *)
FetchErrors ==
    IF ~ DebugVm THEN {}
    ELSE IF Act.programCounter + 1 >= codeLength THEN {VM_PC_OUT_OF_RANGE}
    ELSE IF Act.programStack <= StackBottom THEN {VM_STACK_OVERFLOW}
    ELSE IF Act.programStack % 4 # 0 THEN {VM_STACK_MISALIGNED}
    ELSE {}

(* The dispatch table masks the opcode, the switch does not.                *)
Opcode == Name(IF DebugVm THEN codeBase[Act.programCounter]
                          ELSE codeBase[Act.programCounter] % 64)

HasOperand(op) == op \in WordOperand \cup ByteOperand

Executes(op) ==
    /\ Running /\ Readable /\ FetchErrors = {} /\ Written
    /\ Opcode = op
    /\ HasOperand(op) => Act.programCounter + 1 \in DOMAIN codeBase

FetchError ==
    /\ Running /\ Readable
    /\ \E level \in FetchErrors : ErrorReturn(level)
    /\ UNCHANGED mem

OutsideCode ==
    /\ Running
    /\ \/ ~ Readable
       \/ /\ FetchErrors = {}
          /\ \/ ~ Written
             \/ /\ Written /\ HasOperand(Opcode)
                /\ Act.programCounter + 1 \notin DOMAIN codeBase
    /\ GoWild

-----------------------------------------------------------------------------
(* Instructions that touch the operand stack and the program counter only.  *)

Quiet == UNCHANGED << program, mem, vm, mode, history >>

Undef == Executes("OP_UNDEF") /\ ErrorReturn(VM_BAD_INSTRUCTION) /\ UNCHANGED mem

Nop ==
    /\ Executes("OP_IGNORE") \/ Executes("OP_BREAK")
    /\ Continue(Over(Act, 1))
    /\ Quiet

(* Mutant of PushValue: r1 keeps its value.                                 *)
PushValueStaleR1(v) ==
    Continue([Over(Setting(Act, 1, v), 2) EXCEPT !.r0 = v])

(* CONST and LOCAL shift the registers themselves and use DISPATCH2.        *)
PushValue(v) ==
    Continue([Over(Setting(Act, 1, v), 2) EXCEPT !.r0 = v, !.r1 = R0])

Const == Executes("OP_CONST") /\ PushValue(R2) /\ Quiet
Local == Executes("OP_LOCAL") /\ PushValue(ToWord(R2 + Act.programStack)) /\ Quiet

Push == Executes("OP_PUSH") /\ Continue(Reload(Over(Moving(Act, 1), 1))) /\ Quiet
Pop  == Executes("OP_POP") /\ Continue(Reload(Over(Moving(Act, -1), 1))) /\ Quiet

UnaryOp ==
    /\ \E op \in Unary : /\ Executes(op)
                         /\ \E v \in Conversion(op, R0) :
                               Continue(Reload(Over(Setting(Act, 0, v), 1)))
    /\ Quiet

BinaryOp ==
    /\ \E op \in Binary : /\ Executes(op)
                          /\ \E v \in Arithmetic(op, R1, R0) :
                                Continue(Reload(Over(Setting(Act, -1, v), 1)))
    /\ Quiet

(* A division by zero, or of the least integer by -1, stops the process.    *)
Trap ==
    /\ \E op \in Binary : Executes(op) /\ Arithmetic(op, R1, R0) = {}
    /\ mode' = "trapped"
    /\ UNCHANGED << program, mem, vm, acts, history >>

Branch ==
    /\ \E op \in Branches :
          /\ Executes(op)
          /\ \E taken \in Outcomes(op, R1, R0) :
                LET act == Moving(Act, -2)
                IN  Continue(Reload(IF taken THEN Goto(act, R2) ELSE Over(act, 2)))
    /\ Quiet

IsInstruction(n) == n \in 0 .. instructionCount - 1

Jump ==
    /\ Executes("OP_JUMP")
    /\ \/ /\ IsInstruction(R0)
          /\ Continue(Reload(Moving(Goto(Act, instructionPointers[R0]), -1)))
          /\ Quiet
       \/ ~ IsInstruction(R0) /\ ErrorReturn(VM_PC_OUT_OF_RANGE) /\ UNCHANGED mem

-----------------------------------------------------------------------------
(* Instructions that read or write the data image.                          *)

Width(op) == CASE op \in {"OP_LOAD1", "OP_STORE1"} -> 1
               [] op \in {"OP_LOAD2", "OP_STORE2"} -> 2
               [] OTHER                            -> 4

Fetched(op) ==
    LET a == Masked(R0)
    IN  CASE op = "OP_LOAD1" -> ByteAt(mem, a)
          [] op = "OP_LOAD2" -> ShortAt(mem, a)
          [] OTHER           -> WordAt(mem, a)

Misaligned(op) == DebugVm /\ op = "OP_LOAD4" /\ R0 % 4 # 0

(* The loads set r0 themselves and use DISPATCH2.                           *)
LoadOp ==
    \E op \in Loads :
        /\ Executes(op)
        /\ \/ /\ ~ Misaligned(op)
              /\ LET v == Fetched(op)
                 IN  Continue([Over(Setting(Act, 0, v), 1) EXCEPT !.r0 = v])
              /\ Quiet
           \/ Misaligned(op) /\ ErrorReturn(VM_OP_LOAD4_MISALIGNED) /\ UNCHANGED mem

StoreOp ==
    /\ \E op \in Stores : /\ Executes(op)
                          /\ mem' = Put(mem, Masked(R1), Width(op), R0)
    /\ Continue(Reload(Over(Moving(Act, -2), 1)))
    /\ UNCHANGED << program, vm, mode, history >>

Arg ==
    /\ Executes("OP_ARG")
    /\ mem' = PutWord(mem, Masked(R2 + Act.programStack), R0)
    /\ Continue(Reload(Over(Moving(Act, -1), 2)))
    /\ UNCHANGED << program, vm, mode, history >>

(* The test of VM_BlockCopy and VM_MemoryRangeValid: the address and the    *)
(* end of the range are unchanged by the mask.  A negative length is a huge *)
(* size_t that the test wraps around and the copy does not.                 *)
RangeMasked(a, n) == Unsigned(a) <= DataMask /\ Unsigned(a) + n \in 0 .. DataMask

CopyInRange == RangeMasked(R1, R2) /\ RangeMasked(R0, R2)

BlockCopy ==
    /\ Executes("OP_BLOCK_COPY")
    /\ R2 >= 0 \/ ~ CopyInRange
    /\ \/ /\ CopyInRange
          /\ mem' \in Memcpy(mem, R1, R0, R2)
          /\ UNCHANGED << lastError, reported >>
       \/ ~ CopyInRange /\ Report(VM_BLOCKCOPY_OUT_OF_RANGE) /\ UNCHANGED mem
    /\ Continue(Reload(Over(Moving(Act, -2), 2)))
    /\ UNCHANGED << program, programStack, currentlyInterpreting, callLevel,
                    mode, calls, faulted, returned >>

(* The accesses through programStack, which no mask is applied to.          *)
BelowOrBeyond ==
    /\ \/ Executes("OP_BLOCK_COPY") /\ R2 < 0 /\ CopyInRange
       \/ /\ Executes("OP_CALL")
          /\ ~ InImage(Act.programStack,
                       IF R0 < 0 THEN 4 + 4 * MaxSyscallArgs ELSE 4)
       \/ /\ Executes("OP_ENTER") /\ DebugVm
          /\ ~ InImage(ToWord(Act.programStack - R2) + 4, 4)
       \/ /\ Executes("OP_LEAVE")
          /\ ~ InImage(ToWord(Act.programStack + R2), 4)
    /\ GoWild

Enter ==
    LET ps == ToWord(Act.programStack - R2) IN
    /\ Executes("OP_ENTER")
    /\ DebugVm => InImage(ps + 4, 4)
    /\ mem' = IF DebugVm THEN PutWord(mem, ps + 4, Act.programStack) ELSE mem
    /\ Continue(Reload(Over([Act EXCEPT !.programStack = ps], 2)))
    /\ UNCHANGED << program, vm, mode, history >>

(* The call whose return address is at ps has returned (history).           *)
Unwound(frames, ps) == {frame \in frames : frame.at # ps}

(* OP_LEAVE of a function the program called.                               *)
Leave ==
    LET ps == ToWord(Act.programStack + R2)
        pc == WordAt(mem, ps)
    IN
    /\ Executes("OP_LEAVE")
    /\ InImage(ps, 4)
    /\ pc # -1
    /\ \/ /\ pc \in 0 .. codeLength - 1
          /\ Continue(Reload(Goto([Act EXCEPT !.programStack = ps,
                                              !.frames = Unwound(@, ps)], pc)))
          /\ Quiet
       \/ /\ pc \notin 0 .. codeLength - 1
          /\ ErrorReturn(VM_PC_OUT_OF_RANGE) /\ UNCHANGED mem

(* Mutant of Done: vm->programStack stays where a system call left it.      *)
DoneKeepingStack ==
    LET ps == ToWord(Act.programStack + R2) IN
    /\ Executes("OP_LEAVE")
    /\ InImage(ps, 4)
    /\ WordAt(mem, ps) = -1
    /\ currentlyInterpreting' = FALSE
    /\ IF Act.opStackOfs # 1 \/ Act.opStack[0] # Canary
       THEN Report(VM_STACK_ERROR) ELSE UNCHANGED << lastError, reported >>
    /\ HandBack("done", Act.opStack[Act.opStackOfs])
    /\ UNCHANGED << program, mem, programStack, mode, calls, faulted >>

(* OP_LEAVE that finds -1 for a return address: the label done.             *)
Done ==
    LET ps == ToWord(Act.programStack + R2) IN
    /\ Executes("OP_LEAVE")
    /\ InImage(ps, 4)
    /\ WordAt(mem, ps) = -1
    /\ currentlyInterpreting' = FALSE
    /\ IF Act.opStackOfs # 1 \/ Act.opStack[0] # Canary
       THEN Report(VM_STACK_ERROR) ELSE UNCHANGED << lastError, reported >>
    /\ programStack' = Act.stackOnEntry
    /\ HandBack("done", Act.opStack[Act.opStackOfs])
    /\ UNCHANGED << program, mem, mode, calls, faulted >>

-----------------------------------------------------------------------------
(* Calls.                                                                   *)

(* Mutant of ReturnAddress: an instruction is skipped on return.            *)
ReturnAddressPast == Act.programCounter + 2

ReturnAddress == Act.programCounter + 1

(* The return addresses of the calls that have not returned yet: where they *)
(* are stored and what they are (history).                                  *)
Framed(act) ==
    [act EXCEPT !.frames = @ \cup {[at |-> act.programStack,
                                    pc |-> ReturnAddress]}]

CallFunction ==
    /\ Executes("OP_CALL") /\ R0 >= 0
    /\ InImage(Act.programStack, 4)
    /\ mem' = PutWord(mem, Act.programStack, ReturnAddress)
    /\ \/ /\ IsInstruction(R0)
          /\ Continue(Reload(Moving(Goto(Framed(Act), instructionPointers[R0]), -1)))
          /\ UNCHANGED << program, vm, mode, history >>
       \/ ~ IsInstruction(R0) /\ ErrorReturn(VM_PC_OUT_OF_RANGE)

(* Mutant of SystemCall: vm->programStack is not moved below the frame.     *)
SystemCallUnsaved ==
    LET ps     == Act.programStack
        called == PutWord(mem, ps, ReturnAddress)
    IN
    /\ Executes("OP_CALL") /\ R0 < 0
    /\ InImage(ps, 4 + 4 * MaxSyscallArgs)
    /\ mem' = PutWord(called, ps + 4, -1 - R0)
    /\ Continue([Moving(Framed(Act), -1) EXCEPT
                    !.at      = "handler",
                    !.stomped = WordAt(called, ps + 4),
                    !.args    = [i \in 0 .. MaxSyscallArgs - 1 |->
                                    WordAt(mem', ps + 4 + 4 * i)]])
    /\ UNCHANGED << program, vm, mode, history >>

(* A negative address is a system call: its number takes the place of the   *)
(* argument count above the return address, the words from there on are the *)
(* arguments.                                                               *)
SystemCall ==
    LET ps     == Act.programStack
        called == PutWord(mem, ps, ReturnAddress)
    IN
    /\ Executes("OP_CALL") /\ R0 < 0
    /\ InImage(ps, 4 + 4 * MaxSyscallArgs)
    /\ programStack' = ps - 4
    /\ mem' = PutWord(called, ps + 4, -1 - R0)
    /\ Continue([Moving(Framed(Act), -1) EXCEPT
                    !.at      = "handler",
                    !.stomped = WordAt(called, ps + 4),
                    !.args    = [i \in 0 .. MaxSyscallArgs - 1 |->
                                    WordAt(mem', ps + 4 + 4 * i)]])
    /\ UNCHANGED << program, currentlyInterpreting, callLevel, lastError, mode,
                    history >>

(* The handler has returned; the word the number stomped on is put back     *)
(* by a DEBUG_VM build only.                                                *)
SystemReturn ==
    LET ps       == Act.programStack
        restored == IF DebugVm THEN PutWord(mem, ps + 4, Act.stomped) ELSE mem
    IN
    /\ mode = "ok" /\ acts # << >> /\ Act.at = "handled"
    /\ mem' = restored
    /\ Continue(Reload(Goto([Setting(Act, 1, Act.result) EXCEPT
                                !.at = "code", !.frames = Unwound(@, ps)],
                            WordAt(restored, ps))))
    /\ UNCHANGED << program, vm, mode, history >>

(* VM_Call with these arguments, up to the first DISPATCH.                  *)
BeginCall(args) ==
    LET ps == programStack - EntryFrame IN
    /\ InImage(ps, EntryFrame)
    /\ callLevel' = callLevel + 1
    /\ currentlyInterpreting' = TRUE
    /\ mem' = PutWords(mem, ps, 2 + MaxVmMainArgs,
                       [i \in 0 .. 1 + MaxVmMainArgs |->
                           CASE i = 0 -> -1
                             [] i = 1 -> 0
                             [] OTHER -> args[i - 2]])
    /\ \E rest \in OpStacks :
          LET opStack == [i \in OpStackIndex |-> IF i = 0 THEN Canary ELSE rest[i]]
          IN  acts' = Append(
                 IF acts = << >> THEN acts
                 ELSE [acts EXCEPT ![Len(acts)] = [@ EXCEPT !.at = "nested"]],
                 [stackOnEntry |-> programStack, programStack |-> ps,
                  programCounter |-> 0, opStack |-> opStack, opStackOfs |-> 0,
                  r0 |-> opStack[0], r1 |-> opStack[OpStackSize - 1],
                  at |-> "code", args |-> << >>, result |-> 0, stomped |-> 0,
                  entry |-> args, frames |-> {[at |-> ps, pc |-> -1]}])
    /\ UNCHANGED << program, programStack, lastError, mode, reported, faulted,
                    returned >>

(* The frame VM_Call pushes is not in the image.                            *)
NoRoom == ~ InImage(programStack - EntryFrame, EntryFrame)

HostCall ==
    /\ mode = "ok" /\ acts = << >> /\ calls < MaxCalls
    /\ \E args \in HostArgs : BeginCall(args)
    /\ calls' = calls + 1
    /\ UNCHANGED program

-----------------------------------------------------------------------------
(* The host's system calls.                                                 *)

Number   == Act.args[0]  \* 0 for the function -1, and so on
Handling == mode = "ok" /\ acts # << >> /\ Act.at = "handler"

HandlerReturns(value) ==
    Continue([Act EXCEPT !.at = "handled", !.result = value])

HostQuiet == UNCHANGED << program, vm, mode, calls, faulted, returned >>

(* PRINTF, ERROR and FLOATFF return something; an unknown number returns 0. *)
HostPrint ==
    /\ Handling /\ Number \in {0, 1, 5}
    /\ \E value \in Unspecified : HandlerReturns(value)
    /\ HostQuiet /\ UNCHANGED << mem, reported >>

HostUnknown ==
    /\ Handling /\ Number \notin {0, 1, 2, 3, 5, 6}
    /\ HandlerReturns(0)
    /\ HostQuiet /\ UNCHANGED << mem, reported >>

RangeValid(a, n) == a # 0 /\ RangeMasked(a, n)

(* MEMSET and MEMCPY check their ranges; only a range off the NULL address  *)
(* is reported.  They return the first address in any case.                 *)
HostMemset ==
    LET a == Act.args[1]  n == Act.args[3] IN
    /\ Handling /\ Number = 2
    /\ RangeValid(a, n) => n >= 0
    /\ mem' = IF RangeValid(a, n) THEN Fill(mem, a, n, Act.args[2]) ELSE mem
    /\ reported' = IF a = 0 \/ RangeValid(a, n) THEN reported
                                               ELSE VM_DATA_OUT_OF_RANGE
    /\ HandlerReturns(a)
    /\ HostQuiet

HostMemcpy ==
    LET a == Act.args[1]  b == Act.args[2]  n == Act.args[3]
        both == RangeValid(a, n) /\ RangeValid(b, n)
    IN
    /\ Handling /\ Number = 3
    /\ both => n >= 0
    /\ IF both THEN mem' \in Memcpy(mem, a, b, n) ELSE mem' = mem
    /\ reported' = IF both \/ a = 0 \/ (RangeValid(a, n) /\ b = 0)
                   THEN reported ELSE VM_DATA_OUT_OF_RANGE
    /\ HandlerReturns(a)
    /\ HostQuiet

(* RECURSIVE: VM_Call(vm, 1, args[1]), whose other arguments VM_Call takes   *)
(* from wherever va_arg finds them.                                         *)
HostRecursive ==
    /\ Handling /\ Number = 6
    /\ callLevel < MaxLevel
    /\ \E rest \in HostArgs :
          BeginCall([i \in 0 .. MaxVmMainArgs - 1 |->
                        CASE i = 0 -> 1 [] i = 1 -> Act.args[1] [] OTHER -> rest[i]])
    /\ UNCHANGED << program, calls >>

(* Copies of a negative length, and VM_Call without room for its frame.     *)
HostWild ==
    /\ \/ /\ Handling /\ Number \in {2, 3} /\ Act.args[3] < 0
          /\ RangeValid(Act.args[1], Act.args[3])
          /\ Number = 3 => RangeValid(Act.args[2], Act.args[3])
       \/ Handling /\ Number = 6 /\ callLevel < MaxLevel /\ NoRoom
       \/ mode = "ok" /\ acts = << >> /\ calls < MaxCalls /\ NoRoom
    /\ GoWild

-----------------------------------------------------------------------------

Init ==
    /\ program \in Programs
    /\ mem = [x \in Addresses |-> 0]
    /\ programStack = StackTop
    /\ currentlyInterpreting = FALSE
    /\ callLevel = 0
    /\ lastError = VM_NO_ERROR
    /\ acts = << >>
    /\ mode = "ok"
    /\ calls = 0
    /\ reported = VM_NO_ERROR
    /\ faulted = FALSE
    /\ returned = [how |-> "never", args |-> << >>, value |-> 0]

Instructions ==
    \/ FetchError \/ OutsideCode \/ Undef \/ Nop
    \/ Const \/ Local \/ Push \/ Pop
    \/ UnaryOp \/ BinaryOp \/ Trap
    \/ Branch \/ Jump
    \/ LoadOp \/ StoreOp \/ Arg \/ BlockCopy
    \/ Enter \/ Leave \/ Done
    \/ CallFunction \/ SystemCall \/ BelowOrBeyond

Handlers ==
    \/ HostPrint \/ HostUnknown \/ HostMemset \/ HostMemcpy
    \/ HostRecursive \/ HostWild

(* The processor goes on executing, and the host's handlers return: once    *)
(* called, VM_Call needs nobody else.                                       *)
Machine == Instructions \/ Handlers \/ SystemReturn

Next == HostCall \/ Machine

Spec     == Init /\ [][Next]_vars
FairSpec == Spec /\ WF_vars(Machine)

-----------------------------------------------------------------------------

ActivationType ==
    [stackOnEntry : Word, programStack : Int, programCounter : Int,
     opStack : [OpStackIndex -> Word], opStackOfs : OpStackIndex,
     r0 : Word, r1 : Word,
     at : {"code", "handler", "nested", "handled"},
     args : [0 .. MaxSyscallArgs - 1 -> Word] \cup {<< >>},
     result : Word, stomped : Word,
     entry : [0 .. MaxVmMainArgs - 1 -> Word],
     frames : SUBSET [at : Int, pc : Int]]

(* Every variable, and every local of every activation, keeps its type.     *)
TypeOK ==
    /\ mem \in Image
    /\ programStack \in Int
    /\ currentlyInterpreting \in BOOLEAN
    /\ callLevel \in Nat
    /\ lastError \in vmErrorCode_t /\ reported \in vmErrorCode_t
    /\ acts \in Seq(ActivationType)
    /\ mode \in {"ok", "wild", "trapped"}
    /\ calls \in 0 .. MaxCalls
    /\ faulted \in BOOLEAN
    /\ returned.value \in Word

(* The registers hold what is on the operand stack whenever an instruction  *)
(* is fetched, whichever instructions came before it and whichever of them   *)
(* used DISPATCH2, which does not load them: no instruction computes with a *)
(* stale word.                                                              *)
RegistersCoherent ==
    \A i \in 1 .. Len(acts) :
        acts[i].at = "code" =>
            /\ acts[i].r0 = acts[i].opStack[acts[i].opStackOfs]
            /\ acts[i].r1 = acts[i].opStack[Slot(acts[i].opStackOfs - 1)]

(* VM_Free relies on callLevel being the number of activations, for any     *)
(* program and however it fails.                                            *)
LevelCounted == callLevel = Len(acts)

(* The return addresses of all open calls, of every activation, are still   *)
(* where they were stored: neither the frames and arguments of later calls, *)
(* nor a system call, nor a nested VM_Call write over them.                 *)
FramesIntact ==
    \A i \in 1 .. Len(acts) : \A frame \in acts[i].frames :
        InImage(frame.at, 4) /\ WordAt(mem, frame.at) = frame.pc

(* A compiled program never makes the interpreter use memory outside of     *)
(* what vm.c allocated, although only loads and stores are masked.          *)
NeverWild == mode # "wild"

(* A compiled program that runs is always at the start of an instruction,   *)
(* after every branch, jump, call and return.                               *)
AtInstruction ==
    \A i \in 1 .. Len(acts) :
        acts[i].at = "code" =>
            \E k \in DOMAIN instructionPointers :
                acts[i].programCounter = instructionPointers[k]

(* VM_Call returns what the source of the program says, whatever the        *)
(* uninitialised operand stack held, whatever the host's handlers returned, *)
(* nested in other calls or not, and after calls that failed.               *)
ResultsRight ==
    returned.how # "never" =>
        << returned.how, returned.value >> \in Meaning(program.name, returned.args)

(* In a DEBUG_VM build, even a program that recurses without end gives the  *)
(* host back control.                                                       *)
CallsReturn == callLevel > 0 ~> callLevel = 0
=============================================================================
