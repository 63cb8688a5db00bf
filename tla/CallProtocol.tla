---------------------------- MODULE CallProtocol ----------------------------
(***************************************************************************)
(* The protocol between the host, VM_Call and the bytecode of one loaded   *)
(* virtual machine (src/src/vm/vm.c): who runs, where the program stack    *)
(* stands, what a return through an error leaves behind.                   *)
(*                                                                         *)
(* acts is the C stack of VM_CallInterpreted activations, innermost last.  *)
(* Outside of a system call the innermost one executes bytecode; inside    *)
(* one, or when there is none, the host has control and may call VM_Call   *)
(* (again).  The instructions between two stack operations are abstracted. *)
(* The bytecode keeps the stack discipline the assembler gives it: it      *)
(* enters functions by OP_ENTER, leaves them by OP_LEAVE, and never moves  *)
(* its stack pointer above the arguments VM_CallInterpreted pushed.        *)
(* Interpreter.tla has the instructions, and is checked to implement this. *)
(***************************************************************************)
EXTENDS Integers, Sequences, SequencesExt, VmErrors

CONSTANTS
    StackTop,     \* vm->dataMask + 1: where VM_Create puts the program stack
    StackSize,    \* VM_PROGRAM_STACK_SIZE
    EntryFrame,   \* 8 + 4 * MAX_VMMAIN_ARGS, what a VM_Call pushes
    FrameSizes,   \* operands of the bytecode's OP_ENTER and OP_LEAVE
    MaxFrame,     \* the largest frame the assembler accepts
    DebugVm,      \* TRUE: built with DEBUG_VM, instruction fetch checks the stack
    MaxLevel,     \* bound: nesting of VM_Call
    StackFloor    \* bound: the model pushes no frame below this address

ASSUME StackAssumption ==
    /\ StackTop \in Nat /\ StackSize \in Nat /\ EntryFrame \in Nat
    /\ DebugVm \in BOOLEAN
    /\ MaxLevel \in Nat /\ StackFloor \in Int

ASSUME FrameAssumption ==
    /\ MaxFrame \in Nat
    /\ FrameSizes \subseteq 1 .. MaxFrame

(* The assembler reserves the stack at the end of a non-empty .bss and the  *)
(* loader rounds the image up to a power of two, so that at least another   *)
(* stack of memory lies below the stack.                                    *)
ASSUME RoomAssumption ==
    /\ EntryFrame + 4 <= MaxFrame
    /\ MaxFrame <= StackTop - StackSize

VARIABLES
    programStack,           \* vm->programStack
    currentlyInterpreting,  \* vm->currentlyInterpreting
    callLevel,              \* vm->callLevel
    lastError,              \* vm->lastError
    acts,                   \* activations of VM_CallInterpreted, innermost last
    faulted,                \* history: some VM_Call returned through an error
    reported                \* history: the level of the last Com_Error

vars == << programStack, currentlyInterpreting, callLevel, lastError, acts,
           faulted, reported >>

errors == << lastError, reported >>

StackBottom == StackTop - StackSize  \* vm->stackBottom

(* The locals of one VM_CallInterpreted that outlive an instruction.        *)
Activation == [stackOnEntry : Int, programStack : Int, inSyscall : BOOLEAN]

Running  == acts # << >> /\ ~ Last(acts).inSyscall  \* bytecode has control
HostTurn == acts # << >> => Last(acts).inSyscall  \* the host has control

(* Mutant of FetchPasses: the check is left out.                            *)
FetchUnchecked(ps) == TRUE

(* The check a DEBUG_VM build makes when it fetches an instruction.         *)
FetchPasses(ps) == DebugVm => ps > StackBottom

MoveStack(ps) == [acts EXCEPT ![Len(acts)].programStack = ps]
EnterHost     == [acts EXCEPT ![Len(acts)].inSyscall = TRUE]
LeaveHost     == [acts EXCEPT ![Len(acts)].inSyscall = FALSE]

(* The error is stored in the vm_t, and the host hears of it.               *)
Report(level) == lastError' = level /\ reported' = level

-----------------------------------------------------------------------------

Init ==
    /\ programStack = StackTop
    /\ currentlyInterpreting = FALSE
    /\ callLevel = 0
    /\ lastError = VM_NO_ERROR
    /\ acts = << >>
    /\ faulted = FALSE
    /\ reported = VM_NO_ERROR

(* Mutant of VM_Call: the level is not counted up.                          *)
VM_CallUncounted ==
    /\ HostTurn
    /\ callLevel < MaxLevel
    /\ programStack - EntryFrame >= StackFloor
    /\ currentlyInterpreting' = TRUE
    /\ acts' = Append(acts, [stackOnEntry |-> programStack,
                             programStack |-> programStack - EntryFrame,
                             inSyscall    |-> FALSE])
    /\ UNCHANGED << programStack, callLevel, errors, faulted >>

(* The host calls VM_Call, which calls VM_CallInterpreted.                  *)
VM_Call ==
    /\ HostTurn
    /\ callLevel < MaxLevel
    /\ programStack - EntryFrame >= StackFloor
    /\ callLevel' = callLevel + 1
    /\ currentlyInterpreting' = TRUE
    /\ acts' = Append(acts, [stackOnEntry |-> programStack,
                             programStack |-> programStack - EntryFrame,
                             inSyscall    |-> FALSE])
    /\ UNCHANGED << programStack, errors, faulted >>

(* OP_ENTER of a function with a frame of the given size.                   *)
Enter(size) ==
    LET ps == Last(acts).programStack IN
    /\ Running
    /\ FetchPasses(ps)
    /\ ps - size >= StackFloor
    /\ acts' = MoveStack(ps - size)
    /\ UNCHANGED << programStack, currentlyInterpreting, callLevel, errors,
                    faulted >>

(* OP_LEAVE of a function called by the bytecode.                           *)
Leave(size) ==
    LET act == Last(acts) IN
    /\ Running
    /\ FetchPasses(act.programStack)
    /\ act.programStack + size < act.stackOnEntry - EntryFrame
    /\ acts' = MoveStack(act.programStack + size)
    /\ UNCHANGED << programStack, currentlyInterpreting, callLevel, errors,
                    faulted >>

(* Mutant of Done: vm->programStack is left where the last system call put  *)
(* it.                                                                      *)
DoneKeepingStack(size) ==
    LET act == Last(acts) IN
    /\ Running
    /\ FetchPasses(act.programStack)
    /\ act.programStack + size = act.stackOnEntry - EntryFrame
    /\ currentlyInterpreting' = FALSE
    /\ Report(VM_STACK_ERROR) \/ UNCHANGED errors
    /\ callLevel' = callLevel - 1
    /\ acts' = Front(acts)
    /\ UNCHANGED << programStack, faulted >>

(* OP_LEAVE of the function VM_Call started: it finds the return address -1 *)
(* VM_CallInterpreted pushed, and VM_Call returns.  The operand stack may    *)
(* be found unbalanced, which is reported and otherwise ignored.             *)
Done(size) ==
    LET act == Last(acts) IN
    /\ Running
    /\ FetchPasses(act.programStack)
    /\ act.programStack + size = act.stackOnEntry - EntryFrame
    /\ currentlyInterpreting' = FALSE
    /\ programStack' = act.stackOnEntry
    /\ Report(VM_STACK_ERROR) \/ UNCHANGED errors
    /\ callLevel' = callLevel - 1
    /\ acts' = Front(acts)
    /\ UNCHANGED faulted

(* Mutant of SystemCall: the stack is not saved for a recursive entry.      *)
SystemCallUnsaved ==
    /\ Running
    /\ FetchPasses(Last(acts).programStack)
    /\ acts' = EnterHost
    /\ UNCHANGED << programStack, currentlyInterpreting, callLevel, errors,
                    faulted >>

(* OP_CALL of a system call: vm->programStack moves below the frame.        *)
SystemCall ==
    LET ps == Last(acts).programStack IN
    /\ Running
    /\ FetchPasses(ps)
    /\ programStack' = ps - 4
    /\ acts' = EnterHost
    /\ UNCHANGED << currentlyInterpreting, callLevel, errors, faulted >>

(* The host's handler returns to OP_CALL.                                   *)
SystemReturn ==
    /\ acts # << >> /\ Last(acts).inSyscall
    /\ acts' = LeaveHost
    /\ UNCHANGED << programStack, currentlyInterpreting, callLevel, errors,
                    faulted >>

(* OP_BLOCK_COPY out of range: reported, and the copy is skipped.           *)
BlockCopyError ==
    /\ Running
    /\ FetchPasses(Last(acts).programStack)
    /\ Report(VM_BLOCKCOPY_OUT_OF_RANGE)
    /\ UNCHANGED << programStack, currentlyInterpreting, callLevel, acts,
                    faulted >>

(* The host's handler gives VM_MemoryRangeValid a range that is not in the   *)
(* image, and hears so.                                                     *)
RangeRejected ==
    /\ acts # << >> /\ HostTurn
    /\ reported' = VM_DATA_OUT_OF_RANGE
    /\ UNCHANGED << programStack, currentlyInterpreting, callLevel, lastError,
                    acts, faulted >>

(* Mutant of ErrorReturn: VM_Call forgets to count the level down.          *)
ErrorReturnCounted(level) ==
    /\ Report(level)
    /\ acts' = Front(acts)
    /\ faulted' = TRUE
    /\ UNCHANGED << programStack, currentlyInterpreting, callLevel >>

(* VM_CallInterpreted returns -1 in the middle of the bytecode, without     *)
(* what the label done does.                                                *)
ErrorReturn(level) ==
    /\ Report(level)
    /\ callLevel' = callLevel - 1
    /\ acts' = Front(acts)
    /\ faulted' = TRUE
    /\ UNCHANGED << programStack, currentlyInterpreting >>

StackOverflow ==
    /\ Running
    /\ ~ FetchPasses(Last(acts).programStack)
    /\ ErrorReturn(VM_STACK_OVERFLOW)

(* The program counter is looked at before the stack is.                    *)
ProgramFault ==
    /\ Running
    /\ \/ ErrorReturn(VM_PC_OUT_OF_RANGE)
       \/ /\ FetchPasses(Last(acts).programStack)
          /\ \/ ErrorReturn(VM_BAD_INSTRUCTION)
             \/ DebugVm /\ ErrorReturn(VM_OP_LOAD4_MISALIGNED)

Next ==
    \/ VM_Call
    \/ \E size \in FrameSizes : Enter(size) \/ Leave(size) \/ Done(size)
    \/ SystemCall
    \/ SystemReturn
    \/ BlockCopyError
    \/ RangeRejected
    \/ StackOverflow
    \/ ProgramFault

Spec == Init /\ [][Next]_vars

-----------------------------------------------------------------------------

(* Every field of vm_t and every local keeps its type.                      *)
TypeOK ==
    /\ programStack \in Int
    /\ currentlyInterpreting \in BOOLEAN
    /\ callLevel \in Nat
    /\ lastError \in vmErrorCode_t
    /\ acts \in Seq(Activation)
    /\ faulted \in BOOLEAN
    /\ reported \in vmErrorCode_t

(* callLevel counts the activations of VM_CallInterpreted, so that VM_Free  *)
(* refuses exactly when there is one; all but the innermost wait in a       *)
(* system call.                                                             *)
LevelCountsActivations ==
    /\ callLevel = Len(acts)
    /\ \A i \in 1 .. Len(acts) - 1 : acts[i].inSyscall

(* A nested VM_Call works strictly below every frame of the activations     *)
(* that wait for it, whatever failed in between: the arguments it pushes    *)
(* overwrite no frame of its callers.                                       *)
NestedBelow ==
    /\ \A i \in 1 .. Len(acts) :
          acts[i].programStack <= acts[i].stackOnEntry - EntryFrame
    /\ \A i \in 1 .. Len(acts) - 1 :
          acts[i + 1].stackOnEntry <= acts[i].programStack - 4
    /\ acts # << >> /\ Last(acts).inSyscall
          => programStack <= Last(acts).programStack - 4

(* As long as no call returned through an error, the stack pointer the host *)
(* sees is exactly the one saved by the pending system call, and is back at *)
(* the top of the image when nothing runs: calls neither leak stack nor     *)
(* release a stack they do not own.                                         *)
StackRestored ==
    ~ faulted =>
        /\ acts = << >> => programStack = StackTop
        /\ acts # << >> => acts[1].stackOnEntry = StackTop
        /\ acts # << >> /\ Last(acts).inSyscall
              => programStack = Last(acts).programStack - 4

(* In a DEBUG_VM build, which looks at the stack pointer only when it       *)
(* fetches the next instruction, no frame reaches below the image.          *)
FramesInImage ==
    DebugVm => /\ programStack >= 0
               /\ \A i \in 1 .. Len(acts) : acts[i].programStack >= 0

=============================================================================
