------------------------ MODULE InterpreterProtocol --------------------------
(***************************************************************************)
(* The instruction by instruction interpreter implements the protocol of   *)
(* calls of CallProtocol, for programs that keep the stack discipline the   *)
(* compiler and the assembler give them; and what that discipline is,      *)
(* since vm.c itself looks at little of it: a return address lies in the    *)
(* data image, where any instruction of the program can write.             *)
(***************************************************************************)
EXTENDS Interpreter

CONSTANTS FrameSizes, MaxFrame

(* What CallProtocol sees of an activation, and of all of them.              *)
View(act) == [stackOnEntry |-> act.stackOnEntry,
              programStack |-> act.programStack,
              inSyscall    |-> act.at # "code"]

ViewOf(stack) == [i \in 1 .. Len(stack) |-> View(stack[i])]

Protocol == INSTANCE CallProtocol WITH
    StackFloor <- -W,
    acts <- ViewOf(acts)

(* Executing a compiled program is a behaviour of CallProtocol: what that   *)
(* module abstracts an instruction to is all that the instructions do to    *)
(* the vm_t, to the stack pointers and to who has control.                  *)
ImplementsProtocol == Protocol!Spec

-----------------------------------------------------------------------------
(* Frames are made of words, with room for a return address and the word    *)
(* above it; the loader leaves a stack's worth of memory below the stack;   *)
(* and the arguments a system call reads end where VM_Call's frame does.    *)
ASSUME DisciplineAssumption ==
    /\ MaxFrame \in Nat
    /\ FrameSizes \subseteq {n \in 8 .. MaxFrame : n % 4 = 0}
    /\ EntryFrame + 4 <= MaxFrame /\ MaxFrame <= StackBottom
    /\ StackTop % 4 = 0
    /\ MaxSyscallArgs <= MaxVmMainArgs + 4
    /\ MaxLevel > 0
    /\ \A p \in Programs : p.codeLength \in Word

(* An instruction has been fetched, and its operand.                        *)
HasInstruction ==
    /\ Running /\ Readable /\ FetchErrors = {} /\ Written
    /\ HasOperand(Opcode) => Act.programCounter + 1 \in DOMAIN codeBase

FallsThrough(op) == op \notin {"OP_LEAVE", "OP_JUMP", "OP_UNDEF"}

(* The code is a row of whole instructions, which begins with one and does   *)
(* not run off its end; the branches in it lead to instructions.            *)
WellFormed ==
    LET starts == {instructionPointers[k] : k \in DOMAIN instructionPointers}
        OpAt(x) == Name(IF DebugVm THEN codeBase[x] ELSE codeBase[x] % 64)
    IN
    /\ 0 \in starts
    /\ \A x \in starts :
          LET op == OpAt(x) IN
          /\ x < codeLength /\ x \in DOMAIN codeBase
          /\ HasOperand(op) => x + 1 \in DOMAIN codeBase
          /\ FallsThrough(op) => x + (IF HasOperand(op) THEN 2 ELSE 1) \in starts
          /\ op \in Branches => codeBase[x + 1] \in starts

(* A function has been called and has not made its frame yet.               *)
AtEntry == \E frame \in Act.frames : frame.at = Act.programStack

(* Every function begins with OP_ENTER, which is nowhere else, and OP_LEAVE *)
(* releases exactly the frame the function made.                            *)
EntersAndLeaves ==
    HasInstruction =>
        /\ Opcode = "OP_ENTER" <=> AtEntry
        /\ Opcode \in {"OP_ENTER", "OP_LEAVE"} => R2 \in FrameSizes
        /\ Opcode = "OP_LEAVE" =>
              LET ps == Act.programStack + R2 IN
              /\ \E frame \in Act.frames : frame.at = ps
              /\ \A frame \in Act.frames : frame.at >= ps

(* n bytes at a that hold no return address.                                *)
Apart(a, n) ==
    \A j \in 1 .. Len(acts) : \A frame \in acts[j].frames :
        a + n <= frame.at \/ frame.at + 4 <= a

(* What the program writes itself, by its instructions or by the host's     *)
(* memset and memcpy, is not a return address, and no length is negative.   *)
WritesApart ==
    /\ \A op \in Stores : Executes(op) => Apart(Masked(R1), Width(op))
    /\ Executes("OP_ARG") => Apart(Masked(R2 + Act.programStack), 4)
    /\ Executes("OP_BLOCK_COPY") /\ CopyInRange => R2 >= 0 /\ Apart(R1, R2)
    /\ LET a == Act.args[1]  b == Act.args[2]  n == Act.args[3] IN
       Handling /\ Number \in {2, 3} /\ RangeValid(a, n)
                /\ (Number = 3 => RangeValid(b, n))
          => n >= 0 /\ Apart(a, n)

(* What vm.c relies on and does not check: the program it executes is laid  *)
(* out, makes its frames and writes as lcc and q3asm make programs do.      *)
Disciplined == WellFormed /\ EntersAndLeaves /\ WritesApart
=============================================================================
