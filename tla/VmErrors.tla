------------------------------ MODULE VmErrors ------------------------------
(***************************************************************************)
(* The error codes of vmErrorCode_t (src/src/vm/vm.h).  Every level passed *)
(* to the host's Com_Error callback, and every value of vm_t.lastError, is *)
(* one of them.                                                            *)
(***************************************************************************)
EXTENDS Integers

VM_NO_ERROR                    == 0
VM_INVALID_POINTER             == -1
VM_FAILED_TO_LOAD_BYTECODE     == -2
VM_NO_SYSCALL_CALLBACK         == -3
VM_FREE_ON_RUNNING_VM          == -4
VM_BLOCKCOPY_OUT_OF_RANGE      == -5
VM_PC_OUT_OF_RANGE             == -6
VM_JUMP_TO_INVALID_INSTRUCTION == -7
VM_STACK_OVERFLOW              == -8
VM_STACK_MISALIGNED            == -9
VM_OP_LOAD4_MISALIGNED         == -10
VM_STACK_ERROR                 == -11
VM_DATA_OUT_OF_RANGE           == -12
VM_MALLOC_FAILED               == -13
VM_BAD_INSTRUCTION             == -14
VM_NOT_LOADED                  == -15

vmErrorCode_t == -15 .. 0
=============================================================================
