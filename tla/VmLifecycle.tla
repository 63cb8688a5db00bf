---------------------------- MODULE VmLifecycle -----------------------------
(***************************************************************************)
(* VM_Create, VM_Free and VM_Call of one vm_t, composed with the protocol  *)
(* of a loaded virtual machine (CallProtocol): what each failing step of   *)
(* VM_Create leaves behind, which heap blocks the vm_t owns, and which     *)
(* error the host can read where.                                          *)
(*                                                                         *)
(* The host is single threaded and gets control back from VM_Create only   *)
(* through Com_malloc and Com_Error; both return.  It does not call        *)
(* VM_Create again on a vm_t that is loaded.  The bytes of the image and   *)
(* their validation are abstracted to a choice here.                       *)
(***************************************************************************)
EXTENDS CallProtocol

CONSTANT MaxSymbols  \* bound: symbols read from the .map file of a DEBUG_VM build

ASSUME SymbolAssumption == MaxSymbols \in Nat

VARIABLES
    creating,    \* where VM_Create stands, or "no"
    owned,       \* blocks codeBase, dataBase, instructionPointers, symbols reach
    live,        \* blocks the host has handed out and not got back, per type
    mapFile,     \* the .map file is in memory
    codeLength   \* vm->codeLength > 0

lifecycle == << creating, owned, live, mapFile, codeLength >>
allVars == << vars, lifecycle >>

(* vmMallocType_t                                                           *)
AllocTypes == {"VM_ALLOC_CODE_SEC", "VM_ALLOC_DATA_SEC",
               "VM_ALLOC_INSTRUCTION_POINTERS", "VM_ALLOC_DEBUG"}

Phases == {"no", "load", "pointers", "prepare", "translate", "symbols",
           "failed"}

Nothing == [t \in AllocTypes |-> 0]

(* Com_malloc succeeds and the result is stored in the vm_t.                *)
Allocate(t) ==
    /\ live' = [live EXCEPT ![t] = @ + 1]
    /\ owned' = [owned EXCEPT ![t] = @ + 1]

(* Mutant of FreeAll: only the first symbol of the list is released.        *)
FreeAllButSymbols ==
    /\ live' = [t \in AllocTypes |->
                  live[t] - IF owned[t] > 0 THEN 1 ELSE 0]
    /\ owned' = Nothing
    /\ codeLength' = FALSE
    /\ programStack' = 0
    /\ currentlyInterpreting' = FALSE
    /\ callLevel' = 0
    /\ lastError' = VM_NO_ERROR
    /\ faulted' = FALSE

(* VM_Free releases what the vm_t owns and zeroes it, the error included.   *)
FreeAll ==
    /\ live' = [t \in AllocTypes |-> live[t] - owned[t]]
    /\ owned' = Nothing
    /\ codeLength' = FALSE
    /\ programStack' = 0
    /\ currentlyInterpreting' = FALSE
    /\ callLevel' = 0
    /\ lastError' = VM_NO_ERROR
    /\ faulted' = FALSE

(* A step of VM_Create fails with an error it stores; with one it only      *)
(* reports.  VM_Free is still to come.                                      *)
Failed ==
    /\ creating' = "failed"
    /\ UNCHANGED << programStack, currentlyInterpreting, callLevel, acts,
                    faulted, owned, live, mapFile, codeLength >>

FailStoring(level) == Failed /\ Report(level)

FailReporting(level) == Failed /\ reported' = level /\ UNCHANGED lastError

(* The host has control and is not inside VM_Create.                        *)
HostFree == HostTurn /\ creating = "no"

-----------------------------------------------------------------------------

LifecycleInit ==
    /\ programStack = 0 /\ currentlyInterpreting = FALSE /\ callLevel = 0
    /\ lastError = VM_NO_ERROR /\ acts = << >> /\ faulted = FALSE
    /\ reported = VM_NO_ERROR
    /\ creating = "no" /\ owned = Nothing /\ live = Nothing
    /\ mapFile = FALSE /\ codeLength = FALSE

(* A NULL vm_t pointer given to VM_Create, VM_Call or VM_ArgPtr.            *)
NullVm ==
    /\ HostFree
    /\ reported' = VM_INVALID_POINTER
    /\ UNCHANGED << programStack, currentlyInterpreting, callLevel, lastError,
                    acts, faulted, lifecycle >>

CreateNoSystemCalls ==
    /\ HostFree /\ ~ codeLength
    /\ Report(VM_NO_SYSCALL_CALLBACK)
    /\ UNCHANGED << programStack, currentlyInterpreting, callLevel, acts,
                    faulted, lifecycle >>

(* VM_Create begins: the vm_t is zeroed.                                    *)
CreateBegin ==
    /\ HostFree /\ ~ codeLength
    /\ creating' = "load"
    /\ programStack' = 0 /\ currentlyInterpreting' = FALSE
    /\ callLevel' = 0 /\ lastError' = VM_NO_ERROR /\ faulted' = FALSE
    /\ owned' = Nothing
    /\ UNCHANGED << acts, reported, live, mapFile, codeLength >>

(* VM_LoadQVM accepts the header and allocates the data section, or returns *)
(* NULL: it rejects the header, or finds no memory (and says so to Com_Error *)
(* just before VM_Create reports the failure to load).                      *)
LoadQVM ==
    /\ creating = "load"
    /\ \/ /\ Allocate("VM_ALLOC_DATA_SEC")
          /\ creating' = "pointers"
          /\ UNCHANGED << vars, mapFile, codeLength >>
       \/ FailStoring(VM_FAILED_TO_LOAD_BYTECODE)

AllocatePointers ==
    /\ creating = "pointers"
    /\ \/ /\ Allocate("VM_ALLOC_INSTRUCTION_POINTERS")
          /\ creating' = "prepare"
          /\ codeLength' = TRUE
          /\ UNCHANGED << vars, mapFile >>
       \/ FailStoring(VM_MALLOC_FAILED)

(* VM_PrepareInterpreter allocates the expanded code.                       *)
AllocateCode ==
    /\ creating = "prepare"
    /\ \/ /\ Allocate("VM_ALLOC_CODE_SEC")
          /\ creating' = "translate"
          /\ UNCHANGED << vars, mapFile, codeLength >>
       \/ FailReporting(VM_MALLOC_FAILED)

(* What VM_Create does last: the vm_t is ready.                             *)
Created ==
    /\ creating' = "no"
    /\ programStack' = StackTop
    /\ UNCHANGED << currentlyInterpreting, callLevel, lastError, acts, faulted >>

(* VM_PrepareInterpreter expands the code, or finds it invalid.  A DEBUG_VM *)
(* build then opens the .map file, if there is one.                         *)
Translate ==
    /\ creating = "translate"
    /\ \/ /\ Created
          /\ UNCHANGED << reported, owned, live, mapFile, codeLength >>
       \/ /\ DebugVm
          /\ creating' = "symbols"
          /\ mapFile' = TRUE
          /\ live' = [live EXCEPT !["VM_ALLOC_DEBUG"] = @ + 1]
          /\ UNCHANGED << vars, owned, codeLength >>
       \/ \E level \in {VM_PC_OUT_OF_RANGE, VM_BAD_INSTRUCTION,
                        VM_JUMP_TO_INVALID_INSTRUCTION} : FailStoring(level)

(* VM_LoadSymbols: one more symbol.                                         *)
LoadSymbol ==
    /\ creating = "symbols"
    /\ owned["VM_ALLOC_DEBUG"] < MaxSymbols
    /\ Allocate("VM_ALLOC_DEBUG")
    /\ UNCHANGED << vars, creating, mapFile, codeLength >>

(* VM_LoadSymbols reaches the end of the file, or finds no memory for a     *)
(* symbol; either way the file is released and the virtual machine ready.    *)
(* loadImage took the memory of the file from malloc, Com_free gets it.      *)
SymbolsDone ==
    /\ creating = "symbols"
    /\ reported' \in {reported, VM_MALLOC_FAILED}
    /\ mapFile' = FALSE
    /\ live' = [live EXCEPT !["VM_ALLOC_DEBUG"] = @ - 1]
    /\ Created
    /\ UNCHANGED << owned, codeLength >>

(* A failing VM_Create ends with VM_Free, which does not refuse because the  *)
(* level was zeroed at the start, and returns -1.                           *)
CreateFails ==
    /\ creating = "failed"
    /\ creating' = "no"
    /\ FreeAll
    /\ UNCHANGED << acts, reported, mapFile >>

(* Mutant of VM_Free: a running vm_t is not refused.                        *)
VM_FreeUnchecked ==
    /\ HostFree
    /\ FreeAll
    /\ UNCHANGED << acts, reported, creating, mapFile >>

(* VM_Free of a vm_t with no activation.                                    *)
VM_Free ==
    /\ HostFree
    /\ callLevel = 0
    /\ FreeAll
    /\ UNCHANGED << acts, reported, creating, mapFile >>

VM_FreeRefused ==
    /\ HostFree
    /\ callLevel > 0
    /\ Report(VM_FREE_ON_RUNNING_VM)
    /\ UNCHANGED << programStack, currentlyInterpreting, callLevel, acts,
                    faulted, lifecycle >>

VM_CallUnloaded ==
    /\ HostFree
    /\ ~ codeLength
    /\ Report(VM_NOT_LOADED)
    /\ UNCHANGED << programStack, currentlyInterpreting, callLevel, acts,
                    faulted, lifecycle >>

(* A step of the loaded virtual machine.                                    *)
ProtocolStep ==
    /\ codeLength /\ creating = "no"
    /\ Next
    /\ UNCHANGED lifecycle

LifecycleNext ==
    \/ NullVm
    \/ CreateNoSystemCalls
    \/ CreateBegin
    \/ LoadQVM
    \/ AllocatePointers
    \/ AllocateCode
    \/ Translate
    \/ LoadSymbol
    \/ SymbolsDone
    \/ CreateFails
    \/ VM_Free
    \/ VM_FreeRefused
    \/ VM_CallUnloaded
    \/ ProtocolStep

LifecycleSpec == LifecycleInit /\ [][LifecycleNext]_allVars

-----------------------------------------------------------------------------

(* Every field keeps its type.                                              *)
LifecycleTypeOK ==
    /\ TypeOK
    /\ creating \in Phases
    /\ owned \in [AllocTypes -> Nat]
    /\ live \in [AllocTypes -> Nat]
    /\ mapFile \in BOOLEAN /\ codeLength \in BOOLEAN

(* Every block the host has handed out is reachable from the vm_t (or is    *)
(* the .map file being read), so that a VM_Create that fails at any step,   *)
(* and any VM_Free, leaves no block behind; nothing is freed twice.         *)
BlocksAccounted ==
    /\ \A t \in AllocTypes :
          live[t] = owned[t] +
                    IF t = "VM_ALLOC_DEBUG" /\ mapFile THEN 1 ELSE 0
    /\ creating = "no" /\ ~ codeLength => live = Nothing

(* Whenever a VM_CallInterpreted is active, even one the host has nested    *)
(* calls and frees in, its code, its data and its instruction table are     *)
(* allocated.                                                               *)
RunningIsLoaded ==
    acts # << >> =>
        /\ codeLength /\ creating = "no" /\ callLevel = Len(acts)
        /\ \A t \in AllocTypes \ {"VM_ALLOC_DEBUG"} : owned[t] = 1

=============================================================================
