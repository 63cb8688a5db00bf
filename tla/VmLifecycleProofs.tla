------------------------- MODULE VmLifecycleProofs -------------------------
(***************************************************************************)
(* Proofs of the invariants of CallProtocol and VmLifecycle, for every size *)
(* of stack and frames, every nesting depth, either build and any number of *)
(* symbols: nested calls keep to their part of the stack, no block is lost  *)
(* or freed twice on any path through VM_Create and VM_Free, and the       *)
(* protocol of the calls holds whenever, and only while, the vm_t is        *)
(* loaded.                                                                 *)
(***************************************************************************)
EXTENDS VmLifecycle, Lemmas

-----------------------------------------------------------------------------
(* The calls of one program: the invariants of CallProtocol.                *)

(* While an activation exists, vm->programStack is not above the value it   *)
(* had when that activation began, whatever failed inside it.               *)
StackNotRaised == acts # << >> => programStack <= acts[Len(acts)].stackOnEntry

(* Without faults every nested call began where its caller's pending system *)
(* call saved the stack.                                                    *)
NestedExactly ==
    ~ faulted => \A i \in 1 .. Len(acts) - 1 :
                     acts[i + 1].stackOnEntry = acts[i].programStack - 4

(* How far below stackBottom a DEBUG_VM build can get between two checks.   *)
Overshoot ==
    DebugVm => /\ programStack > StackBottom - 4
               /\ \A i \in 1 .. Len(acts) :
                     /\ acts[i].stackOnEntry > StackBottom - 4
                     /\ acts[i].programStack > StackBottom - MaxFrame

(* The inductive invariant.                                                 *)
Inv == /\ TypeOK
       /\ LevelCountsActivations
       /\ NestedBelow
       /\ StackNotRaised
       /\ StackRestored
       /\ NestedExactly
       /\ Overshoot

-----------------------------------------------------------------------------

(* What the steps do to the C stack: what Last, Front, Append and the three *)
(* updates of the innermost activation return.                              *)
LEMMA Innermost ==
    ASSUME TypeOK, acts # << >>
    PROVE  /\ Len(acts) \in Nat /\ Len(acts) >= 1
           /\ Last(acts) = acts[Len(acts)]
           /\ acts[Len(acts)] \in Activation
    BY LastFacts DEF TypeOK

LEMMA Fields ==
    ASSUME TypeOK, NEW i \in 1 .. Len(acts)
    PROVE  /\ acts[i].stackOnEntry \in Int
           /\ acts[i].programStack \in Int
           /\ acts[i].inSyscall \in BOOLEAN
<1>1. acts[i] \in Activation
    BY ElementOfSeq DEF TypeOK
<1>2. QED BY <1>1 DEF Activation

LEMMA Popped ==
    ASSUME TypeOK, acts # << >>
    PROVE  /\ Front(acts) \in Seq(Activation)
           /\ Len(Front(acts)) = Len(acts) - 1
           /\ \A i \in 1 .. Len(acts) - 1 : Front(acts)[i] = acts[i]
    BY FrontFacts DEF TypeOK

LEMMA Pushed ==
    ASSUME TypeOK, NEW act \in Activation
    PROVE  /\ Append(acts, act) \in Seq(Activation)
           /\ Append(acts, act) # << >>
           /\ Len(Append(acts, act)) = Len(acts) + 1
           /\ \A i \in 1 .. Len(acts) : Append(acts, act)[i] = acts[i]
           /\ Append(acts, act)[Len(acts) + 1] = act
    BY AppendProperties DEF TypeOK

LEMMA Moved ==
    ASSUME TypeOK, acts # << >>, NEW ps \in Int
    PROVE  /\ MoveStack(ps) \in Seq(Activation)
           /\ Len(MoveStack(ps)) = Len(acts)
           /\ \A i \in 1 .. Len(acts) - 1 : MoveStack(ps)[i] = acts[i]
           /\ MoveStack(ps)[Len(acts)] =
                 [acts[Len(acts)] EXCEPT !.programStack = ps]
<1>1. acts[Len(acts)] \in Activation
    BY Innermost
<1>2. [acts[Len(acts)] EXCEPT !.programStack = ps] \in Activation
    BY <1>1 DEF Activation
<1>3. QED BY <1>2, ReplaceLastFacts DEF TypeOK, MoveStack

LEMMA Switched ==
    ASSUME TypeOK, acts # << >>, NEW b \in BOOLEAN,
           NEW s, s = [acts EXCEPT ![Len(acts)].inSyscall = b]
    PROVE  /\ s \in Seq(Activation)
           /\ Len(s) = Len(acts)
           /\ \A i \in 1 .. Len(acts) - 1 : s[i] = acts[i]
           /\ s[Len(acts)] = [acts[Len(acts)] EXCEPT !.inSyscall = b]
<1>1. acts[Len(acts)] \in Activation
    BY Innermost
<1>2. [acts[Len(acts)] EXCEPT !.inSyscall = b] \in Activation
    BY <1>1 DEF Activation
<1>3. QED BY <1>2, ReplaceLastFacts DEF TypeOK

(* Zero is a possible error level, and so is every code.                    *)
LEMMA Codes ==
    /\ VM_NO_ERROR \in vmErrorCode_t /\ VM_STACK_ERROR \in vmErrorCode_t
    /\ VM_BLOCKCOPY_OUT_OF_RANGE \in vmErrorCode_t
    /\ VM_DATA_OUT_OF_RANGE \in vmErrorCode_t
    /\ VM_STACK_OVERFLOW \in vmErrorCode_t
    /\ VM_PC_OUT_OF_RANGE \in vmErrorCode_t
    /\ VM_BAD_INSTRUCTION \in vmErrorCode_t
    /\ VM_OP_LOAD4_MISALIGNED \in vmErrorCode_t
    BY DEF vmErrorCode_t, VM_NO_ERROR, VM_STACK_ERROR,
           VM_BLOCKCOPY_OUT_OF_RANGE, VM_DATA_OUT_OF_RANGE, VM_STACK_OVERFLOW,
           VM_PC_OUT_OF_RANGE, VM_BAD_INSTRUCTION, VM_OP_LOAD4_MISALIGNED

-----------------------------------------------------------------------------

LEMMA InitInv == Init => Inv
<1> SUFFICES ASSUME Init PROVE Inv
    OBVIOUS
<1>1. TypeOK
    <2>1. acts \in Seq(Activation)
        BY EmptySeq DEF Init
    <2>2. programStack \in Int /\ callLevel \in Nat
        BY StackAssumption DEF Init
    <2>3. lastError \in vmErrorCode_t /\ reported \in vmErrorCode_t
        BY Codes DEF Init
    <2>4. QED BY <2>1, <2>2, <2>3 DEF Init, TypeOK
<1>2. Len(acts) = 0
    BY EmptySeq DEF Init
<1>3. QED
    BY <1>1, <1>2, StackAssumption, RoomAssumption
    DEF Init, Inv, LevelCountsActivations, NestedBelow, StackNotRaised,
        StackRestored, NestedExactly, Overshoot, StackBottom

(* VM_Call pushes an activation that begins where the host's stack stands.  *)
LEMMA CallStep == Inv /\ VM_Call => Inv'
<1> SUFFICES ASSUME Inv, VM_Call PROVE Inv'
    OBVIOUS
<1> DEFINE act == [stackOnEntry |-> programStack,
                   programStack |-> programStack - EntryFrame,
                   inSyscall    |-> FALSE]
<1>1. act \in Activation
    BY StackAssumption DEF Inv, TypeOK, Activation
<1>2. /\ acts' \in Seq(Activation) /\ acts' # << >>
      /\ Len(acts') = Len(acts) + 1
      /\ \A i \in 1 .. Len(acts) : acts'[i] = acts[i]
      /\ acts'[Len(acts) + 1] = act
    BY <1>1, Pushed DEF VM_Call, Inv
<1>3. Len(acts) \in Nat
    BY DEF Inv, TypeOK
<1>4. acts # << >> => Last(acts) = acts[Len(acts)] /\ Len(acts) >= 1
    BY Innermost DEF Inv
<1>5. TypeOK'
    BY <1>2 DEF Inv, TypeOK, VM_Call, errors
<1>6. LevelCountsActivations'
    <2>1. \A i \in 1 .. Len(acts) : acts[i].inSyscall
        BY <1>3, <1>4 DEF Inv, LevelCountsActivations, VM_Call, HostTurn
    <2>2. QED BY <1>2, <1>3, <2>1 DEF Inv, LevelCountsActivations, VM_Call
<1>7. NestedBelow' /\ StackNotRaised'
    <2>1. \A i \in 1 .. Len(acts') :
             acts'[i].programStack <= acts'[i].stackOnEntry - EntryFrame
        <3>1. act.programStack <= act.stackOnEntry - EntryFrame
            BY StackAssumption DEF Inv, TypeOK
        <3>2. QED BY <1>2, <1>3, <3>1 DEF Inv, NestedBelow
    <2>2. acts # << >> => programStack <= acts[Len(acts)].programStack - 4
        BY <1>4 DEF Inv, NestedBelow, VM_Call, HostTurn
    <2>3. \A i \in 1 .. Len(acts') - 1 :
             acts'[i + 1].stackOnEntry <= acts'[i].programStack - 4
        BY <1>2, <1>3, <1>4, <2>2 DEF Inv, TypeOK, NestedBelow
    <2>4. acts'[Len(acts')].inSyscall = FALSE
        BY <1>2
    <2>5. Last(acts') = acts'[Len(acts')]
        BY DEF Last
    <2>6. StackNotRaised'
        BY <1>2, <1>3, <1>5 DEF StackNotRaised, VM_Call, TypeOK
    <2>7. QED BY <2>1, <2>3, <2>4, <2>5, <2>6 DEF NestedBelow
<1>8. StackRestored' /\ NestedExactly'
    <2>1. Last(acts') = acts'[Len(acts')]
        BY DEF Last
    <2>2. StackRestored'
        BY <1>2, <1>3, <1>4, <2>1 DEF Inv, StackRestored, VM_Call, HostTurn
    <2>3. NestedExactly'
        BY <1>2, <1>3, <1>4 DEF Inv, StackRestored, NestedExactly, VM_Call, HostTurn
    <2>4. QED BY <2>2, <2>3
<1>9. Overshoot'
    BY <1>2, <1>3, StackAssumption, FrameAssumption, RoomAssumption
    DEF Inv, TypeOK, Overshoot, VM_Call, StackBottom
<1> QED
    BY <1>5, <1>6, <1>7, <1>8, <1>9 DEF Inv

(* A step that changes no stack: only the errors heard of.                  *)
LEMMA ReportStep ==
    ASSUME Inv,
           UNCHANGED << programStack, callLevel, acts, faulted >>,
           currentlyInterpreting' \in BOOLEAN,
           lastError' \in vmErrorCode_t, reported' \in vmErrorCode_t
    PROVE  Inv'
    BY DEF Inv, TypeOK, LevelCountsActivations, NestedBelow, StackNotRaised,
           StackRestored, NestedExactly, Overshoot

(* The innermost activation moves its own stack pointer, not above the      *)
(* arguments it was called with, and never unchecked below the overshoot.   *)
LEMMA MoveStep ==
    ASSUME Inv, Running, NEW ps \in Int,
           ps <= acts[Len(acts)].stackOnEntry - EntryFrame,
           DebugVm => ps > StackBottom - MaxFrame,
           acts' = MoveStack(ps),
           UNCHANGED << programStack, currentlyInterpreting, callLevel, errors,
                        faulted >>
    PROVE  Inv'
<1>1. acts # << >> /\ ~ acts[Len(acts)].inSyscall
    BY Innermost DEF Inv, Running
<1>2. Len(acts) \in Nat /\ Len(acts) >= 1 /\ acts[Len(acts)] \in Activation
    BY <1>1, Innermost DEF Inv
<1>3. /\ acts' \in Seq(Activation)
      /\ Len(acts') = Len(acts)
      /\ \A i \in 1 .. Len(acts) - 1 : acts'[i] = acts[i]
      /\ acts'[Len(acts)] = [acts[Len(acts)] EXCEPT !.programStack = ps]
    BY <1>1, Moved DEF Inv
<1>4. /\ acts'[Len(acts)].stackOnEntry = acts[Len(acts)].stackOnEntry
      /\ acts'[Len(acts)].programStack = ps
      /\ acts'[Len(acts)].inSyscall = FALSE
    BY <1>1, <1>2, <1>3 DEF Activation
<1>5. /\ Len(acts') = Len(acts)
      /\ \A i \in 1 .. Len(acts) : acts'[i].stackOnEntry = acts[i].stackOnEntry
      /\ \A i \in 1 .. Len(acts) - 1 : acts'[i] = acts[i]
      /\ acts'[Len(acts)].programStack = ps
      /\ ~ acts'[Len(acts)].inSyscall
    <2>1. \A i \in 1 .. Len(acts) : i # Len(acts) => i \in 1 .. Len(acts) - 1
        BY <1>2
    <2>2. QED BY <1>3, <1>4, <2>1
<1>6. acts' # << >> /\ Last(acts') = acts'[Len(acts)]
    BY <1>2, <1>3, EmptySeq DEF Last
<1>7. TypeOK'
    BY <1>3 DEF Inv, TypeOK, errors
<1>8. LevelCountsActivations'
    BY <1>2, <1>5 DEF Inv, LevelCountsActivations
<1>9. NestedBelow' /\ StackNotRaised'
    <2>1. \A i \in 1 .. Len(acts') :
             acts'[i].programStack <= acts'[i].stackOnEntry - EntryFrame
        BY <1>2, <1>5 DEF Inv, NestedBelow
    <2>2. \A i \in 1 .. Len(acts') - 1 :
             acts'[i + 1].stackOnEntry <= acts'[i].programStack - 4
        BY <1>2, <1>5 DEF Inv, NestedBelow
    <2>3. QED BY <1>1, <1>5, <1>6, <1>2, <2>1, <2>2
              DEF Inv, NestedBelow, StackNotRaised
<1>10. StackRestored' /\ NestedExactly'
    <2>1. acts'[1].stackOnEntry = acts[1].stackOnEntry
        BY <1>2, <1>5
    <2>2. StackRestored'
        BY <1>1, <1>5, <1>6, <2>1 DEF Inv, StackRestored
    <2>3. NestedExactly'
        BY <1>2, <1>5 DEF Inv, NestedExactly
    <2>4. QED BY <2>2, <2>3
<1>11. Overshoot'
    BY <1>2, <1>5 DEF Inv, Overshoot
<1>12. QED
    BY <1>7, <1>8, <1>9, <1>10, <1>11 DEF Inv

(* The innermost activation gives control to the host, with the stack saved *)
(* below its frame, or takes it back.                                       *)
LEMMA SwitchStep ==
    ASSUME Inv, acts # << >>, NEW b \in BOOLEAN,
           acts' = [acts EXCEPT ![Len(acts)].inSyscall = b],
           b => /\ programStack' = acts[Len(acts)].programStack - 4
                /\ FetchPasses(acts[Len(acts)].programStack),
           ~ b => UNCHANGED programStack,
           UNCHANGED << currentlyInterpreting, callLevel, errors, faulted >>
    PROVE  Inv'
<1>2. Len(acts) \in Nat /\ Len(acts) >= 1 /\ acts[Len(acts)] \in Activation
    BY Innermost DEF Inv
<1>3. /\ acts' \in Seq(Activation)
      /\ Len(acts') = Len(acts)
      /\ \A i \in 1 .. Len(acts) - 1 : acts'[i] = acts[i]
      /\ acts'[Len(acts)] = [acts[Len(acts)] EXCEPT !.inSyscall = b]
    BY Switched DEF Inv
<1>4. /\ acts'[Len(acts)].stackOnEntry = acts[Len(acts)].stackOnEntry
      /\ acts'[Len(acts)].programStack = acts[Len(acts)].programStack
      /\ acts'[Len(acts)].inSyscall = b
      /\ acts[Len(acts)].programStack \in Int
      /\ acts[Len(acts)].stackOnEntry \in Int
    BY <1>2, <1>3 DEF Activation
<1>5. /\ Len(acts') = Len(acts)
      /\ \A i \in 1 .. Len(acts) :
            /\ acts'[i].stackOnEntry = acts[i].stackOnEntry
            /\ acts'[i].programStack = acts[i].programStack
      /\ \A i \in 1 .. Len(acts) - 1 : acts'[i].inSyscall = acts[i].inSyscall
      /\ acts'[Len(acts)].inSyscall = b
    <2>1. \A i \in 1 .. Len(acts) : i # Len(acts) => i \in 1 .. Len(acts) - 1
        BY <1>2
    <2>2. QED BY <1>3, <1>4, <2>1
<1>6. acts' # << >> /\ Last(acts') = acts'[Len(acts)]
    BY <1>2, <1>3, EmptySeq DEF Last
<1>7. TypeOK'
    BY <1>3, <1>4 DEF Inv, TypeOK, errors
<1>8. LevelCountsActivations'
    BY <1>2, <1>5 DEF Inv, LevelCountsActivations
<1>9. NestedBelow' /\ StackNotRaised'
    <2>1. \A i \in 1 .. Len(acts') - 1 :
             acts'[i + 1].stackOnEntry <= acts'[i].programStack - 4
        BY <1>2, <1>5 DEF Inv, NestedBelow
    <2>2. \A i \in 1 .. Len(acts') :
             acts'[i].programStack <= acts'[i].stackOnEntry - EntryFrame
        BY <1>2, <1>5 DEF Inv, NestedBelow
    <2>3. b => programStack' <= acts'[Len(acts)].stackOnEntry
        <3>1. acts[Len(acts)].programStack <= acts[Len(acts)].stackOnEntry - EntryFrame
            BY <1>2 DEF Inv, NestedBelow
        <3>2. b => programStack' = acts[Len(acts)].programStack - 4
            OBVIOUS
        <3>3. EntryFrame \in Nat
            BY StackAssumption
        <3>4. QED BY <1>4, <3>1, <3>2, <3>3
    <2>4. ~ b => programStack' <= acts'[Len(acts)].stackOnEntry
        BY <1>4 DEF Inv, StackNotRaised
    <2>5. b => programStack' <= acts'[Len(acts)].programStack - 4
        BY <1>4
    <2>6. QED BY <1>3, <1>4, <1>6, <2>1, <2>2, <2>3, <2>4, <2>5
              DEF NestedBelow, StackNotRaised
<1>10. StackRestored' /\ NestedExactly'
    <2>1. acts'[1].stackOnEntry = acts[1].stackOnEntry
        BY <1>2, <1>5
    <2>2. StackRestored'
        BY <1>4, <1>6, <2>1 DEF Inv, StackRestored
    <2>3. NestedExactly'
        BY <1>2, <1>5 DEF Inv, NestedExactly
    <2>4. QED BY <2>2, <2>3
<1>11. Overshoot'
    <2>1. (b /\ DebugVm) => programStack' > StackBottom - 4
        BY <1>4, StackAssumption DEF FetchPasses, StackBottom
    <2>2. (~ b /\ DebugVm) => programStack' > StackBottom - 4
        BY DEF Inv, Overshoot
    <2>3. QED BY <1>2, <1>5, <2>1, <2>2 DEF Inv, Overshoot
<1>12. QED
    BY <1>7, <1>8, <1>9, <1>10, <1>11 DEF Inv

(* An activation ends: through done, which puts the stack back, or through  *)
(* an error, which leaves it where the last system call put it.             *)
LEMMA ReturnStep ==
    ASSUME Inv, Running,
           acts' = Front(acts),
           callLevel' = callLevel - 1,
           currentlyInterpreting' \in BOOLEAN, faulted' \in BOOLEAN,
           lastError' \in vmErrorCode_t, reported' \in vmErrorCode_t,
           \/ faulted' = faulted
              /\ programStack' = acts[Len(acts)].stackOnEntry
           \/ faulted' = TRUE /\ programStack' = programStack
    PROVE  Inv'
<1>1. acts # << >>
    BY DEF Running
<1>2. Len(acts) \in Nat /\ Len(acts) >= 1 /\ acts[Len(acts)] \in Activation
    BY <1>1, Innermost DEF Inv
<1>3. /\ acts' \in Seq(Activation)
      /\ Len(acts') = Len(acts) - 1
      /\ \A i \in 1 .. Len(acts) - 1 : acts'[i] = acts[i]
    BY <1>1, Popped DEF Inv
<1>4. acts[Len(acts)].stackOnEntry \in Int /\ programStack \in Int
    BY <1>2 DEF Activation, Inv, TypeOK
<1>5. acts' # << >> => /\ Len(acts) >= 2
                       /\ Last(acts') = acts'[Len(acts) - 1]
                       /\ acts'[Len(acts) - 1] = acts[Len(acts) - 1]
                       /\ acts[Len(acts) - 1] \in Activation
    <2>1. acts' # << >> => Len(acts') >= 1
        BY <1>3, LastFacts
    <2>2. acts' # << >> => Last(acts') = acts'[Len(acts')]
        BY DEF Last
    <2>3. QED BY <1>2, <1>3, <2>1, <2>2, ElementOfSeq DEF Inv, TypeOK
<1>6. acts' = << >> => Len(acts) = 1
    BY <1>2, <1>3, EmptySeq
<1>7. programStack' <= acts[Len(acts)].stackOnEntry /\ programStack' \in Int
    BY <1>1, <1>4 DEF Inv, StackNotRaised
<1>8. TypeOK'
    BY <1>2, <1>3, <1>7 DEF Inv, TypeOK, LevelCountsActivations
<1>9. LevelCountsActivations'
    BY <1>2, <1>3 DEF Inv, LevelCountsActivations
<1>10. NestedBelow' /\ StackNotRaised'
    <2>1. \A i \in 1 .. Len(acts') - 1 :
             acts'[i + 1].stackOnEntry <= acts'[i].programStack - 4
        BY <1>2, <1>3 DEF Inv, NestedBelow
    <2>2. \A i \in 1 .. Len(acts') :
             acts'[i].programStack <= acts'[i].stackOnEntry - EntryFrame
        BY <1>2, <1>3 DEF Inv, NestedBelow
    <2>3. acts' # << >> => programStack' <= acts[Len(acts) - 1].programStack - 4
        <3>1. acts' # << >> => acts[Len(acts)].stackOnEntry <=
                                  acts[Len(acts) - 1].programStack - 4
            BY <1>2, <1>5 DEF Inv, NestedBelow
        <3>2. acts' # << >> => acts[Len(acts) - 1].programStack \in Int
            BY <1>5 DEF Activation
        <3>3. QED BY <1>4, <1>7, <3>1, <3>2
    <2>4. acts' # << >> => programStack' <= acts[Len(acts) - 1].stackOnEntry
        <3>1. acts' # << >> => acts[Len(acts) - 1].programStack <=
                                  acts[Len(acts) - 1].stackOnEntry - EntryFrame
            BY <1>2, <1>5 DEF Inv, NestedBelow
        <3>2. acts' # << >> => /\ acts[Len(acts) - 1].programStack \in Int
                               /\ acts[Len(acts) - 1].stackOnEntry \in Int
            BY <1>5 DEF Activation
        <3>3. QED BY <1>7, <2>3, <3>1, <3>2, StackAssumption
    <2>5. QED BY <1>3, <1>5, <2>1, <2>2, <2>3, <2>4
              DEF NestedBelow, StackNotRaised
<1>11. StackRestored' /\ NestedExactly'
    <2>1. ~ faulted' => /\ ~ faulted
                        /\ programStack' = acts[Len(acts)].stackOnEntry
        BY DEF Inv, TypeOK
    <2>2. acts' # << >> => acts'[1] = acts[1]
        BY <1>2, <1>3, <1>5
    <2>3. ~ faulted' /\ acts' = << >> => programStack' = StackTop
        BY <1>1, <1>6, <2>1 DEF Inv, StackRestored
    <2>4. ~ faulted' /\ acts' # << >> =>
              programStack' = acts[Len(acts) - 1].programStack - 4
        BY <1>2, <1>5, <2>1 DEF Inv, NestedExactly
    <2>5. StackRestored'
        BY <1>1, <1>5, <2>1, <2>2, <2>3, <2>4 DEF Inv, StackRestored
    <2>6. NestedExactly'
        BY <1>2, <1>3, <2>1 DEF Inv, NestedExactly
    <2>7. QED BY <2>5, <2>6
<1>12. Overshoot'
    BY <1>2, <1>3 DEF Inv, Overshoot
<1>13. QED
    BY <1>8, <1>9, <1>10, <1>11, <1>12 DEF Inv

(* An error return keeps the invariant, whatever the level.                 *)
LEMMA ErrorReturnStep ==
    ASSUME Inv, Running, NEW level \in vmErrorCode_t, ErrorReturn(level)
    PROVE  Inv'
    BY ReturnStep DEF ErrorReturn, Report, Inv, TypeOK

(* Every step keeps the inductive invariant.                                *)
LEMMA NextInv == Inv /\ [Next]_vars => Inv'
<1> SUFFICES ASSUME Inv, [Next]_vars PROVE Inv'
    OBVIOUS
<1> DEFINE act == acts[Len(acts)]
<1>1. ASSUME Running
      PROVE  /\ acts # << >> /\ Last(acts) = act /\ act \in Activation
             /\ act.programStack \in Int /\ act.stackOnEntry \in Int
             /\ act.programStack <= act.stackOnEntry - EntryFrame
             /\ Len(acts) \in 1 .. Len(acts)
    <2>1. acts # << >>
        BY <1>1 DEF Running
    <2>2. /\ Len(acts) \in Nat /\ Len(acts) >= 1
          /\ Last(acts) = act /\ act \in Activation
        BY <2>1, Innermost DEF Inv
    <2>3. QED BY <2>1, <2>2 DEF Activation, Inv, NestedBelow
<1>2. CASE VM_Call
    BY <1>2, CallStep
<1>3. ASSUME NEW size \in FrameSizes, Enter(size) PROVE Inv'
    <2>1. Running /\ FetchPasses(act.programStack)
          /\ acts' = MoveStack(act.programStack - size)
        BY <1>3, <1>1 DEF Enter
    <2>2. size \in Int /\ 1 <= size /\ size <= MaxFrame /\ MaxFrame \in Int
        BY FrameAssumption
    <2>3. act.programStack - size \in Int
          /\ act.programStack - size <= act.stackOnEntry - EntryFrame
        BY <1>1, <2>1, <2>2, StackAssumption
    <2>4. DebugVm => act.programStack - size > StackBottom - MaxFrame
        BY <1>1, <2>1, <2>2, StackAssumption DEF FetchPasses, StackBottom
    <2>5. UNCHANGED << programStack, currentlyInterpreting, callLevel, errors,
                       faulted >>
        BY <1>3 DEF Enter
    <2>6. QED BY <2>1, <2>3, <2>4, <2>5, MoveStep
<1>4. ASSUME NEW size \in FrameSizes, Leave(size) PROVE Inv'
    <2>1. Running /\ FetchPasses(act.programStack)
          /\ acts' = MoveStack(act.programStack + size)
          /\ act.programStack + size < act.stackOnEntry - EntryFrame
        BY <1>4, <1>1 DEF Leave
    <2>2. size \in Int /\ 1 <= size /\ size <= MaxFrame /\ MaxFrame \in Int
        BY FrameAssumption
    <2>3. act.programStack + size \in Int
          /\ act.programStack + size <= act.stackOnEntry - EntryFrame
        BY <1>1, <2>1, <2>2, StackAssumption
    <2>4. DebugVm => act.programStack + size > StackBottom - MaxFrame
        BY <1>1, <2>1, <2>2, StackAssumption DEF FetchPasses, StackBottom
    <2>5. UNCHANGED << programStack, currentlyInterpreting, callLevel, errors,
                       faulted >>
        BY <1>4 DEF Leave
    <2>6. QED BY <2>1, <2>3, <2>4, <2>5, MoveStep
<1>5. ASSUME NEW size \in FrameSizes, Done(size) PROVE Inv'
    <2>1. Running /\ programStack' = act.stackOnEntry
        BY <1>5, <1>1 DEF Done
    <2>2. lastError' \in vmErrorCode_t /\ reported' \in vmErrorCode_t
        BY <1>5, Codes DEF Done, Report, errors, Inv, TypeOK
    <2>3. QED BY <1>5, <2>1, <2>2, ReturnStep DEF Done, Inv, TypeOK
<1>6. CASE SystemCall
    <2>1. Running /\ FetchPasses(act.programStack)
          /\ programStack' = act.programStack - 4
          /\ acts' = [acts EXCEPT ![Len(acts)].inSyscall = TRUE]
          /\ UNCHANGED << currentlyInterpreting, callLevel, errors, faulted >>
        BY <1>6, <1>1 DEF SystemCall, EnterHost
    <2>2. acts # << >>
        BY <2>1 DEF Running
    <2>3. QED BY <2>1, <2>2, SwitchStep
<1>7. CASE SystemReturn
    BY <1>7, SwitchStep DEF SystemReturn, LeaveHost
<1>8. CASE BlockCopyError
    BY <1>8, ReportStep, Codes DEF BlockCopyError, Report, Inv, TypeOK
<1>9. CASE RangeRejected
    BY <1>9, ReportStep, Codes DEF RangeRejected, Inv, TypeOK
<1>10. CASE StackOverflow
    BY <1>10, ErrorReturnStep, Codes DEF StackOverflow
<1>11. CASE ProgramFault
    BY <1>11, ErrorReturnStep, Codes DEF ProgramFault
<1>12. CASE UNCHANGED vars
    BY <1>12, ReportStep DEF vars, Inv, TypeOK
<1>13. QED
    BY <1>2, <1>3, <1>4, <1>5, <1>6, <1>7, <1>8, <1>9, <1>10, <1>11, <1>12
    DEF Next

THEOREM Invariance == Spec => []Inv
    BY InitInv, NextInv, PTL DEF Spec

-----------------------------------------------------------------------------

(* The types hold.                                                          *)
THEOREM TypeCorrect == Spec => []TypeOK
<1>1. Inv => TypeOK
    BY DEF Inv
<1>2. QED BY <1>1, Invariance, PTL

(* callLevel counts the activations, through every mix of returns, nested   *)
(* calls and errors.                                                        *)
THEOREM LevelsCounted == Spec => []LevelCountsActivations
<1>1. Inv => LevelCountsActivations
    BY DEF Inv
<1>2. QED BY <1>1, Invariance, PTL

(* A nested VM_Call pushes below every open frame, for any nesting, any     *)
(* frame sizes, and after any number of calls that returned through errors. *)
THEOREM NestingDisjoint == Spec => []NestedBelow
<1>1. Inv => NestedBelow
    BY DEF Inv
<1>2. QED BY <1>1, Invariance, PTL

(* Without a fault the host finds the stack pointer where it left it.       *)
THEOREM StackBalanced == Spec => []StackRestored
<1>1. Inv => StackRestored
    BY DEF Inv
<1>2. QED BY <1>1, Invariance, PTL

(* A frame overshoots stackBottom by less than the memory below it.         *)
LEMMA OvershootInImage == Inv => FramesInImage
<1> SUFFICES ASSUME Inv, DebugVm PROVE FramesInImage
    BY DEF FramesInImage
<1>1. /\ StackBottom >= MaxFrame /\ StackBottom \in Int
      /\ MaxFrame >= 4 /\ MaxFrame \in Int
    BY StackAssumption, FrameAssumption, RoomAssumption DEF StackBottom
<1>2. programStack \in Int /\ programStack >= 0
    BY <1>1 DEF Inv, TypeOK, Overshoot
<1>3. ASSUME NEW i \in 1 .. Len(acts) PROVE acts[i].programStack >= 0
    <2>1. acts[i].programStack \in Int
        BY Fields DEF Inv
    <2>2. QED BY <1>1, <2>1, FrameAssumption DEF Inv, Overshoot
<1>4. QED BY <1>2, <1>3 DEF FramesInImage

(* The DEBUG_VM check, made one instruction late, still keeps every frame   *)
(* inside the image.                                                        *)
THEOREM DebugFramesInImage == Spec => []FramesInImage
    BY OvershootInImage, Invariance, PTL

-----------------------------------------------------------------------------
(* The life cycle.                                                          *)

(* The vm_t can be called.                                                  *)
Loaded == codeLength /\ creating = "no"

Sections == AllocTypes \ {"VM_ALLOC_DEBUG"}

(* What each phase of VM_Create has allocated so far and stored in the vm_t. *)
OwnedByPhase ==
    /\ creating = "no" /\ ~ codeLength => owned = Nothing
    /\ creating = "load" => owned = Nothing
    /\ creating = "pointers" =>
          /\ owned["VM_ALLOC_DATA_SEC"] = 1
          /\ owned["VM_ALLOC_INSTRUCTION_POINTERS"] = 0
          /\ owned["VM_ALLOC_CODE_SEC"] = 0
    /\ creating = "prepare" =>
          /\ owned["VM_ALLOC_DATA_SEC"] = 1
          /\ owned["VM_ALLOC_INSTRUCTION_POINTERS"] = 1
          /\ owned["VM_ALLOC_CODE_SEC"] = 0
    /\ Loaded \/ creating \in {"translate", "symbols"} =>
          \A t \in Sections : owned[t] = 1

(* codeLength is set by the time the code is allocated.                     *)
LengthByPhase ==
    /\ creating \in {"load", "pointers"} => ~ codeLength
    /\ creating \in {"prepare", "translate", "symbols"} => codeLength

(* Nothing runs in a vm_t that is not loaded.                               *)
IdleUnlessLoaded == ~ Loaded => acts = << >> /\ callLevel = 0

(* The inductive invariant.                                                 *)
LifecycleInv ==
    /\ LifecycleTypeOK
    /\ BlocksAccounted
    /\ mapFile = (creating = "symbols")
    /\ OwnedByPhase
    /\ LengthByPhase
    /\ IdleUnlessLoaded
    /\ Loaded => Inv

-----------------------------------------------------------------------------

(* The errors a step can report are codes of vmErrorCode_t.                 *)
LEMMA CreateCodes ==
    /\ VM_INVALID_POINTER \in vmErrorCode_t
    /\ VM_NO_SYSCALL_CALLBACK \in vmErrorCode_t
    /\ VM_FAILED_TO_LOAD_BYTECODE \in vmErrorCode_t
    /\ VM_MALLOC_FAILED \in vmErrorCode_t
    /\ VM_FREE_ON_RUNNING_VM \in vmErrorCode_t
    /\ VM_NOT_LOADED \in vmErrorCode_t
    /\ VM_JUMP_TO_INVALID_INSTRUCTION \in vmErrorCode_t
    BY DEF vmErrorCode_t, VM_INVALID_POINTER, VM_NO_SYSCALL_CALLBACK,
           VM_FAILED_TO_LOAD_BYTECODE, VM_MALLOC_FAILED, VM_FREE_ON_RUNNING_VM,
           VM_NOT_LOADED, VM_JUMP_TO_INVALID_INSTRUCTION

LEMMA Types ==
    /\ "VM_ALLOC_CODE_SEC" \in Sections /\ "VM_ALLOC_DATA_SEC" \in Sections
    /\ "VM_ALLOC_INSTRUCTION_POINTERS" \in Sections
    /\ "VM_ALLOC_DEBUG" \in AllocTypes
    /\ Sections = {"VM_ALLOC_CODE_SEC", "VM_ALLOC_DATA_SEC",
                   "VM_ALLOC_INSTRUCTION_POINTERS"}
    /\ Sections \subseteq AllocTypes
    BY DEF Sections, AllocTypes

(* The stack that VM_Create leaves is the one the protocol begins with.     *)
AtRest == TypeOK /\ acts = << >> /\ callLevel = 0 /\ programStack = StackTop

LEMMA Ready == AtRest => Inv
<1> SUFFICES ASSUME AtRest PROVE Inv
    OBVIOUS
<1> USE DEF AtRest
<1>1. Len(acts) = 0
    BY EmptySeq
<1>2. QED
    BY <1>1, StackAssumption, RoomAssumption
    DEF Inv, LevelCountsActivations, NestedBelow, StackNotRaised,
        StackRestored, NestedExactly, Overshoot, StackBottom

(* A zeroed vm_t of a host that has allocated nothing.                      *)
LEMMA LifecycleInitInv == LifecycleInit => LifecycleInv
<1> SUFFICES ASSUME LifecycleInit PROVE LifecycleInv
    OBVIOUS
<1>1. TypeOK
    <2>1. acts \in Seq(Activation)
        BY EmptySeq DEF LifecycleInit
    <2>2. programStack \in Int /\ callLevel \in Nat
        BY DEF LifecycleInit
    <2>3. lastError \in vmErrorCode_t /\ reported \in vmErrorCode_t
        BY Codes DEF LifecycleInit
    <2>4. QED BY <2>1, <2>2, <2>3 DEF LifecycleInit, TypeOK
<1>2. Nothing \in [AllocTypes -> Nat] /\ \A t \in AllocTypes : Nothing[t] = 0
    BY DEF Nothing
<1>3. LifecycleTypeOK
    BY <1>1, <1>2 DEF LifecycleInit, LifecycleTypeOK, Phases
<1>4. BlocksAccounted
    BY <1>2 DEF LifecycleInit, BlocksAccounted
<1>5. QED
    BY <1>3, <1>4
    DEF LifecycleInit, LifecycleInv, OwnedByPhase, LengthByPhase,
        IdleUnlessLoaded, Loaded

-----------------------------------------------------------------------------

(* The host hears of an error, and may find it in the vm_t: nothing else    *)
(* changes.                                                                 *)
LEMMA HearStep ==
    ASSUME LifecycleInv,
           UNCHANGED << programStack, currentlyInterpreting, callLevel, acts,
                        faulted, lifecycle >>,
           lastError' \in vmErrorCode_t, reported' \in vmErrorCode_t
    PROVE  LifecycleInv'
<1>1. LifecycleTypeOK' /\ BlocksAccounted'
    BY DEF LifecycleInv, LifecycleTypeOK, TypeOK, BlocksAccounted, lifecycle
<1>2. Loaded' => Inv'
    BY ReportStep DEF LifecycleInv, LifecycleTypeOK, TypeOK, Loaded, lifecycle
<1>3. QED
    BY <1>1, <1>2
    DEF LifecycleInv, OwnedByPhase, LengthByPhase, IdleUnlessLoaded, Loaded,
        lifecycle

(* A step of VM_Create that fails changes no block, and VM_Create has        *)
(* nothing running.                                                         *)
LEMMA FailStep ==
    ASSUME LifecycleInv, creating \in {"load", "pointers", "prepare", "translate"},
           Failed, lastError' \in vmErrorCode_t, reported' \in vmErrorCode_t
    PROVE  LifecycleInv'
<1>1. LifecycleTypeOK' /\ BlocksAccounted'
    BY DEF LifecycleInv, LifecycleTypeOK, TypeOK, BlocksAccounted, Failed, Phases
<1>2. QED
    BY <1>1
    DEF LifecycleInv, OwnedByPhase, LengthByPhase, IdleUnlessLoaded, Loaded,
        Failed

(* What Com_malloc gives is counted where it is stored.                     *)
LEMMA AllocateFacts ==
    ASSUME LifecycleInv, NEW t \in AllocTypes, Allocate(t)
    PROVE  /\ owned' \in [AllocTypes -> Nat] /\ live' \in [AllocTypes -> Nat]
           /\ owned'[t] = owned[t] + 1 /\ live'[t] = live[t] + 1
           /\ \A u \in AllocTypes \ {t} : owned'[u] = owned[u] /\ live'[u] = live[u]
    BY DEF LifecycleInv, LifecycleTypeOK, Allocate

(* An allocation inside VM_Create keeps the accounts.                       *)
LEMMA AllocateStep ==
    ASSUME LifecycleInv, NEW t \in AllocTypes, Allocate(t),
           creating' \in Phases \ {"no"}, codeLength' \in BOOLEAN,
           UNCHANGED << vars, mapFile >>
    PROVE  LifecycleTypeOK' /\ BlocksAccounted'
<1>1. LifecycleTypeOK'
    BY AllocateFacts DEF LifecycleInv, LifecycleTypeOK, TypeOK, vars
<1>2. \A u \in AllocTypes : live[u] \in Nat /\ owned[u] \in Nat
    BY DEF LifecycleInv, LifecycleTypeOK
<1>3. \A u \in AllocTypes :
         live'[u] = owned'[u] + IF u = "VM_ALLOC_DEBUG" /\ mapFile' THEN 1 ELSE 0
    <2> SUFFICES ASSUME NEW u \in AllocTypes
                 PROVE  live'[u] = owned'[u] +
                           IF u = "VM_ALLOC_DEBUG" /\ mapFile' THEN 1 ELSE 0
        OBVIOUS
    <2>1. live[u] = owned[u] + IF u = "VM_ALLOC_DEBUG" /\ mapFile THEN 1 ELSE 0
        BY DEF LifecycleInv, BlocksAccounted
    <2>2. CASE u = t
        BY <1>2, <2>1, <2>2, AllocateFacts
    <2>3. CASE u # t
        BY <1>2, <2>1, <2>3, AllocateFacts
    <2>4. QED BY <2>2, <2>3
<1>4. QED BY <1>1, <1>3 DEF BlocksAccounted

(* VM_Create ends: the vm_t has all its sections, an empty stack and, its    *)
(* .map file released, nothing else.                                        *)
LEMMA CreatedStep ==
    ASSUME LifecycleInv, Created, creating \in {"translate", "symbols"},
           mapFile' = FALSE, reported' \in vmErrorCode_t,
           UNCHANGED << owned, codeLength >>,
           live' = [t \in AllocTypes |-> owned[t]]
    PROVE  LifecycleInv'
<1>1. codeLength /\ acts = << >> /\ callLevel = 0
    BY DEF LifecycleInv, LengthByPhase, IdleUnlessLoaded, Loaded
<1>2. TypeOK' /\ LifecycleTypeOK'
    <2>1. programStack' \in Int
        BY StackAssumption DEF Created
    <2>2. TypeOK'
        BY <2>1 DEF LifecycleInv, LifecycleTypeOK, TypeOK, Created
    <2>3. live' \in [AllocTypes -> Nat]
        BY DEF LifecycleInv, LifecycleTypeOK
    <2>4. creating' \in Phases /\ mapFile' \in BOOLEAN
        BY DEF Created, Phases
    <2>5. QED
        BY <2>2, <2>3, <2>4 DEF LifecycleInv, LifecycleTypeOK
<1>3. BlocksAccounted'
    <2>1. \A t \in AllocTypes : owned[t] \in Nat
        BY DEF LifecycleInv, LifecycleTypeOK
    <2>2. QED BY <1>1, <2>1 DEF BlocksAccounted, Created
<1>4. \A t \in Sections : owned'[t] = 1
    BY DEF LifecycleInv, OwnedByPhase
<1>5. Inv'
    <2>1. AtRest'
        BY <1>1, <1>2 DEF AtRest, Created
    <2>2. QED BY <2>1, Ready, PTL
<1>6. OwnedByPhase' /\ LengthByPhase' /\ creating' = "no"
    BY <1>1, <1>4 DEF OwnedByPhase, LengthByPhase, Loaded, Created
<1>7. IdleUnlessLoaded'
    BY <1>1 DEF IdleUnlessLoaded, Created
<1>8. QED
    BY <1>2, <1>3, <1>5, <1>6, <1>7 DEF LifecycleInv

(* VM_Free gives back all the blocks there are.                             *)
LEMMA FreeStep ==
    ASSUME LifecycleInv, FreeAll, creating \in {"no", "failed"},
           acts = << >>, creating' = "no", UNCHANGED << acts, reported, mapFile >>
    PROVE  LifecycleInv'
<1>1. ~ mapFile
    BY DEF LifecycleInv
<1>2. \A t \in AllocTypes : live[t] \in Nat /\ owned[t] \in Nat /\ live[t] = owned[t]
    BY <1>1 DEF LifecycleInv, LifecycleTypeOK, BlocksAccounted
<1>3. live' = Nothing
    BY <1>2 DEF FreeAll, Nothing
<1>4. Nothing \in [AllocTypes -> Nat] /\ \A t \in AllocTypes : Nothing[t] = 0
    BY DEF Nothing
<1>5. LifecycleTypeOK'
    <2>1. lastError' \in vmErrorCode_t
        BY Codes DEF FreeAll
    <2>2. programStack' \in Int /\ callLevel' \in Nat
        BY DEF FreeAll
    <2>3. TypeOK'
        BY <2>1, <2>2 DEF LifecycleInv, LifecycleTypeOK, TypeOK, FreeAll
    <2>4. QED
        BY <1>3, <1>4, <2>3 DEF LifecycleInv, LifecycleTypeOK, FreeAll, Phases
<1>6. BlocksAccounted'
    BY <1>1, <1>3, <1>4 DEF BlocksAccounted, FreeAll
<1>7. QED
    BY <1>1, <1>5, <1>6
    DEF LifecycleInv, OwnedByPhase, LengthByPhase, IdleUnlessLoaded, Loaded,
        FreeAll

(* The host begins to create a vm_t that owns nothing.                      *)
LEMMA CreateBeginStep == LifecycleInv /\ CreateBegin => LifecycleInv'
<1> SUFFICES ASSUME LifecycleInv, CreateBegin PROVE LifecycleInv'
    OBVIOUS
<1>1. creating = "no" /\ ~ codeLength /\ owned = Nothing /\ ~ mapFile
    BY DEF LifecycleInv, OwnedByPhase, CreateBegin, HostFree
<1>2. acts = << >>
    BY <1>1 DEF LifecycleInv, IdleUnlessLoaded, Loaded
<1>3. LifecycleTypeOK'
    <2>1. lastError' \in vmErrorCode_t
        BY Codes DEF CreateBegin
    <2>2. programStack' \in Int /\ callLevel' \in Nat
        BY DEF CreateBegin
    <2>3. TypeOK'
        BY <2>1, <2>2 DEF LifecycleInv, LifecycleTypeOK, TypeOK, CreateBegin
    <2>4. QED
        BY <1>1, <2>3 DEF LifecycleInv, LifecycleTypeOK, CreateBegin, Phases
<1>4. BlocksAccounted'
    BY <1>1 DEF LifecycleInv, BlocksAccounted, CreateBegin
<1>5. QED
    BY <1>1, <1>2, <1>3, <1>4
    DEF LifecycleInv, OwnedByPhase, LengthByPhase, IdleUnlessLoaded, Loaded,
        CreateBegin

LEMMA LoadQVMStep == LifecycleInv /\ LoadQVM => LifecycleInv'
<1> SUFFICES ASSUME LifecycleInv, LoadQVM PROVE LifecycleInv'
    OBVIOUS
<1> DEFINE t == "VM_ALLOC_DATA_SEC"
<1>1. ASSUME Allocate(t), creating' = "pointers",
             UNCHANGED << vars, mapFile, codeLength >>
      PROVE  LifecycleInv'
    <2>1. LifecycleTypeOK' /\ BlocksAccounted'
        BY <1>1, AllocateStep, Types DEF Phases, LifecycleInv, LifecycleTypeOK
    <2>2. \A u \in AllocTypes : owned[u] = 0
        BY DEF LoadQVM, LifecycleInv, OwnedByPhase, Nothing
    <2>3. /\ owned'["VM_ALLOC_DATA_SEC"] = 1
          /\ owned'["VM_ALLOC_INSTRUCTION_POINTERS"] = 0
          /\ owned'["VM_ALLOC_CODE_SEC"] = 0
        BY <1>1, <2>2, AllocateFacts DEF AllocTypes
    <2>4. UNCHANGED << acts, callLevel >> /\ creating = "load" /\ ~ mapFile
        BY <1>1 DEF vars, LoadQVM, LifecycleInv
    <2>5. QED
        BY <1>1, <2>1, <2>3, <2>4
        DEF LifecycleInv, OwnedByPhase, LengthByPhase, IdleUnlessLoaded, Loaded
<1>2. CASE FailStoring(VM_FAILED_TO_LOAD_BYTECODE)
    BY <1>2, FailStep, CreateCodes DEF LoadQVM, FailStoring, Report
<1>3. QED BY <1>1, <1>2 DEF LoadQVM

LEMMA AllocatePointersStep == LifecycleInv /\ AllocatePointers => LifecycleInv'
<1> SUFFICES ASSUME LifecycleInv, AllocatePointers PROVE LifecycleInv'
    OBVIOUS
<1> DEFINE t == "VM_ALLOC_INSTRUCTION_POINTERS"
<1>1. ASSUME Allocate(t), creating' = "prepare", codeLength' = TRUE,
             UNCHANGED << vars, mapFile >>
      PROVE  LifecycleInv'
    <2>1. LifecycleTypeOK' /\ BlocksAccounted'
        BY <1>1, AllocateStep, Types DEF Phases
    <2>2. creating = "pointers" /\ ~ mapFile
        BY DEF AllocatePointers, LifecycleInv
    <2>3. /\ owned'["VM_ALLOC_DATA_SEC"] = 1
          /\ owned'["VM_ALLOC_INSTRUCTION_POINTERS"] = 1
          /\ owned'["VM_ALLOC_CODE_SEC"] = 0
        BY <1>1, <2>2, AllocateFacts DEF AllocTypes, LifecycleInv, OwnedByPhase
    <2>4. UNCHANGED << acts, callLevel >>
        BY <1>1 DEF vars
    <2>5. QED
        BY <1>1, <2>1, <2>2, <2>3, <2>4
        DEF LifecycleInv, OwnedByPhase, LengthByPhase, IdleUnlessLoaded, Loaded
<1>2. CASE FailStoring(VM_MALLOC_FAILED)
    BY <1>2, FailStep, CreateCodes DEF AllocatePointers, FailStoring, Report
<1>3. QED BY <1>1, <1>2 DEF AllocatePointers

LEMMA AllocateCodeStep == LifecycleInv /\ AllocateCode => LifecycleInv'
<1> SUFFICES ASSUME LifecycleInv, AllocateCode PROVE LifecycleInv'
    OBVIOUS
<1> DEFINE t == "VM_ALLOC_CODE_SEC"
<1>1. ASSUME Allocate(t), creating' = "translate",
             UNCHANGED << vars, mapFile, codeLength >>
      PROVE  LifecycleInv'
    <2>1. LifecycleTypeOK' /\ BlocksAccounted'
        BY <1>1, AllocateStep, Types DEF Phases, LifecycleInv, LifecycleTypeOK
    <2>2. creating = "prepare" /\ ~ mapFile
        BY DEF AllocateCode, LifecycleInv
    <2>3. \A u \in Sections : owned'[u] = 1
        BY <1>1, <2>2, AllocateFacts DEF AllocTypes, Sections, LifecycleInv, OwnedByPhase
    <2>4. UNCHANGED << acts, callLevel >>
        BY <1>1 DEF vars
    <2>5. QED
        BY <1>1, <2>1, <2>2, <2>3, <2>4
        DEF LifecycleInv, OwnedByPhase, LengthByPhase, IdleUnlessLoaded, Loaded
<1>2. CASE FailReporting(VM_MALLOC_FAILED)
    BY <1>2, FailStep, CreateCodes
    DEF AllocateCode, FailReporting, LifecycleInv, LifecycleTypeOK, TypeOK
<1>3. QED BY <1>1, <1>2 DEF AllocateCode

(* The .map file is taken into memory: one block the vm_t does not own.     *)
LEMMA MapFileStep ==
    ASSUME LifecycleInv, creating = "translate", creating' = "symbols",
           mapFile' = TRUE,
           live' = [live EXCEPT !["VM_ALLOC_DEBUG"] = @ + 1],
           UNCHANGED << vars, owned, codeLength >>
    PROVE  LifecycleInv'
<1>1. ~ mapFile /\ codeLength
    BY DEF LifecycleInv, LengthByPhase
<1>2. LifecycleTypeOK'
    BY <1>1, Types DEF LifecycleInv, LifecycleTypeOK, TypeOK, vars, Phases
<1>3. BlocksAccounted'
    BY <1>1, Types DEF LifecycleInv, LifecycleTypeOK, BlocksAccounted
<1>4. UNCHANGED << acts, callLevel >>
    BY DEF vars
<1>5. QED
    BY <1>1, <1>2, <1>3, <1>4
    DEF LifecycleInv, OwnedByPhase, LengthByPhase, IdleUnlessLoaded, Loaded

LEMMA TranslateStep == LifecycleInv /\ Translate => LifecycleInv'
<1> SUFFICES ASSUME LifecycleInv, Translate PROVE LifecycleInv'
    OBVIOUS
<1>1. creating = "translate" /\ mapFile = FALSE
    BY DEF Translate, LifecycleInv
<1>2. ASSUME Created, UNCHANGED << reported, owned, live, mapFile, codeLength >>
      PROVE  LifecycleInv'
    <2>1. live = [t \in AllocTypes |-> owned[t]]
        BY <1>1 DEF LifecycleInv, LifecycleTypeOK, BlocksAccounted
    <2>2. reported' \in vmErrorCode_t
        BY <1>2 DEF LifecycleInv, LifecycleTypeOK, TypeOK
    <2>3. QED BY <1>1, <1>2, <2>1, <2>2, CreatedStep
<1>3. ASSUME NEW level \in vmErrorCode_t, FailStoring(level) PROVE LifecycleInv'
    BY <1>1, <1>3, FailStep DEF FailStoring, Report
<1>4. {VM_PC_OUT_OF_RANGE, VM_BAD_INSTRUCTION, VM_JUMP_TO_INVALID_INSTRUCTION}
         \subseteq vmErrorCode_t
    BY Codes, CreateCodes
<1>5. QED BY <1>1, <1>2, <1>3, <1>4, MapFileStep DEF Translate

LEMMA LoadSymbolStep == LifecycleInv /\ LoadSymbol => LifecycleInv'
<1> SUFFICES ASSUME LifecycleInv, LoadSymbol PROVE LifecycleInv'
    OBVIOUS
<1> DEFINE t == "VM_ALLOC_DEBUG"
<1>1. LifecycleTypeOK' /\ BlocksAccounted'
    BY AllocateStep, Types DEF LoadSymbol, Phases, LifecycleInv, LifecycleTypeOK
<1>2. \A u \in Sections : owned'[u] = owned[u]
    BY AllocateFacts, Types DEF LoadSymbol, Sections
<1>3. UNCHANGED << acts, callLevel, creating, codeLength, mapFile >>
      /\ creating = "symbols"
    BY DEF LoadSymbol, vars
<1>4. QED
    BY <1>1, <1>2, <1>3
    DEF LifecycleInv, OwnedByPhase, LengthByPhase, IdleUnlessLoaded, Loaded

LEMMA SymbolsDoneStep == LifecycleInv /\ SymbolsDone => LifecycleInv'
<1> SUFFICES ASSUME LifecycleInv, SymbolsDone PROVE LifecycleInv'
    OBVIOUS
<1>1. creating = "symbols" /\ mapFile
    BY DEF SymbolsDone, LifecycleInv
<1>2. live' = [t \in AllocTypes |-> owned[t]]
    <2>1. \A t \in AllocTypes : owned[t] \in Nat /\ live[t] \in Nat
        BY DEF LifecycleInv, LifecycleTypeOK
    <2>2. \A t \in AllocTypes :
             live[t] = owned[t] + IF t = "VM_ALLOC_DEBUG" THEN 1 ELSE 0
        BY <1>1 DEF LifecycleInv, BlocksAccounted
    <2>3. /\ DOMAIN live = AllocTypes
          /\ live' = [live EXCEPT !["VM_ALLOC_DEBUG"] = @ - 1]
        BY DEF SymbolsDone, LifecycleInv, LifecycleTypeOK
    <2>4. live' = [t \in AllocTypes |->
                     IF t = "VM_ALLOC_DEBUG" THEN live[t] - 1 ELSE live[t]]
        BY <2>3
    <2>5. QED BY <2>1, <2>2, <2>4
<1>3. reported' \in vmErrorCode_t
    BY CreateCodes DEF SymbolsDone, LifecycleInv, LifecycleTypeOK, TypeOK
<1>4. QED BY <1>1, <1>2, <1>3, CreatedStep DEF SymbolsDone

(* A step of the loaded virtual machine touches no block.                   *)
LEMMA ProtocolStepStep == LifecycleInv /\ ProtocolStep => LifecycleInv'
<1> SUFFICES ASSUME LifecycleInv, ProtocolStep PROVE LifecycleInv'
    OBVIOUS
<1>1. Loaded /\ Loaded'
    BY DEF ProtocolStep, Loaded, lifecycle
<1>2. Inv'
    BY <1>1, NextInv DEF ProtocolStep, LifecycleInv
<1>3. QED
    BY <1>1, <1>2
    DEF LifecycleInv, LifecycleTypeOK, Inv, BlocksAccounted, OwnedByPhase,
        LengthByPhase, IdleUnlessLoaded, Loaded, ProtocolStep, lifecycle

(* Every step keeps the inductive invariant.                                *)
LEMMA LifecycleNextInv == LifecycleInv /\ [LifecycleNext]_allVars => LifecycleInv'
<1> SUFFICES ASSUME LifecycleInv, [LifecycleNext]_allVars PROVE LifecycleInv'
    OBVIOUS
<1>1. lastError \in vmErrorCode_t /\ reported \in vmErrorCode_t
    BY DEF LifecycleInv, LifecycleTypeOK, TypeOK
<1>2. CASE NullVm
    BY <1>1, <1>2, HearStep, CreateCodes DEF NullVm
<1>3. CASE CreateNoSystemCalls
    BY <1>3, HearStep, CreateCodes DEF CreateNoSystemCalls, Report
<1>4. CASE VM_FreeRefused
    BY <1>4, HearStep, CreateCodes DEF VM_FreeRefused, Report
<1>5. CASE VM_CallUnloaded
    BY <1>5, HearStep, CreateCodes DEF VM_CallUnloaded, Report
<1>6. CASE CreateFails
    BY <1>6, FreeStep DEF CreateFails, LifecycleInv, IdleUnlessLoaded, Loaded
<1>7. CASE VM_Free
    <2>1. acts = << >>
        <3>1. CASE Loaded
            <4>1. Len(acts) = 0 /\ acts \in Seq(Activation)
                BY <1>7, <3>1 DEF VM_Free, LifecycleInv, Inv, TypeOK,
                                  LevelCountsActivations
            <4>2. QED BY <4>1, EmptySeq
        <3>2. QED BY <3>1 DEF LifecycleInv, IdleUnlessLoaded
    <2>2. QED BY <1>7, <2>1, FreeStep DEF VM_Free, HostFree
<1>8. CASE UNCHANGED allVars
    BY <1>1, <1>8, HearStep DEF allVars, vars
<1>9. QED
    BY <1>2, <1>3, <1>4, <1>5, <1>6, <1>7, <1>8, CreateBeginStep, LoadQVMStep,
       AllocatePointersStep, AllocateCodeStep, TranslateStep, LoadSymbolStep,
       SymbolsDoneStep, ProtocolStepStep
    DEF LifecycleNext

(* The inductive invariant holds.                                           *)
THEOREM LifecycleInvariance == LifecycleSpec => []LifecycleInv
    BY LifecycleInitInv, LifecycleNextInv, PTL DEF LifecycleSpec

-----------------------------------------------------------------------------

(* The types hold.                                                          *)
THEOREM LifecycleTypeCorrect == LifecycleSpec => []LifecycleTypeOK
<1>1. LifecycleInv => LifecycleTypeOK
    BY DEF LifecycleInv
<1>2. QED BY <1>1, LifecycleInvariance, PTL

(* On no path through VM_Create, with or without memory, with a good file   *)
(* or a bad one, is a block lost, and VM_Free gives back every one.          *)
THEOREM NoBlockLost == LifecycleSpec => []BlocksAccounted
<1>1. LifecycleInv => BlocksAccounted
    BY DEF LifecycleInv
<1>2. QED BY <1>1, LifecycleInvariance, PTL

(* Whatever the host does inside its system calls, an activation of         *)
(* VM_CallInterpreted has its code, data and instruction table.             *)
THEOREM RunningHasSections == LifecycleSpec => []RunningIsLoaded
<1>1. LifecycleInv => RunningIsLoaded
    <2> SUFFICES ASSUME LifecycleInv, acts # << >>
                 PROVE  /\ codeLength /\ creating = "no" /\ callLevel = Len(acts)
                        /\ \A t \in AllocTypes \ {"VM_ALLOC_DEBUG"} : owned[t] = 1
        BY DEF RunningIsLoaded
    <2>1. Loaded
        BY DEF LifecycleInv, IdleUnlessLoaded
    <2>2. callLevel = Len(acts)
        BY <2>1 DEF LifecycleInv, Inv, LevelCountsActivations
    <2>3. QED BY <2>1, <2>2 DEF LifecycleInv, OwnedByPhase, Loaded, Sections
<1>2. QED BY <1>1, LifecycleInvariance, PTL

(* VM_Create hands the calls the state they rely on: while the vm_t is       *)
(* loaded, after any number of reloads, levels count activations, nested     *)
(* calls stay below the frames of their callers, the stack is balanced, and *)
(* a DEBUG_VM build keeps every frame in the image.                         *)
LoadedProtocol ==
    Loaded => /\ LevelCountsActivations /\ NestedBelow /\ StackRestored
              /\ FramesInImage

(* The invariants of the protocol hold for every vm_t VM_Create made ready. *)
THEOREM ProtocolWhileLoaded == LifecycleSpec => []LoadedProtocol
<1>1. LifecycleInv => LoadedProtocol
    BY OvershootInImage DEF LifecycleInv, Inv, LoadedProtocol
<1>2. QED BY <1>1, LifecycleInvariance, PTL

(* No step frees, replaces or adds a block, or begins a VM_Create, while an *)
(* activation of VM_CallInterpreted is on the C stack: every VM_Free and     *)
(* VM_Create the host tries from a system call is refused or not possible.  *)
KeptWhileRunning ==
    [][acts # << >> => UNCHANGED << creating, owned, live, mapFile, codeLength >>]_allVars

(* The blocks of a running vm_t stay as they are.                           *)
THEOREM BlocksKeptWhileRunning == LifecycleSpec => KeptWhileRunning
<1>1. LifecycleInv /\ [LifecycleNext]_allVars
         => [acts # << >> => UNCHANGED << creating, owned, live, mapFile,
                                          codeLength >>]_allVars
    <2> SUFFICES ASSUME LifecycleInv, [LifecycleNext]_allVars, acts # << >>
                 PROVE  UNCHANGED << creating, owned, live, mapFile, codeLength >>
        OBVIOUS
    <2>1. Loaded
        BY DEF LifecycleInv, IdleUnlessLoaded
    <2>2. callLevel > 0
        BY <2>1, Innermost DEF LifecycleInv, Inv, LevelCountsActivations
    <2>3. ~ (CreateBegin \/ LoadQVM \/ AllocatePointers \/ AllocateCode
             \/ Translate \/ LoadSymbol \/ SymbolsDone \/ CreateFails \/ VM_Free)
        BY <2>1, <2>2
        DEF Loaded, CreateBegin, LoadQVM, AllocatePointers, AllocateCode,
            Translate, LoadSymbol, SymbolsDone, CreateFails, VM_Free
    <2>4. CASE NullVm \/ CreateNoSystemCalls \/ VM_FreeRefused
               \/ VM_CallUnloaded \/ ProtocolStep
        BY <2>4 DEF NullVm, CreateNoSystemCalls, VM_FreeRefused,
                    VM_CallUnloaded, ProtocolStep, lifecycle
    <2>5. CASE UNCHANGED allVars
        BY <2>5 DEF allVars, lifecycle
    <2>6. QED BY <2>3, <2>4, <2>5 DEF LifecycleNext
<1>2. QED BY <1>1, LifecycleInvariance, PTL DEF LifecycleSpec, KeptWhileRunning

=============================================================================
