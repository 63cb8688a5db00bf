------------------------- MODULE InterpreterProofs ---------------------------
(***************************************************************************)
(* Proofs about Interpreter for every program, every argument and every    *)
(* content of memory.  The first part assumes nothing of the words         *)
(* involved, so that it needs no typing of them; the second part is the     *)
(* typing: all that a program computes stays a word, all that it stores    *)
(* stays an image of bytes.                                                *)
(***************************************************************************)
EXTENDS Interpreter, WordLemmas

Locals == {"stackOnEntry", "programStack", "programCounter", "opStack",
           "opStackOfs", "r0", "r1", "at", "args", "result", "stomped",
           "entry", "frames"}

(* An activation has its locals, and opStackOfs is an index of opStack.     *)
Shape(a) ==
    /\ a = [f \in Locals |-> a[f]]
    /\ a.opStack = [k \in OpStackIndex |-> a.opStack[k]]
    /\ a.opStackOfs \in OpStackIndex

Coherent(a) ==
    /\ a.r0 = a.opStack[a.opStackOfs]
    /\ a.r1 = a.opStack[Slot(a.opStackOfs - 1)]

Sound(a) == Shape(a) /\ (a.at = "code" => Coherent(a))

(* The inductive invariant.                                                 *)
Inv ==
    /\ acts \in Seq({acts[i] : i \in DOMAIN acts})
    /\ \A i \in 1 .. Len(acts) : Sound(acts[i])
    /\ callLevel = Len(acts)

-----------------------------------------------------------------------------
(* opStackOfs wraps around within the operand stack.                        *)

LEMMA SlotInRange ==
    ASSUME NEW n \in Int
    PROVE  Slot(n) \in OpStackIndex
    BY InterpreterAssumption DEF Slot, OpStackIndex

LEMMA SlotOfIndex ==
    ASSUME NEW k \in OpStackIndex
    PROVE  Slot(k) = k /\ Slot(k + 0) = k
    BY InterpreterAssumption DEF Slot, OpStackIndex

LEMMA SlotPredecessor ==
    ASSUME NEW k \in OpStackIndex
    PROVE  Slot(k - 1) = IF k = 0 THEN OpStackSize - 1 ELSE k - 1
    BY InterpreterAssumption DEF Slot, OpStackIndex

LEMMA FirstSlot == 0 \in OpStackIndex /\ Slot(0 - 1) = OpStackSize - 1
<1>1. 0 \in OpStackIndex
    BY InterpreterAssumption DEF OpStackIndex
<1>2. QED BY <1>1, SlotPredecessor

LEMMA SlotBelow ==
    ASSUME NEW k \in OpStackIndex
    PROVE  /\ Slot(k - 1) # k
           /\ Slot(Slot(k + 1) - 1) = k
           /\ Slot(k + 1) # k
    BY InterpreterAssumption DEF Slot, OpStackIndex

-----------------------------------------------------------------------------
(* What the updates of an activation keep.                                  *)

LEMMA UpdateShape ==
    ASSUME NEW a, Shape(a), NEW f \in Locals \ {"opStack", "opStackOfs"}, NEW v
    PROVE  /\ Shape([a EXCEPT ![f] = v])
           /\ [a EXCEPT ![f] = v][f] = v
           /\ \A g \in Locals \ {f} : [a EXCEPT ![f] = v][g] = a[g]
    BY DEF Shape, Locals

LEMMA GotoShape ==
    ASSUME NEW a, Shape(a), NEW pc
    PROVE  /\ Shape(Goto(a, pc))
           /\ \A g \in Locals \ {"programCounter"} : Goto(a, pc)[g] = a[g]
    BY DEF Goto, Shape, Locals

LEMMA OverShape ==
    ASSUME NEW a, Shape(a), NEW ints
    PROVE  /\ Shape(Over(a, ints))
           /\ \A g \in Locals \ {"programCounter"} : Over(a, ints)[g] = a[g]
    BY DEF Over, Shape, Locals

LEMMA FramedShape ==
    ASSUME NEW a, Shape(a)
    PROVE  Shape(Framed(a))
    BY UpdateShape DEF Framed, Locals

LEMMA MovingShape ==
    ASSUME NEW a, Shape(a), NEW n \in Int
    PROVE  /\ Shape(Moving(a, n))
           /\ Moving(a, n).opStackOfs = Slot(a.opStackOfs + n)
           /\ \A g \in Locals \ {"opStackOfs"} : Moving(a, n)[g] = a[g]
<1>1. a.opStackOfs \in Int
    BY InterpreterAssumption DEF Shape, OpStackIndex
<1>2. Slot(a.opStackOfs + n) \in OpStackIndex
    BY <1>1, SlotInRange
<1>3. QED BY <1>2 DEF Shape, Moving, Locals

LEMMA SettingShape ==
    ASSUME NEW a, Shape(a), NEW n \in Int, NEW v
    PROVE  /\ Shape(Setting(a, n, v))
           /\ Setting(a, n, v).opStackOfs = Slot(a.opStackOfs + n)
           /\ Setting(a, n, v).opStack[Slot(a.opStackOfs + n)] = v
           /\ \A k \in OpStackIndex \ {Slot(a.opStackOfs + n)} :
                 Setting(a, n, v).opStack[k] = a.opStack[k]
           /\ \A g \in Locals \ {"opStackOfs", "opStack"} :
                 Setting(a, n, v)[g] = a[g]
<1> DEFINE m == Moving(a, n)
           s == Slot(a.opStackOfs + n)
<1>1. /\ Shape(m) /\ m.opStackOfs = s
      /\ \A g \in Locals \ {"opStackOfs"} : m[g] = a[g]
    BY MovingShape
<1>2. s \in OpStackIndex
    BY <1>1 DEF Shape
<1>3. m.opStack = a.opStack
    BY <1>1 DEF Locals
<1>4. Setting(a, n, v) = [m EXCEPT !.opStack = [m.opStack EXCEPT ![s] = v]]
    BY DEF Setting
<1> HIDE DEF m, s
<1>5. QED BY <1>1, <1>2, <1>3, <1>4 DEF Shape, Locals, m, s

(* DISPATCH leaves the registers coherent.                                  *)
LEMMA ReloadSound ==
    ASSUME NEW a, Shape(a)
    PROVE  Sound(Reload(a))
    BY DEF Reload, Sound, Shape, Coherent, Locals

(* So do CONST and LOCAL, which shift the registers themselves.             *)
LEMMA PushedSound ==
    ASSUME NEW a, Shape(a), Coherent(a), NEW v
    PROVE  Sound([Over(Setting(a, 1, v), 2) EXCEPT !.r0 = v, !.r1 = a.r0])
<1> DEFINE b == Over(Setting(a, 1, v), 2)
           c == [b EXCEPT !.r0 = v, !.r1 = a.r0]
           k == Slot(a.opStackOfs + 1)
<1>1. /\ Shape(Setting(a, 1, v)) /\ Setting(a, 1, v).opStackOfs = k
      /\ Setting(a, 1, v).opStack[k] = v
      /\ \A j \in OpStackIndex \ {k} : Setting(a, 1, v).opStack[j] = a.opStack[j]
    BY SettingShape
<1>2. /\ Shape(b) /\ b.opStack = Setting(a, 1, v).opStack
      /\ b.opStackOfs = Setting(a, 1, v).opStackOfs
    BY <1>1, OverShape DEF Locals
<1> HIDE DEF b
<1>3. /\ Shape(c) /\ c.r0 = v /\ c.r1 = a.r0
      /\ c.opStack = b.opStack /\ c.opStackOfs = b.opStackOfs
    BY <1>2 DEF Shape, Locals
<1>4. a.opStackOfs \in OpStackIndex
    BY DEF Shape
<1>5. Slot(k - 1) = a.opStackOfs /\ k # a.opStackOfs
    BY <1>4, SlotBelow
<1> HIDE DEF c, k
<1>6. c.opStack[c.opStackOfs] = v
    BY <1>1, <1>2, <1>3
<1>7. c.opStack[Slot(c.opStackOfs - 1)] = a.opStack[a.opStackOfs]
    BY <1>1, <1>2, <1>3, <1>4, <1>5
<1>8. Coherent(c)
    BY <1>3, <1>6, <1>7 DEF Coherent
<1>9. QED BY <1>3, <1>8 DEF Sound, c, b

(* So do the loads, which replace the top only.                             *)
LEMMA ReplacedSound ==
    ASSUME NEW a, Shape(a), Coherent(a), NEW v
    PROVE  Sound([Over(Setting(a, 0, v), 1) EXCEPT !.r0 = v])
<1> DEFINE b == Over(Setting(a, 0, v), 1)
           c == [b EXCEPT !.r0 = v]
           k == a.opStackOfs
<1>1. k \in OpStackIndex /\ Slot(k + 0) = k /\ Slot(k - 1) # k
    BY SlotOfIndex, SlotBelow DEF Shape
<1>2. Slot(k - 1) \in OpStackIndex
    BY <1>1, SlotInRange DEF OpStackIndex
<1>3. /\ Shape(Setting(a, 0, v)) /\ Setting(a, 0, v).opStackOfs = k
      /\ Setting(a, 0, v).opStack[k] = v
      /\ Setting(a, 0, v).opStack[Slot(k - 1)] = a.opStack[Slot(k - 1)]
      /\ Setting(a, 0, v).r1 = a.r1
    BY <1>1, <1>2, SettingShape DEF Locals
<1>4. /\ Shape(b) /\ b.opStack = Setting(a, 0, v).opStack
      /\ b.opStackOfs = k /\ b.r1 = a.r1
    BY <1>3, OverShape DEF Locals
<1> HIDE DEF b
<1>5. /\ Shape(c) /\ c.r0 = v /\ c.r1 = a.r1
      /\ c.opStack = b.opStack /\ c.opStackOfs = k
    BY <1>4 DEF Shape, Locals
<1> HIDE DEF c, k
<1>6. Coherent(c)
    BY <1>3, <1>4, <1>5 DEF Coherent, k
<1>7. QED BY <1>5, <1>6 DEF Sound, c, b

-----------------------------------------------------------------------------
(* What the steps do to the C stack of activations.                         *)

LEMMA OwnElements ==
    ASSUME NEW S, NEW s \in Seq(S)
    PROVE  s \in Seq({s[i] : i \in DOMAIN s})
<1>1. Len(s) \in Nat /\ s \in [1 .. Len(s) -> S] /\ DOMAIN s = 1 .. Len(s)
    BY LenProperties
<1>2. s \in [1 .. Len(s) -> {s[i] : i \in DOMAIN s}]
    BY <1>1
<1>3. QED BY <1>1, <1>2

LEMMA ActFacts ==
    ASSUME Inv, acts # << >>
    PROVE  /\ Len(acts) \in Nat /\ Len(acts) >= 1
           /\ Act = acts[Len(acts)]
           /\ Sound(Act)
<1>1. Len(acts) \in Nat /\ Len(acts) >= 1 /\ Act = acts[Len(acts)]
    BY LastFacts DEF Inv, Act
<1>2. QED BY <1>1 DEF Inv

LEMMA ContinueStep ==
    ASSUME Inv, acts # << >>, NEW a, Sound(a), Continue(a), callLevel' = callLevel
    PROVE  Inv'
<1> DEFINE S == {acts[i] : i \in DOMAIN acts} \cup {a}
<1>1. acts \in Seq(S)
    BY SeqMonotonic DEF Inv
<1>2. /\ acts' \in Seq(S) /\ Len(acts') = Len(acts)
      /\ \A i \in 1 .. Len(acts) - 1 : acts'[i] = acts[i]
      /\ acts'[Len(acts)] = a
    BY <1>1, ReplaceLastFacts DEF Continue
<1>3. (acts \in Seq({acts[i] : i \in DOMAIN acts}))'
    BY <1>2, OwnElements
<1>4. Len(acts) \in Nat
    BY ActFacts
<1>5. \A i \in 1 .. Len(acts') : Sound(acts'[i])
    BY <1>2, <1>4 DEF Inv
<1>6. QED BY <1>2, <1>3, <1>5 DEF Inv, Sound, Shape, Coherent

LEMMA HandBackStep ==
    ASSUME Inv, acts # << >>, NEW how, NEW value, HandBack(how, value)
    PROVE  Inv'
<1> DEFINE S == {acts[i] : i \in DOMAIN acts}
           callers == Front(acts)
           n == Len(callers)
           b == [callers[n] EXCEPT !.at = "handled", !.result = value]
<1>1. /\ callers \in Seq(S) /\ Len(callers) = Len(acts) - 1
      /\ \A i \in 1 .. Len(acts) - 1 : callers[i] = acts[i]
    BY FrontFacts DEF Inv
<1>2. Len(acts) \in Nat /\ Len(acts) >= 1
    BY ActFacts
<1>3. \A i \in 1 .. n : Sound(callers[i])
    BY <1>1, <1>2 DEF Inv
<1>4. callLevel' = n
    BY <1>1, <1>2 DEF Inv, HandBack
<1>5. CASE callers = << >>
    <2>1. acts' = callers
        BY <1>5 DEF HandBack
    <2>2. (acts \in Seq({acts[i] : i \in DOMAIN acts}))'
        BY <2>1, <1>1, OwnElements
    <2>3. QED BY <2>1, <2>2, <1>3, <1>4 DEF Inv, Sound, Shape, Coherent
<1>6. CASE callers # << >>
    <2>1. n \in 1 .. n /\ n \in Nat
        BY <1>6, <1>1, <1>2, LastFacts
    <2>2. acts' = [callers EXCEPT ![n] = b]
        BY <1>6 DEF HandBack
    <2>3. Sound(b)
        <3>1. Shape(callers[n])
            BY <2>1, <1>3 DEF Sound
        <3>2. Shape(b) /\ b.at = "handled"
            BY <3>1 DEF Shape, Locals
        <3>3. QED BY <3>2 DEF Sound
    <2> HIDE DEF b
    <2>4. callers \in Seq(S \cup {b}) /\ b \in S \cup {b}
        BY <1>1, SeqMonotonic
    <2> HIDE DEF callers, n, S
    <2>5. /\ acts' \in Seq(S \cup {b}) /\ Len(acts') = n
          /\ \A i \in 1 .. n - 1 : acts'[i] = callers[i]
          /\ acts'[n] = b
        BY <2>2, <2>4, <1>6, ReplaceLastFacts DEF n
    <2>6. (acts \in Seq({acts[i] : i \in DOMAIN acts}))'
        BY <2>5, OwnElements
    <2>7. \A i \in 1 .. Len(acts') : Sound(acts'[i])
        BY <2>5, <2>3, <2>1, <1>3
    <2>8. QED BY <2>5, <2>6, <2>7, <1>4 DEF Inv, Sound, Shape, Coherent
<1>7. QED BY <1>5, <1>6

LEMMA NewLocals ==
    ASSUME NEW v1, NEW v2, NEW v3, NEW v4, NEW v5, NEW v6, NEW v7, NEW v8, NEW v9,
           NEW v10, NEW v11, NEW v12, NEW v13, NEW a,
           a = [stackOnEntry |-> v1, programStack |-> v2, programCounter |-> v3,
                opStack |-> v4, opStackOfs |-> v5, r0 |-> v6, r1 |-> v7,
                at |-> v8, args |-> v9, result |-> v10, stomped |-> v11,
                entry |-> v12, frames |-> v13]
    PROVE  a = [f \in Locals |-> a[f]]
    BY DEF Locals

LEMMA BeginCallStep ==
    ASSUME Inv, NEW args, BeginCall(args)
    PROVE  Inv'
<1>0. PICK rest \in OpStacks :
        LET ps == programStack - EntryFrame
            opStack == [i \in OpStackIndex |-> IF i = 0 THEN Canary ELSE rest[i]]
        IN  acts' = Append(
               IF acts = << >> THEN acts
               ELSE [acts EXCEPT ![Len(acts)] = [@ EXCEPT !.at = "nested"]],
               [stackOnEntry |-> programStack, programStack |-> ps,
                programCounter |-> 0, opStack |-> opStack, opStackOfs |-> 0,
                r0 |-> opStack[0], r1 |-> opStack[OpStackSize - 1],
                at |-> "code", args |-> << >>, result |-> 0, stomped |-> 0,
                entry |-> args, frames |-> {[at |-> ps, pc |-> -1]}])
    BY DEF BeginCall
<1> DEFINE ps == programStack - EntryFrame
           opStack == [i \in OpStackIndex |-> IF i = 0 THEN Canary ELSE rest[i]]
           new == [stackOnEntry |-> programStack, programStack |-> ps,
                   programCounter |-> 0, opStack |-> opStack, opStackOfs |-> 0,
                   r0 |-> opStack[0], r1 |-> opStack[OpStackSize - 1],
                   at |-> "code", args |-> << >>, result |-> 0, stomped |-> 0,
                   entry |-> args, frames |-> {[at |-> ps, pc |-> -1]}]
           callers == IF acts = << >> THEN acts
                      ELSE [acts EXCEPT ![Len(acts)] = [@ EXCEPT !.at = "nested"]]
           S == {acts[i] : i \in DOMAIN acts}
<1>1. acts' = Append(callers, new)
    BY <1>0
<1>2. Sound(new)
    <2>1. 0 \in OpStackIndex /\ Slot(0 - 1) = OpStackSize - 1
        BY FirstSlot
    <2>2. /\ new.opStackOfs = 0 /\ new.opStack = opStack
          /\ new.r0 = opStack[0] /\ new.r1 = opStack[OpStackSize - 1]
        OBVIOUS
    <2>3. opStack = [k \in OpStackIndex |-> opStack[k]]
        OBVIOUS
    <2>4. new = [f \in Locals |-> new[f]]
        BY NewLocals
    <2> HIDE DEF new, opStack
    <2>5. Shape(new) /\ Coherent(new)
        BY <2>1, <2>2, <2>3, <2>4 DEF Shape, Coherent
    <2>6. QED BY <2>5 DEF Sound
<1>3. /\ \E T : callers \in Seq(T)
      /\ Len(callers) = Len(acts)
      /\ \A i \in 1 .. Len(acts) : Sound(callers[i])
    <2>1. CASE acts = << >>
        BY <2>1 DEF Inv
    <2>2. CASE acts # << >>
        <3> DEFINE b == [acts[Len(acts)] EXCEPT !.at = "nested"]
        <3>1. callers = [acts EXCEPT ![Len(acts)] = b]
            BY <2>2
        <3>2. Sound(b)
            <4>1. Shape(acts[Len(acts)])
                BY <2>2, ActFacts DEF Sound
            <4>2. Shape(b) /\ b.at = "nested"
                BY <4>1 DEF Shape, Locals
            <4>3. QED BY <4>2 DEF Sound
        <3> HIDE DEF b, callers
        <3>3. acts \in Seq(S \cup {b}) /\ b \in S \cup {b}
            BY SeqMonotonic DEF Inv
        <3> HIDE DEF S
        <3>4. /\ callers \in Seq(S \cup {b}) /\ Len(callers) = Len(acts)
              /\ \A i \in 1 .. Len(acts) - 1 : callers[i] = acts[i]
              /\ callers[Len(acts)] = b
            BY <3>1, <3>3, <2>2, ReplaceLastFacts
        <3>5. Len(acts) \in Nat
            BY <2>2, ActFacts
        <3>6. \A i \in 1 .. Len(acts) : Sound(callers[i])
            BY <3>2, <3>4, <3>5 DEF Inv
        <3>7. QED BY <3>4, <3>6
    <2>3. QED BY <2>1, <2>2
<1> HIDE DEF callers, new
<1>4. PICK T : callers \in Seq(T)
    BY <1>3
<1>5. callers \in Seq(T \cup {new})
    BY <1>4, SeqMonotonic
<1>6. /\ acts' \in Seq(T \cup {new}) /\ Len(acts') = Len(callers) + 1
      /\ \A i \in 1 .. Len(callers) : acts'[i] = callers[i]
      /\ acts'[Len(callers) + 1] = new
    <2>1. new \in T \cup {new}
        OBVIOUS
    <2>2. QED BY <1>1, <1>5, <2>1, AppendProperties
<1>7. (acts \in Seq({acts[i] : i \in DOMAIN acts}))'
    BY <1>6, OwnElements
<1>8. Len(callers) \in Nat
    BY <1>4, LenProperties
<1>9. \A i \in 1 .. Len(acts') : Sound(acts'[i])
    BY <1>2, <1>3, <1>6, <1>8
<1>10. callLevel' = Len(acts')
    BY <1>3, <1>6 DEF Inv, BeginCall
<1>11. QED BY <1>7, <1>9, <1>10 DEF Inv, Sound, Shape, Coherent

-----------------------------------------------------------------------------

LEMMA InitInv == Init => Inv
<1> SUFFICES ASSUME Init PROVE Inv
    OBVIOUS
<1>1. acts = << >> /\ Len(acts) = 0 /\ callLevel = 0
    BY EmptySeq DEF Init
<1>2. acts \in Seq({acts[i] : i \in DOMAIN acts})
    BY <1>1, EmptySeq
<1>3. QED BY <1>1, <1>2 DEF Inv

(* An error return, from any instruction.                                   *)
LEMMA ErrorStep ==
    ASSUME Inv, acts # << >>, NEW level, ErrorReturn(level)
    PROVE  Inv'
    BY HandBackStep DEF ErrorReturn

LEMMA StutterStep ==
    ASSUME Inv, UNCHANGED << acts, callLevel >>
    PROVE  Inv'
    BY DEF Inv, Sound, Shape, Coherent

(* An instruction is executed by the innermost activation, whose registers  *)
(* are coherent.                                                            *)
LEMMA Fetching ==
    ASSUME Inv, NEW op, Executes(op)
    PROVE  acts # << >> /\ Shape(Act) /\ Coherent(Act)
    BY ActFacts DEF Executes, Running, Sound

(* Most instructions move the operand stack and end in DISPATCH.            *)
LEMMA DispatchStep ==
    ASSUME Inv, acts # << >>, NEW a, Shape(a), Continue(Reload(a)),
           callLevel' = callLevel
    PROVE  Inv'
    BY ReloadSound, ContinueStep

-----------------------------------------------------------------------------
(* One step per instruction.                                                *)

LEMMA QuietStep ==
    ASSUME Inv, Nop \/ Const \/ Local \/ Push \/ Pop \/ UnaryOp \/ BinaryOp
    PROVE  Inv'
<1>1. CASE Nop
    <2>1. acts # << >> /\ Shape(Act) /\ Coherent(Act) /\ callLevel' = callLevel
        BY <1>1, Fetching DEF Nop, Quiet, vm
    <2>2. Shape(Over(Act, 1)) /\ Coherent(Over(Act, 1))
        BY <2>1, OverShape DEF Coherent, Locals
    <2>3. QED BY <1>1, <2>1, <2>2, ContinueStep DEF Nop, Sound
<1>2. CASE Const
    <2>1. acts # << >> /\ Shape(Act) /\ Coherent(Act) /\ callLevel' = callLevel
        BY <1>2, Fetching DEF Const, Quiet, vm
    <2>2. QED BY <1>2, <2>1, PushedSound, ContinueStep DEF Const, PushValue, R0
<1>3. CASE Local
    <2>1. acts # << >> /\ Shape(Act) /\ Coherent(Act) /\ callLevel' = callLevel
        BY <1>3, Fetching DEF Local, Quiet, vm
    <2>2. QED BY <1>3, <2>1, PushedSound, ContinueStep DEF Local, PushValue, R0
<1>4. CASE Push
    <2>1. acts # << >> /\ Shape(Act) /\ callLevel' = callLevel
        BY <1>4, Fetching DEF Push, Quiet, vm
    <2>2. Shape(Over(Moving(Act, 1), 1))
        BY <2>1, MovingShape, OverShape
    <2>3. QED BY <1>4, <2>1, <2>2, DispatchStep DEF Push
<1>5. CASE Pop
    <2>1. acts # << >> /\ Shape(Act) /\ callLevel' = callLevel
        BY <1>5, Fetching DEF Pop, Quiet, vm
    <2>2. Shape(Over(Moving(Act, -1), 1))
        BY <2>1, MovingShape, OverShape
    <2>3. QED BY <1>5, <2>1, <2>2, DispatchStep DEF Pop
<1>6. CASE UnaryOp
    <2>1. PICK op \in Unary : /\ Executes(op)
                              /\ \E v \in Conversion(op, R0) :
                                    Continue(Reload(Over(Setting(Act, 0, v), 1)))
        BY <1>6 DEF UnaryOp
    <2>2. PICK v : Continue(Reload(Over(Setting(Act, 0, v), 1)))
        BY <2>1
    <2>3. acts # << >> /\ Shape(Act) /\ callLevel' = callLevel
        BY <1>6, <2>1, Fetching DEF UnaryOp, Quiet, vm
    <2>4. Shape(Over(Setting(Act, 0, v), 1))
        BY <2>3, SettingShape, OverShape
    <2>5. QED BY <2>2, <2>3, <2>4, DispatchStep
<1>7. CASE BinaryOp
    <2>1. PICK op \in Binary : /\ Executes(op)
                               /\ \E v \in Arithmetic(op, R1, R0) :
                                     Continue(Reload(Over(Setting(Act, -1, v), 1)))
        BY <1>7 DEF BinaryOp
    <2>2. PICK v : Continue(Reload(Over(Setting(Act, -1, v), 1)))
        BY <2>1
    <2>3. acts # << >> /\ Shape(Act) /\ callLevel' = callLevel
        BY <1>7, <2>1, Fetching DEF BinaryOp, Quiet, vm
    <2>4. Shape(Over(Setting(Act, -1, v), 1))
        BY <2>3, SettingShape, OverShape
    <2>5. QED BY <2>2, <2>3, <2>4, DispatchStep
<1>8. QED BY <1>1, <1>2, <1>3, <1>4, <1>5, <1>6, <1>7

LEMMA BranchStep ==
    ASSUME Inv, Branch \/ Jump
    PROVE  Inv'
<1>1. CASE Branch
    <2> DEFINE moved == Moving(Act, -2)
    <2>1. PICK op \in Branches :
              /\ Executes(op)
              /\ \E taken \in Outcomes(op, R1, R0) :
                    Continue(Reload(IF taken THEN Goto(moved, R2) ELSE Over(moved, 2)))
        BY <1>1 DEF Branch
    <2>2. acts # << >> /\ Shape(Act) /\ callLevel' = callLevel
        BY <1>1, <2>1, Fetching DEF Branch, Quiet, vm
    <2>3. Shape(Goto(moved, R2)) /\ Shape(Over(moved, 2))
        BY <2>2, MovingShape, GotoShape, OverShape
    <2> HIDE DEF moved
    <2>4. PICK taken : Continue(Reload(IF taken THEN Goto(moved, R2)
                                                ELSE Over(moved, 2)))
        BY <2>1
    <2>5. Shape(IF taken THEN Goto(moved, R2) ELSE Over(moved, 2))
        BY <2>3
    <2>6. QED BY <2>2, <2>4, <2>5, DispatchStep
<1>2. CASE Jump
    <2>1. acts # << >> /\ Shape(Act)
        BY <1>2, Fetching DEF Jump
    <2>2. CASE ErrorReturn(VM_PC_OUT_OF_RANGE)
        BY <2>1, <2>2, ErrorStep
    <2> DEFINE a == Moving(Goto(Act, instructionPointers[R0]), -1)
    <2>3. CASE Continue(Reload(a)) /\ Quiet
        <3>1. Shape(a)
            BY <2>1, GotoShape, MovingShape
        <3>2. QED BY <2>1, <2>3, <3>1, DispatchStep DEF Quiet, vm
    <2>4. QED BY <1>2, <2>2, <2>3 DEF Jump
<1>3. QED BY <1>1, <1>2

LEMMA MemoryStep ==
    ASSUME Inv, LoadOp \/ StoreOp \/ Arg \/ BlockCopy
    PROVE  Inv'
<1>1. CASE LoadOp
    <2>1. PICK op \in Loads :
              /\ Executes(op)
              /\ \/ /\ Continue([Over(Setting(Act, 0, Fetched(op)), 1)
                                    EXCEPT !.r0 = Fetched(op)])
                    /\ Quiet
                 \/ ErrorReturn(VM_OP_LOAD4_MISALIGNED)
        BY <1>1 DEF LoadOp
    <2>2. acts # << >> /\ Shape(Act) /\ Coherent(Act)
        BY <2>1, Fetching
    <2>3. CASE ErrorReturn(VM_OP_LOAD4_MISALIGNED)
        BY <2>2, <2>3, ErrorStep
    <2>4. CASE /\ Continue([Over(Setting(Act, 0, Fetched(op)), 1)
                               EXCEPT !.r0 = Fetched(op)])
               /\ Quiet
        BY <2>2, <2>4, ReplacedSound, ContinueStep DEF Quiet, vm
    <2>5. QED BY <2>1, <2>3, <2>4
<1>2. CASE StoreOp
    <2>1. acts # << >> /\ Shape(Act) /\ callLevel' = callLevel
        BY <1>2, Fetching DEF StoreOp, vm
    <2>2. Shape(Over(Moving(Act, -2), 1))
        BY <2>1, MovingShape, OverShape
    <2>3. QED BY <1>2, <2>1, <2>2, DispatchStep DEF StoreOp
<1>3. CASE Arg
    <2>1. acts # << >> /\ Shape(Act) /\ callLevel' = callLevel
        BY <1>3, Fetching DEF Arg, vm
    <2>2. Shape(Over(Moving(Act, -1), 2))
        BY <2>1, MovingShape, OverShape
    <2>3. QED BY <1>3, <2>1, <2>2, DispatchStep DEF Arg
<1>4. CASE BlockCopy
    <2>1. acts # << >> /\ Shape(Act) /\ callLevel' = callLevel
        BY <1>4, Fetching DEF BlockCopy
    <2>2. Shape(Over(Moving(Act, -2), 2))
        BY <2>1, MovingShape, OverShape
    <2>3. QED BY <1>4, <2>1, <2>2, DispatchStep DEF BlockCopy
<1>5. QED BY <1>1, <1>2, <1>3, <1>4

LEMMA FrameStep ==
    ASSUME Inv, Enter \/ Leave \/ Done
    PROVE  Inv'
<1>1. CASE Enter
    <2> DEFINE ps == ToWord(Act.programStack - R2)
               a  == [Act EXCEPT !.programStack = ps]
    <2>1. /\ acts # << >> /\ Shape(Act) /\ callLevel' = callLevel
          /\ Continue(Reload(Over(a, 2)))
        BY <1>1, Fetching DEF Enter, vm
    <2>2. Shape(a)
        BY <2>1, UpdateShape DEF Locals
    <2> HIDE DEF a
    <2>3. Shape(Over(a, 2))
        BY <2>2, OverShape
    <2>4. QED BY <2>1, <2>3, DispatchStep
<1>2. CASE Leave
    <2> DEFINE ps == ToWord(Act.programStack + R2)
               pc == WordAt(mem, ps)
               a  == [Act EXCEPT !.programStack = ps, !.frames = Unwound(@, ps)]
    <2>1. acts # << >> /\ Shape(Act)
        BY <1>2, Fetching DEF Leave
    <2>2. CASE Continue(Reload(Goto(a, pc))) /\ Quiet
        <3>1. Shape(a)
            BY <2>1 DEF Shape, Locals
        <3> HIDE DEF a
        <3>2. Shape(Goto(a, pc))
            BY <3>1, GotoShape
        <3>3. callLevel' = callLevel
            BY <2>2 DEF Quiet, vm
        <3>4. QED BY <2>1, <2>2, <3>2, <3>3, DispatchStep
    <2>3. CASE ErrorReturn(VM_PC_OUT_OF_RANGE)
        BY <2>1, <2>3, ErrorStep
    <2>4. QED BY <1>2, <2>2, <2>3 DEF Leave
<1>3. CASE Done
    <2>1. acts # << >> /\ HandBack("done", Act.opStack[Act.opStackOfs])
        BY <1>3, Fetching DEF Done
    <2>2. QED BY <2>1, HandBackStep
<1>4. QED BY <1>1, <1>2, <1>3

LEMMA CallStep ==
    ASSUME Inv, CallFunction \/ SystemCall \/ SystemReturn
    PROVE  Inv'
<1>1. CASE CallFunction
    <2> DEFINE a == Goto(Framed(Act), instructionPointers[R0])
    <2>1. acts # << >> /\ Shape(Act)
        BY <1>1, Fetching DEF CallFunction
    <2>2. CASE /\ Continue(Reload(Moving(a, -1)))
               /\ UNCHANGED << program, vm, mode, history >>
        <3>1. Shape(a)
            BY <2>1, FramedShape, GotoShape
        <3> HIDE DEF a
        <3>2. Shape(Moving(a, -1))
            BY <3>1, MovingShape
        <3>3. callLevel' = callLevel
            BY <2>2 DEF vm
        <3>4. QED BY <2>1, <2>2, <3>2, <3>3, DispatchStep
    <2>3. CASE ErrorReturn(VM_PC_OUT_OF_RANGE)
        BY <2>1, <2>3, ErrorStep
    <2>4. QED BY <1>1, <2>2, <2>3 DEF CallFunction
<1>2. CASE SystemCall
    <2> DEFINE ps     == Act.programStack
               called == PutWord(mem, ps, ReturnAddress)
               words  == [i \in 0 .. MaxSyscallArgs - 1 |->
                             WordAt(mem', ps + 4 + 4 * i)]
               word   == WordAt(called, ps + 4)
               m      == Moving(Framed(Act), -1)
    <2>1. /\ acts # << >> /\ Shape(Act) /\ callLevel' = callLevel
          /\ Continue([m EXCEPT !.at = "handler", !.stomped = word,
                                !.args = words])
        BY <1>2, Fetching DEF SystemCall, history
    <2>2. Shape(m)
        BY <2>1, FramedShape, MovingShape
    <2> HIDE DEF m, word, words
    <2>3. Sound([m EXCEPT !.at = "handler", !.stomped = word, !.args = words])
        BY <2>2 DEF Sound, Shape, Locals
    <2>4. QED BY <2>1, <2>3, ContinueStep
<1>3. CASE SystemReturn
    <2> DEFINE ps       == Act.programStack
               restored == IF DebugVm THEN PutWord(mem, ps + 4, Act.stomped)
                                      ELSE mem
               m        == Setting(Act, 1, Act.result)
               a        == [m EXCEPT !.at = "code", !.frames = Unwound(@, ps)]
    <2>1. /\ acts # << >> /\ callLevel' = callLevel
          /\ Continue(Reload(Goto(a, WordAt(restored, ps))))
        BY <1>3 DEF SystemReturn, vm
    <2>2. Shape(Act)
        BY <2>1, ActFacts DEF Sound
    <2>3. Shape(m)
        BY <2>2, SettingShape
    <2> HIDE DEF m
    <2>4. Shape(a)
        BY <2>3 DEF Shape, Locals
    <2> HIDE DEF a
    <2>5. Shape(Goto(a, WordAt(restored, ps)))
        BY <2>4, GotoShape
    <2>6. QED BY <2>1, <2>5, DispatchStep
<1>4. QED BY <1>1, <1>2, <1>3

(* A handler that returns leaves the program's activation as it was.        *)
LEMMA HandlerReturnStep ==
    ASSUME Inv, acts # << >>, NEW value, HandlerReturns(value),
           callLevel' = callLevel
    PROVE  Inv'
<1> DEFINE a == [Act EXCEPT !.at = "handled", !.result = value]
<1>1. Shape(Act)
    BY ActFacts DEF Sound
<1>2. Shape(a) /\ a.at = "handled"
    BY <1>1 DEF Shape, Locals
<1>3. Sound(a) /\ Continue(a)
    BY <1>2 DEF Sound, HandlerReturns
<1> HIDE DEF a
<1>4. QED BY <1>3, ContinueStep

LEMMA HandlerStep ==
    ASSUME Inv, Handlers \/ HostCall
    PROVE  Inv'
<1>1. CASE HostPrint
    BY <1>1, HandlerReturnStep DEF HostPrint, Handling, HostQuiet, vm
<1>2. CASE HostUnknown
    BY <1>2, HandlerReturnStep DEF HostUnknown, Handling, HostQuiet, vm
<1>3. CASE HostMemset
    BY <1>3, HandlerReturnStep DEF HostMemset, Handling, HostQuiet, vm
<1>4. CASE HostMemcpy
    BY <1>4, HandlerReturnStep DEF HostMemcpy, Handling, HostQuiet, vm
<1>5. CASE HostRecursive
    BY <1>5, BeginCallStep DEF HostRecursive
<1>6. CASE HostWild
    BY <1>6, StutterStep DEF HostWild, GoWild, vm
<1>7. CASE HostCall
    BY <1>7, BeginCallStep DEF HostCall
<1>8. QED BY <1>1, <1>2, <1>3, <1>4, <1>5, <1>6, <1>7 DEF Handlers

(* The instructions that end the call through an error, and those that end  *)
(* everything.                                                              *)
LEMMA StopStep ==
    ASSUME Inv, FetchError \/ OutsideCode \/ Undef \/ Trap \/ BelowOrBeyond
    PROVE  Inv'
<1>1. CASE FetchError
    BY <1>1, ErrorStep DEF FetchError, Running
<1>2. CASE OutsideCode
    BY <1>2, StutterStep DEF OutsideCode, GoWild, vm
<1>3. CASE Undef
    BY <1>3, Fetching, ErrorStep DEF Undef
<1>4. CASE Trap
    BY <1>4, StutterStep DEF Trap, vm
<1>5. CASE BelowOrBeyond
    BY <1>5, StutterStep DEF BelowOrBeyond, GoWild, vm
<1>6. QED BY <1>1, <1>2, <1>3, <1>4, <1>5

LEMMA NextInv == Inv /\ [Next]_vars => Inv'
<1> SUFFICES ASSUME Inv, [Next]_vars PROVE Inv'
    OBVIOUS
<1>1. CASE Instructions
    BY <1>1, QuietStep, BranchStep, MemoryStep, FrameStep, CallStep, StopStep
       DEF Instructions
<1>2. CASE Handlers \/ HostCall
    BY <1>2, HandlerStep
<1>3. CASE SystemReturn
    BY <1>3, CallStep
<1>4. CASE UNCHANGED vars
    BY <1>4, StutterStep DEF vars, vm
<1>5. QED BY <1>1, <1>2, <1>3, <1>4 DEF Next, Machine

(* Whatever a program does, the C stack of activations, their operand       *)
(* stacks and registers stay well formed.                                   *)
THEOREM Invariance == Spec => []Inv
<1>1. QED BY InitInv, NextInv, PTL DEF Spec

(* No instruction of any program, compiled or not, computes with a stale    *)
(* register: all paths to a fetch, through DISPATCH, DISPATCH2, a call of    *)
(* the host or a VM_Call nested in it, leave r0 and r1 loaded.              *)
THEOREM CoherentRegisters == Spec => []RegistersCoherent
<1>1. Inv => RegistersCoherent
    BY DEF Inv, Sound, Coherent, RegistersCoherent
<1>2. QED BY <1>1, Invariance, PTL

(* vm->callLevel, by which VM_Free refuses to free a running VM, is the     *)
(* number of activations of VM_CallInterpreted, for every program.          *)
THEOREM LevelIsDepth == Spec => []LevelCounted
<1>1. Inv => LevelCounted
    BY DEF Inv, LevelCounted
<1>2. QED BY <1>1, Invariance, PTL

-----------------------------------------------------------------------------
(* Every instruction computes words from words.                             *)

(* The C division of words that does not trap gives a word: the one         *)
(* quotient that would not fit is the one that traps.                       *)
LEMMA QuotientFacts ==
    ASSUME NEW a \in Word, NEW b \in Word, ~ Traps(a, b)
    PROVE  Quotient(a, b) \in Word /\ a - b * Quotient(a, b) \in Word
<1>1. PICK h \in Nat : W = 2 * h /\ W \div 2 = h /\ h > 0
    BY WordSize
<1>2. /\ a \in Int /\ -h <= a /\ a < h
      /\ b \in Int /\ -h <= b /\ b < h /\ b # 0
      /\ ~ (a = -h /\ b = -1)
    BY <1>1 DEF Word, Traps, MinWord
<1> DEFINE m == Magnitude(a)
           d == Magnitude(b)
           q == m \div d
           r == m % d
<1>3. /\ m \in Nat /\ m <= h /\ d \in Nat /\ d > 0 /\ d <= h
      /\ a = (IF a < 0 THEN -m ELSE m) /\ b = (IF b < 0 THEN -d ELSE d)
    BY <1>2 DEF Magnitude
<1>4. Quotient(a, b) = IF (a < 0) = (b < 0) THEN q ELSE -q
    BY DEF Quotient
<1> HIDE DEF m, d
<1>5. q \in Int /\ r \in 0 .. d - 1 /\ m = d * q + r
    BY <1>3, QuotientRemainder
<1> HIDE DEF q, r
<1>6. q >= 0 /\ q <= m
    <2>1. ASSUME q < 0 PROVE FALSE
        <3>1. d * q <= -d
            BY <1>3, <1>5, <2>1
        <3>2. QED BY <1>3, <1>5, <3>1
    <2>2. d * q >= q
        BY <1>3, <1>5, <2>1
    <2>3. QED BY <1>3, <1>5, <2>1, <2>2
<1>7. ASSUME (a < 0) = (b < 0) PROVE q < h
    <2>1. CASE a >= 0
        BY <1>2, <1>3, <1>5, <1>6, <2>1
    <2>2. CASE a < 0 /\ d = 1
        BY <1>2, <1>3, <1>5, <1>6, <1>7, <2>2
    <2>3. CASE d >= 2
        <3>1. d * q >= 2 * q
            BY <1>3, <1>5, <1>6, <2>3
        <3>2. QED BY <1>1, <1>3, <1>5, <1>6, <3>1
    <2>4. QED BY <1>2, <1>3, <2>1, <2>2, <2>3
<1>8. Quotient(a, b) \in Word
    BY <1>1, <1>3, <1>4, <1>5, <1>6, <1>7 DEF Word
<1>9. a - b * Quotient(a, b) = IF a < 0 THEN -r ELSE r
    <2>1. d * q \in Int /\ (-d) * q = -(d * q) /\ d * (-q) = -(d * q)
          /\ (-d) * (-q) = d * q
        BY <1>3, <1>5
    <2>2. CASE a < 0
        BY <1>3, <1>4, <1>5, <2>1, <2>2
    <2>3. CASE a >= 0
        BY <1>3, <1>4, <1>5, <2>1, <2>3
    <2>4. QED BY <1>2, <2>2, <2>3
<1>10. a - b * Quotient(a, b) \in Word
    BY <1>1, <1>3, <1>5, <1>9 DEF Word
<1>11. QED BY <1>8, <1>10

LEMMA UnspecifiedWords == Unspecified \subseteq Word
    BY UnspecifiedAssumption

LEMMA ArithmeticFacts ==
    ASSUME NEW op \in Binary, NEW a \in Word, NEW b \in Word,
           NEW v \in Arithmetic(op, a, b)
    PROVE  v \in Word
<1>1. a \in Int /\ b \in Int
    BY WordIsInt
<1>2. a * b \in Int /\ a + b \in Int /\ a - b \in Int
    BY <1>1
<1> DEFINE ua == Unsigned(a)
           ub == Unsigned(b)
<1>3. /\ ua \in Nat
      /\ b # 0 => ub \in Nat /\ ub > 0
    BY <1>1, UnsignedFacts, WordSize
       DEF Word
<1> HIDE DEF ua, ub
<1>4. b # 0 => ua \div ub \in Int /\ ua % ub \in Int
    BY <1>3, QuotientRemainder
<1>5. /\ ToWord(a + b) \in Word /\ ToWord(a - b) \in Word
      /\ ToWord(a * b) \in Word
      /\ b # 0 => ToWord(ua \div ub) \in Word /\ ToWord(ua % ub) \in Word
    BY <1>2, <1>4, ToWordFacts
<1>6. ~ Traps(a, b) => Quotient(a, b) \in Word /\ a - b * Quotient(a, b) \in Word
    BY QuotientFacts
<1>7. \A B : FromBits(B) \in Word
    BY FromBitsFacts
<1>8. QED BY <1>5, <1>6, <1>7, UnspecifiedWords, ZenonT(60) DEF Arithmetic, ua, ub

LEMMA ConversionFacts ==
    ASSUME NEW op \in Unary, NEW a \in Word, NEW v \in Conversion(op, a)
    PROVE  v \in Word
<1>1. a \in Int /\ -a \in Int
    BY WordIsInt
<1>2. /\ ToWord(-a) \in Word /\ Signed(a, ByteMod) \in Word
      /\ Signed(a, ShortMod) \in Word
    BY <1>1, ToWordFacts, SignedFacts
<1>3. Complement(a) \in Word
    <2>1. PICK h \in Nat : W = 2 * h /\ W \div 2 = h
        BY WordSize
    <2>2. QED BY <2>1 DEF Complement, Word
<1>4. QED BY <1>2, <1>3, UnspecifiedWords DEF Conversion

(* What the loads fetch from anywhere the mask leads to.                    *)
LEMMA FetchedFacts ==
    ASSUME NEW op \in Loads, mem \in Image, R0 \in Word
    PROVE  Fetched(op) \in Word
<1> DEFINE a == Masked(R0)
<1>1. a \in 0 .. DataMask /\ DataMask \in Nat
    BY MaskedFacts, WordIsInt, MaskAssumption
<1> HIDE DEF a
<1>2. a \in Int /\ InImage(a, 4) /\ InImage(a, 2) /\ InImage(a, 1)
    BY <1>1 DEF InImage
<1>3. WordAt(mem, a) \in Word /\ ShortAt(mem, a) \in Word /\ ByteAt(mem, a) \in Word
    BY <1>2, ReadFacts
<1>4. QED BY <1>3 DEF Fetched, a

-----------------------------------------------------------------------------
(* The invariant behind TypeOK.  vm->programStack is itself a word, and an  *)
(* activation that is not fetching waits in a system call whose frame is in *)
(* the image: that is why the return of the call may read and restore the   *)
(* frame with no check of its own.                                          *)

SyscallFrame == 4 + 4 * MaxSyscallArgs

Waiting(a) ==
    a.at # "code" => /\ InImage(a.programStack, SyscallFrame)
                     /\ a.args \in [0 .. MaxSyscallArgs - 1 -> Word]

ActsOK ==
    /\ acts \in Seq(ActivationType)
    /\ callLevel = Len(acts)
    /\ \A i \in 1 .. Len(acts) :
          Waiting(acts[i]) /\ (acts[i].at = "nested" <=> i < Len(acts))

TypeInv ==
    /\ program \in Programs
    /\ TypeOK
    /\ programStack \in Word
    /\ ActsOK

CodeAct == {a \in ActivationType : a.at = "code"}

(* The updates of an activation keep its type, and what the others wait for.*)

LEMMA GotoTyped ==
    ASSUME NEW a \in ActivationType, NEW pc \in Int
    PROVE  /\ Goto(a, pc) \in ActivationType
           /\ Goto(a, pc).at = a.at
    BY DEF Goto, ActivationType

LEMMA OverTyped ==
    ASSUME NEW a \in ActivationType, NEW ints \in Int
    PROVE  /\ Over(a, ints) \in ActivationType
           /\ Over(a, ints).at = a.at
    BY DEF Over, ActivationType

LEMMA MovingTyped ==
    ASSUME NEW a \in ActivationType, NEW n \in Int
    PROVE  /\ Moving(a, n) \in ActivationType
           /\ Moving(a, n).at = a.at
           /\ Moving(a, n).opStack = a.opStack
           /\ Moving(a, n).programStack = a.programStack
<1>1. a.opStackOfs + n \in Int
    BY InterpreterAssumption DEF ActivationType, OpStackIndex
<1>2. Slot(a.opStackOfs + n) \in OpStackIndex
    BY <1>1, SlotInRange
<1>3. QED BY <1>2 DEF Moving, ActivationType

LEMMA SettingTyped ==
    ASSUME NEW a \in ActivationType, NEW n \in Int, NEW v \in Word
    PROVE  /\ Setting(a, n, v) \in ActivationType
           /\ Setting(a, n, v).at = a.at
           /\ Setting(a, n, v).programStack = a.programStack
<1> DEFINE m == Moving(a, n)
           s == Slot(a.opStackOfs + n)
           o == [m.opStack EXCEPT ![s] = v]
<1>1. /\ m \in ActivationType /\ m.at = a.at /\ m.opStack = a.opStack
      /\ m.programStack = a.programStack
    BY MovingTyped
<1>2. Setting(a, n, v) = [m EXCEPT !.opStack = o]
    BY DEF Setting
<1>3. o \in [OpStackIndex -> Word]
    <2>1. m.opStack \in [OpStackIndex -> Word]
        BY <1>1 DEF ActivationType
    <2>2. QED BY <2>1
<1> HIDE DEF m, o
<1>4. QED BY <1>1, <1>2, <1>3 DEF ActivationType

LEMMA ReloadTyped ==
    ASSUME NEW a \in ActivationType
    PROVE  Reload(a) \in ActivationType /\ Reload(a).at = a.at
<1>1. a.opStackOfs \in OpStackIndex /\ Slot(a.opStackOfs - 1) \in OpStackIndex
    <2>1. a.opStackOfs \in OpStackIndex
        BY DEF ActivationType
    <2>2. a.opStackOfs - 1 \in Int
        BY <2>1, InterpreterAssumption DEF OpStackIndex
    <2>3. QED BY <2>1, <2>2, SlotInRange
<1> DEFINE x == a.opStack[a.opStackOfs]
           y == a.opStack[Slot(a.opStackOfs - 1)]
<1>2. x \in Word /\ y \in Word
    BY <1>1 DEF ActivationType
<1>3. Reload(a) = [a EXCEPT !.r0 = x, !.r1 = y]
    BY DEF Reload
<1> HIDE DEF x, y
<1>4. QED BY <1>2, <1>3 DEF ActivationType

LEMMA FramedTyped ==
    ASSUME NEW a \in ActivationType, ReturnAddress \in Int
    PROVE  /\ Framed(a) \in ActivationType
           /\ Framed(a).at = a.at
           /\ Framed(a).programStack = a.programStack
<1> DEFINE f == a.frames \cup {[at |-> a.programStack, pc |-> ReturnAddress]}
<1>1. f \in SUBSET [at : Int, pc : Int]
    BY DEF ActivationType
<1>2. Framed(a) = [a EXCEPT !.frames = f]
    BY DEF Framed
<1> HIDE DEF f
<1>3. QED BY <1>1, <1>2 DEF ActivationType

LEMMA UnwoundTyped ==
    ASSUME NEW a \in ActivationType, NEW ps
    PROVE  Unwound(a.frames, ps) \in SUBSET [at : Int, pc : Int]
    BY DEF Unwound, ActivationType

(* DISPATCH after an update of the operand stack.                           *)
LEMMA ReloadCode ==
    ASSUME NEW a \in CodeAct
    PROVE  Reload(a) \in CodeAct
    BY ReloadTyped DEF CodeAct

-----------------------------------------------------------------------------
(* What the steps do to the C stack of activations.                         *)

LEMMA ActTyped ==
    ASSUME TypeInv, acts # << >>
    PROVE  /\ Len(acts) \in Nat /\ Len(acts) >= 1
           /\ Act = acts[Len(acts)]
           /\ Act \in ActivationType
           /\ Waiting(Act) /\ Act.at # "nested"
<1>1. /\ Len(acts) \in Nat /\ Len(acts) >= 1 /\ Act = acts[Len(acts)]
      /\ Act \in ActivationType
    BY LastFacts DEF TypeInv, ActsOK, Act
<1>2. QED BY <1>1 DEF TypeInv, ActsOK

LEMMA ContinueTyped ==
    ASSUME TypeInv, acts # << >>, NEW a \in ActivationType, Waiting(a),
           a.at # "nested", Continue(a), callLevel' = callLevel
    PROVE  ActsOK'
<1>1. /\ acts' \in Seq(ActivationType) /\ Len(acts') = Len(acts)
      /\ \A i \in 1 .. Len(acts) - 1 : acts'[i] = acts[i]
      /\ acts'[Len(acts)] = a
    BY ReplaceLastFacts DEF Continue, TypeInv, ActsOK
<1>2. Len(acts) \in Nat /\ Len(acts) >= 1
    BY ActTyped
<1>3. ASSUME NEW i \in 1 .. Len(acts)
      PROVE  Waiting(acts'[i]) /\ (acts'[i].at = "nested" <=> i < Len(acts))
    <2>1. CASE i = Len(acts)
        BY <1>1, <1>2, <2>1
    <2>2. CASE i # Len(acts)
        BY <1>1, <1>2, <2>2 DEF TypeInv, ActsOK
    <2>3. QED BY <2>1, <2>2
<1>4. QED BY <1>1, <1>3 DEF ActsOK, TypeInv, Waiting

(* An instruction that goes on to the next.                                 *)
LEMMA NextInstruction ==
    ASSUME TypeInv, acts # << >>, NEW a \in CodeAct, Continue(a),
           UNCHANGED << program, vm, mode, history >>, mem' \in Image
    PROVE  TypeInv'
<1>1. ActsOK'
    BY ContinueTyped DEF CodeAct, Waiting, vm
<1>2. TypeOK'
    BY <1>1 DEF TypeInv, TypeOK, ActsOK, vm, history
<1>3. QED BY <1>1, <1>2 DEF TypeInv, vm

LEMMA HandBackTyped ==
    ASSUME TypeInv, acts # << >>, NEW how, NEW value \in Word, HandBack(how, value)
    PROVE  ActsOK' /\ callLevel' \in Nat /\ returned'.value \in Word
<1> DEFINE callers == Front(acts)
           n == Len(callers)
           b == [callers[n] EXCEPT !.at = "handled", !.result = value]
<1>1. /\ callers \in Seq(ActivationType) /\ Len(callers) = Len(acts) - 1
      /\ \A i \in 1 .. Len(acts) - 1 : callers[i] = acts[i]
    BY FrontFacts DEF TypeInv, ActsOK
<1>2. Len(acts) \in Nat /\ Len(acts) >= 1
    BY ActTyped
<1>3. \A i \in 1 .. n : Waiting(callers[i]) /\ callers[i].at = "nested"
    BY <1>1, <1>2 DEF TypeInv, ActsOK
<1>4. callLevel' = n /\ n \in Nat /\ returned'.value = value
    BY <1>1, <1>2 DEF TypeInv, ActsOK, HandBack
<1>5. CASE callers = << >>
    <2>1. acts' = << >> /\ Len(acts') = 0 /\ acts' \in Seq(ActivationType)
        BY <1>5, EmptySeq DEF HandBack
    <2>2. n = 0
        BY <1>5, EmptySeq
    <2> HIDE DEF n
    <2>3. QED BY <2>1, <2>2, <1>4 DEF ActsOK
<1>6. CASE callers # << >>
    <2>1. n \in 1 .. n /\ callers[n] \in ActivationType
        BY <1>4, <1>6, <1>1, LastFacts
    <2>2. acts' = [callers EXCEPT ![n] = b]
        BY <1>6 DEF HandBack
    <2>3. b \in ActivationType /\ b.at = "handled" /\ Waiting(b)
        <3> DEFINE c == callers[n]
        <3>1. c \in ActivationType /\ Waiting(c) /\ c.at = "nested"
            BY <2>1, <1>3
        <3> HIDE DEF c
        <3>2. /\ [c EXCEPT !.at = "handled", !.result = value] \in ActivationType
              /\ [c EXCEPT !.at = "handled", !.result = value].at = "handled"
              /\ [c EXCEPT !.at = "handled", !.result = value].args = c.args
              /\ [c EXCEPT !.at = "handled", !.result = value].programStack
                     = c.programStack
            BY <3>1 DEF ActivationType
        <3>3. QED BY <3>1, <3>2 DEF Waiting, c
    <2> HIDE DEF b, callers
    <2>4. /\ acts' \in Seq(ActivationType) /\ Len(acts') = n
          /\ \A i \in 1 .. n - 1 : acts'[i] = callers[i]
          /\ acts'[n] = b
        BY <2>2, <2>3, <1>1, <1>6, ReplaceLastFacts
    <2>5. ASSUME NEW i \in 1 .. n
          PROVE  Waiting(acts'[i]) /\ (acts'[i].at = "nested" <=> i < n)
        <3>1. CASE i = n
            BY <2>3, <2>4, <3>1, <1>4
        <3>2. CASE i # n
            BY <1>3, <1>4, <2>4, <3>2
        <3>3. QED BY <3>1, <3>2
    <2> HIDE DEF n
    <2>6. QED BY <2>4, <2>5, <1>4 DEF ActsOK, Waiting
<1>7. QED BY <1>4, <1>5, <1>6

(* VM_Call returns through an error.                                        *)
LEMMA ErrorTyped ==
    ASSUME TypeInv, acts # << >>, NEW level \in vmErrorCode_t, ErrorReturn(level),
           mem' \in Image
    PROVE  TypeInv'
<1>1. -1 \in Word
    <2>1. PICK h \in Nat : W = 2 * h /\ W \div 2 = h /\ h > 0
        BY WordSize
    <2>2. QED BY <2>1 DEF Word
<1>2. HandBack("error", -1)
    BY DEF ErrorReturn
<1>3. ActsOK' /\ callLevel' \in Nat /\ returned'.value \in Word
    BY <1>1, <1>2, HandBackTyped
<1>4. TypeOK'
    BY <1>3 DEF TypeInv, TypeOK, ActsOK, ErrorReturn, Report
<1>5. QED BY <1>3, <1>4 DEF TypeInv, ErrorReturn

-----------------------------------------------------------------------------
(* One step per instruction, for their types.                               *)

LEMMA ProgramTyped ==
    ASSUME TypeInv
    PROVE  /\ codeBase \in [DOMAIN codeBase -> Word] /\ DOMAIN codeBase \subseteq Nat
           /\ codeLength \in Nat /\ instructionCount \in Nat
           /\ instructionPointers \in [0 .. instructionCount - 1 -> Nat]
    BY ProgramsAssumption
       DEF TypeInv, codeBase, codeLength, instructionCount, instructionPointers

LEMMA Executing ==
    ASSUME TypeInv, NEW op, Executes(op)
    PROVE  /\ acts # << >> /\ Act \in CodeAct /\ mem \in Image
           /\ R0 \in Word /\ R1 \in Word /\ R0 \in Int /\ R1 \in Int
           /\ Act.programStack \in Int /\ Act.programCounter \in Int
           /\ ReturnAddress \in Int
           /\ HasOperand(op) => R2 \in Word /\ R2 \in Int
<1>1. acts # << >> /\ Act.at = "code"
    BY DEF Executes, Running
<1>2. Act \in ActivationType
    BY <1>1, ActTyped
<1>3. /\ R0 \in Word /\ R1 \in Word
      /\ Act.programStack \in Int /\ Act.programCounter \in Int
    BY <1>2 DEF ActivationType, R0, R1
<1>4. HasOperand(op) => R2 \in Word
    BY ProgramTyped DEF Executes, R2
<1>5. Act \in CodeAct /\ mem \in Image
    BY <1>1, <1>2 DEF CodeAct, TypeInv, TypeOK
<1>6. ReturnAddress \in Int
    BY <1>3 DEF ReturnAddress
<1>7. \A w \in Word : w \in Int
    BY WordIsInt
<1>8. QED BY <1>1, <1>3, <1>4, <1>5, <1>6, <1>7

(* Moving the operand stack, or setting its new top, within a code segment. *)
LEMMA StackTyped ==
    ASSUME NEW a \in CodeAct, NEW n \in Int
    PROVE  /\ Moving(a, n) \in CodeAct /\ Over(a, n) \in CodeAct
           /\ Goto(a, n) \in CodeAct
           /\ \A v \in Word : Setting(a, n, v) \in CodeAct
    BY MovingTyped, OverTyped, GotoTyped, SettingTyped DEF CodeAct

LEMMA PushTyped ==
    ASSUME NEW a \in CodeAct, NEW v \in Word, NEW w \in Word
    PROVE  [Over(Setting(a, 1, v), 2) EXCEPT !.r0 = v, !.r1 = w] \in CodeAct
<1> DEFINE b == Over(Setting(a, 1, v), 2)
<1>1. b \in CodeAct
    BY StackTyped
<1> HIDE DEF b
<1>2. [b EXCEPT !.r0 = v, !.r1 = w] \in CodeAct
    BY <1>1 DEF CodeAct, ActivationType
<1>3. QED BY <1>2 DEF b

LEMMA ReplaceTyped ==
    ASSUME NEW a \in CodeAct, NEW v \in Word
    PROVE  [Over(Setting(a, 0, v), 1) EXCEPT !.r0 = v] \in CodeAct
<1> DEFINE b == Over(Setting(a, 0, v), 1)
<1>1. b \in CodeAct
    BY StackTyped
<1> HIDE DEF b
<1>2. [b EXCEPT !.r0 = v] \in CodeAct
    BY <1>1 DEF CodeAct, ActivationType
<1>3. QED BY <1>2 DEF b

LEMMA QuietTyped ==
    ASSUME TypeInv, Nop \/ Const \/ Local \/ Push \/ Pop \/ UnaryOp \/ BinaryOp
    PROVE  TypeInv'
<1> SUFFICES ASSUME NEW op, Executes(op), Quiet,
                    \E a \in CodeAct : Continue(a)
             PROVE  TypeInv'
    <2>1. CASE Nop
        <3>1. PICK op : Executes(op) /\ Quiet /\ Continue(Over(Act, 1))
            BY <2>1 DEF Nop
        <3>2. QED BY <3>1, Executing, StackTyped
    <2>2. CASE Const
        <3>1. Executes("OP_CONST") /\ Quiet /\ PushValue(R2)
            BY <2>2 DEF Const
        <3>2. Act \in CodeAct /\ R0 \in Word /\ R2 \in Word
            BY <3>1, Executing DEF HasOperand, WordOperand
        <3>3. QED BY <3>1, <3>2, PushTyped DEF PushValue
    <2>3. CASE Local
        <3>1. /\ Executes("OP_LOCAL") /\ Quiet
              /\ PushValue(ToWord(R2 + Act.programStack))
            BY <2>3 DEF Local
        <3>2. /\ Act \in CodeAct /\ R0 \in Word /\ R2 \in Int
              /\ Act.programStack \in Int
            BY <3>1, Executing DEF HasOperand, WordOperand
        <3>3. ToWord(R2 + Act.programStack) \in Word
            BY <3>2, ToWordFacts
        <3>4. QED BY <3>1, <3>2, <3>3, PushTyped DEF PushValue
    <2>4. CASE Push
        <3>1. /\ Executes("OP_PUSH") /\ Quiet
              /\ Continue(Reload(Over(Moving(Act, 1), 1)))
            BY <2>4 DEF Push
        <3>2. QED BY <3>1, Executing, StackTyped, ReloadCode
    <2>5. CASE Pop
        <3>1. /\ Executes("OP_POP") /\ Quiet
              /\ Continue(Reload(Over(Moving(Act, -1), 1)))
            BY <2>5 DEF Pop
        <3>2. QED BY <3>1, Executing, StackTyped, ReloadCode
    <2>6. CASE UnaryOp
        <3>1. PICK op \in Unary :
                  /\ Executes(op) /\ Quiet
                  /\ \E v \in Conversion(op, R0) :
                        Continue(Reload(Over(Setting(Act, 0, v), 1)))
            BY <2>6 DEF UnaryOp
        <3>2. PICK v \in Conversion(op, R0) :
                  Continue(Reload(Over(Setting(Act, 0, v), 1)))
            BY <3>1
        <3>3. v \in Word /\ Act \in CodeAct
            BY <3>1, Executing, ConversionFacts
        <3>4. QED BY <3>1, <3>2, <3>3, StackTyped, ReloadCode
    <2>7. CASE BinaryOp
        <3>1. PICK op \in Binary :
                  /\ Executes(op) /\ Quiet
                  /\ \E v \in Arithmetic(op, R1, R0) :
                        Continue(Reload(Over(Setting(Act, -1, v), 1)))
            BY <2>7 DEF BinaryOp
        <3>2. PICK v \in Arithmetic(op, R1, R0) :
                  Continue(Reload(Over(Setting(Act, -1, v), 1)))
            BY <3>1
        <3>3. v \in Word /\ Act \in CodeAct
            BY <3>1, Executing, ArithmeticFacts
        <3>4. QED BY <3>1, <3>2, <3>3, StackTyped, ReloadCode
    <2>8. QED BY <2>1, <2>2, <2>3, <2>4, <2>5, <2>6, <2>7
<1>1. acts # << >> /\ mem' \in Image
    BY Executing DEF Quiet
<1>2. QED BY <1>1, NextInstruction DEF Quiet

LEMMA BranchTyped ==
    ASSUME TypeInv, Branch \/ Jump
    PROVE  TypeInv'
<1>1. CASE Branch
    <2> DEFINE moved == Moving(Act, -2)
    <2>1. PICK op \in Branches :
              /\ Executes(op) /\ Quiet
              /\ \E taken \in Outcomes(op, R1, R0) :
                    Continue(Reload(IF taken THEN Goto(moved, R2) ELSE Over(moved, 2)))
        BY <1>1 DEF Branch
    <2>2. Act \in CodeAct /\ R2 \in Int /\ acts # << >> /\ mem \in Image
        BY <2>1, Executing DEF HasOperand, WordOperand
    <2>3. Goto(moved, R2) \in CodeAct /\ Over(moved, 2) \in CodeAct
        BY <2>2, StackTyped
    <2> HIDE DEF moved
    <2>4. PICK taken : Continue(Reload(IF taken THEN Goto(moved, R2)
                                                ELSE Over(moved, 2)))
        BY <2>1
    <2>5. (IF taken THEN Goto(moved, R2) ELSE Over(moved, 2)) \in CodeAct
        BY <2>3
    <2>6. QED BY <2>1, <2>2, <2>4, <2>5, ReloadCode, NextInstruction DEF Quiet
<1>2. CASE Jump
    <2>1. acts # << >> /\ Act \in CodeAct /\ mem \in Image
        BY <1>2, Executing DEF Jump
    <2>2. CASE ErrorReturn(VM_PC_OUT_OF_RANGE) /\ UNCHANGED mem
        <3>1. VM_PC_OUT_OF_RANGE \in vmErrorCode_t
            BY DEF VM_PC_OUT_OF_RANGE, vmErrorCode_t
        <3>2. QED BY <2>1, <2>2, <3>1, ErrorTyped
    <2> DEFINE a == Moving(Goto(Act, instructionPointers[R0]), -1)
    <2>3. CASE IsInstruction(R0) /\ Continue(Reload(a)) /\ Quiet
        <3>1. instructionPointers[R0] \in Int
            BY <2>3, ProgramTyped DEF IsInstruction
        <3>2. a \in CodeAct
            BY <2>1, <3>1, StackTyped
        <3> HIDE DEF a
        <3>3. QED BY <2>1, <2>3, <3>2, ReloadCode, NextInstruction DEF Quiet
    <2>4. QED BY <1>2, <2>2, <2>3 DEF Jump
<1>3. QED BY <1>1, <1>2

(* A range that the mask leaves alone is in the image.                      *)
LEMMA RangeFacts ==
    ASSUME NEW a \in Word, NEW n \in Int, n >= 0, RangeMasked(a, n)
    PROVE  a \in Nat /\ a + n <= DataMask + 5
    BY UnsignedFacts, MaskAssumption, WordIsInt DEF RangeMasked

LEMMA MemoryTyped ==
    ASSUME TypeInv, LoadOp \/ StoreOp \/ Arg \/ BlockCopy
    PROVE  TypeInv'
<1>1. CASE LoadOp
    <2>1. PICK op \in Loads :
              /\ Executes(op)
              /\ \/ /\ Continue([Over(Setting(Act, 0, Fetched(op)), 1)
                                    EXCEPT !.r0 = Fetched(op)])
                    /\ Quiet
                 \/ ErrorReturn(VM_OP_LOAD4_MISALIGNED) /\ UNCHANGED mem
        BY <1>1 DEF LoadOp
    <2>2. acts # << >> /\ Act \in CodeAct /\ mem \in Image /\ R0 \in Word
        BY <2>1, Executing
    <2>3. CASE ErrorReturn(VM_OP_LOAD4_MISALIGNED) /\ UNCHANGED mem
        <3>1. VM_OP_LOAD4_MISALIGNED \in vmErrorCode_t
            BY DEF VM_OP_LOAD4_MISALIGNED, vmErrorCode_t
        <3>2. QED BY <2>2, <2>3, <3>1, ErrorTyped
    <2>4. CASE /\ Continue([Over(Setting(Act, 0, Fetched(op)), 1)
                               EXCEPT !.r0 = Fetched(op)])
               /\ Quiet
        <3>1. Fetched(op) \in Word
            BY <2>2, FetchedFacts
        <3>2. QED BY <2>2, <2>4, <3>1, ReplaceTyped, NextInstruction DEF Quiet
    <2>5. QED BY <2>1, <2>3, <2>4
<1>2. CASE StoreOp
    <2>1. PICK op \in Stores : /\ Executes(op)
                               /\ mem' = Put(mem, Masked(R1), Width(op), R0)
        BY <1>2 DEF StoreOp
    <2>2. /\ acts # << >> /\ Act \in CodeAct /\ mem \in Image
          /\ R0 \in Int /\ R1 \in Int
        BY <2>1, Executing
    <2>3. mem' \in Image
        <3>1. Masked(R1) \in Int /\ Width(op) \in Int
            BY <2>2, MaskedFacts, MaskAssumption DEF Width
        <3>2. QED BY <2>1, <2>2, <3>1, PutFacts
    <2>4. Reload(Over(Moving(Act, -2), 1)) \in CodeAct
        BY <2>2, StackTyped, ReloadCode
    <2>5. QED BY <1>2, <2>2, <2>3, <2>4, NextInstruction DEF StoreOp
<1>3. CASE Arg
    <2>1. /\ acts # << >> /\ Act \in CodeAct /\ mem \in Image
          /\ R0 \in Int /\ R2 \in Int /\ Act.programStack \in Int
        BY <1>3, Executing DEF Arg, HasOperand, ByteOperand
    <2>2. mem' \in Image
        <3> DEFINE a == R2 + Act.programStack
        <3>1. a \in Int
            BY <2>1
        <3> HIDE DEF a
        <3>2. Masked(a) \in Int
            BY <3>1, MaskedFacts
        <3>3. QED BY <1>3, <2>1, <3>2, PutWordFacts DEF Arg, a
    <2>3. Reload(Over(Moving(Act, -1), 2)) \in CodeAct
        BY <2>1, StackTyped, ReloadCode
    <2>4. QED BY <1>3, <2>1, <2>2, <2>3, NextInstruction DEF Arg
<1>4. CASE BlockCopy
    <2>1. /\ acts # << >> /\ Act \in CodeAct /\ mem \in Image
          /\ R0 \in Word /\ R1 \in Word /\ R2 \in Int
        BY <1>4, Executing DEF BlockCopy, HasOperand, WordOperand
    <2>2. mem' \in Image
        <3>1. CASE CopyInRange
            <4>1. R2 >= 0 /\ mem' \in Memcpy(mem, R1, R0, R2)
                BY <1>4, <3>1 DEF BlockCopy
            <4>2. R1 \in Nat /\ R0 \in Nat /\ R0 + R2 <= DataMask + 5
                BY <2>1, <3>1, <4>1, RangeFacts DEF CopyInRange
            <4>3. R2 \in Nat
                BY <2>1, <4>1
            <4>4. QED BY <2>1, <4>1, <4>2, <4>3, MemcpyFacts
        <3>2. CASE ~ CopyInRange
            BY <1>4, <2>1, <3>2 DEF BlockCopy
        <3>3. QED BY <3>1, <3>2
    <2>3. lastError' \in vmErrorCode_t /\ reported' \in vmErrorCode_t
        <3>1. VM_BLOCKCOPY_OUT_OF_RANGE \in vmErrorCode_t
            BY DEF vmErrorCode_t, VM_BLOCKCOPY_OUT_OF_RANGE
        <3>2. \/ Report(VM_BLOCKCOPY_OUT_OF_RANGE)
              \/ UNCHANGED << lastError, reported >>
            BY <1>4 DEF BlockCopy
        <3>3. QED BY <3>1, <3>2 DEF TypeInv, TypeOK, Report
    <2>4. Reload(Over(Moving(Act, -2), 2)) \in CodeAct
        BY <2>1, StackTyped, ReloadCode
    <2>5. ActsOK'
        BY <1>4, <2>1, <2>4, ContinueTyped DEF BlockCopy, CodeAct, Waiting
    <2>6. TypeOK'
        BY <1>4, <2>2, <2>3, <2>5 DEF BlockCopy, TypeInv, TypeOK, ActsOK
    <2>7. QED BY <1>4, <2>5, <2>6 DEF BlockCopy, TypeInv
<1>5. QED BY <1>1, <1>2, <1>3, <1>4

(* The two codes of an instruction that ends the call.                      *)
LEMMA FaultCodes ==
    /\ VM_PC_OUT_OF_RANGE \in vmErrorCode_t /\ VM_BAD_INSTRUCTION \in vmErrorCode_t
    /\ VM_STACK_OVERFLOW \in vmErrorCode_t /\ VM_STACK_MISALIGNED \in vmErrorCode_t
    /\ VM_STACK_ERROR \in vmErrorCode_t /\ VM_DATA_OUT_OF_RANGE \in vmErrorCode_t
    /\ VM_NO_ERROR \in vmErrorCode_t
    BY DEF VM_PC_OUT_OF_RANGE, VM_BAD_INSTRUCTION, VM_STACK_OVERFLOW,
           VM_STACK_MISALIGNED, VM_STACK_ERROR, VM_DATA_OUT_OF_RANGE, VM_NO_ERROR,
           vmErrorCode_t

LEMMA EnterTyped ==
    ASSUME TypeInv, Enter
    PROVE  TypeInv'
<1> DEFINE ps == ToWord(Act.programStack - R2)
           a  == [Act EXCEPT !.programStack = ps]
<1>1. /\ acts # << >> /\ Act \in CodeAct /\ mem \in Image
      /\ R2 \in Int /\ Act.programStack \in Int
    BY Executing DEF Enter, HasOperand, WordOperand
<1>2. ps \in Int
    <2>1. Act.programStack - R2 \in Int
        BY <1>1
    <2>2. QED BY <2>1, ToWordFacts, WordIsInt
<1>3. /\ mem' = IF DebugVm THEN PutWord(mem, ps + 4, Act.programStack) ELSE mem
      /\ Continue(Reload(Over(a, 2)))
      /\ UNCHANGED << program, vm, mode, history >>
    BY DEF Enter
<1> HIDE DEF ps
<1>4. mem' \in Image
    <2>1. ps + 4 \in Int
        BY <1>2
    <2>2. PutWord(mem, ps + 4, Act.programStack) \in Image
        BY <1>1, <2>1, PutWordFacts
    <2>3. QED BY <1>1, <1>3, <2>2
<1>5. a \in CodeAct
    BY <1>1, <1>2 DEF CodeAct, ActivationType
<1> HIDE DEF a
<1>6. Reload(Over(a, 2)) \in CodeAct
    BY <1>5, StackTyped, ReloadCode
<1>7. QED BY <1>1, <1>3, <1>4, <1>6, NextInstruction

LEMMA LeaveTyped ==
    ASSUME TypeInv, Leave
    PROVE  TypeInv'
<1> DEFINE ps == ToWord(Act.programStack + R2)
           pc == WordAt(mem, ps)
           a  == [Act EXCEPT !.programStack = ps, !.frames = Unwound(@, ps)]
<1>1. /\ acts # << >> /\ Act \in CodeAct /\ mem \in Image
      /\ R2 \in Int /\ Act.programStack \in Int
    BY Executing DEF Leave, HasOperand, WordOperand
<1>2. ps \in Int
    <2>1. Act.programStack + R2 \in Int
        BY <1>1
    <2>2. QED BY <2>1, ToWordFacts, WordIsInt
<1>3. /\ InImage(ps, 4)
      /\ \/ Continue(Reload(Goto(a, pc))) /\ Quiet
         \/ ErrorReturn(VM_PC_OUT_OF_RANGE) /\ UNCHANGED mem
    BY DEF Leave
<1> HIDE DEF ps
<1>4. pc \in Int
    BY <1>1, <1>2, <1>3, ReadFacts, WordIsInt
<1>5. a \in CodeAct
    BY <1>1, <1>2, UnwoundTyped DEF CodeAct, ActivationType
<1> HIDE DEF a, pc
<1>6. Reload(Goto(a, pc)) \in CodeAct
    BY <1>4, <1>5, StackTyped, ReloadCode
<1>7. CASE Continue(Reload(Goto(a, pc))) /\ Quiet
    BY <1>1, <1>6, <1>7, NextInstruction DEF Quiet
<1>8. CASE ErrorReturn(VM_PC_OUT_OF_RANGE) /\ UNCHANGED mem
    BY <1>1, <1>8, FaultCodes, ErrorTyped
<1>9. QED BY <1>3, <1>7, <1>8

LEMMA DoneTyped ==
    ASSUME TypeInv, Done
    PROVE  TypeInv'
<1> DEFINE value == Act.opStack[Act.opStackOfs]
<1>1. acts # << >> /\ Act \in CodeAct
    BY Executing DEF Done
<1>2. value \in Word /\ Act.stackOnEntry \in Word
    BY <1>1 DEF CodeAct, ActivationType
<1>3. /\ HandBack("done", value) /\ programStack' = Act.stackOnEntry
      /\ currentlyInterpreting' = FALSE
      /\ Report(VM_STACK_ERROR) \/ UNCHANGED << lastError, reported >>
      /\ UNCHANGED << program, mem, mode, calls, faulted >>
    BY DEF Done
<1> HIDE DEF value
<1>4. ActsOK' /\ callLevel' \in Nat /\ returned'.value \in Word
    BY <1>1, <1>2, <1>3, HandBackTyped
<1>5. lastError' \in vmErrorCode_t /\ reported' \in vmErrorCode_t
    BY <1>3, FaultCodes DEF TypeInv, TypeOK, Report
<1>6. programStack' \in Word /\ programStack' \in Int
    BY <1>2, <1>3, WordIsInt
<1>7. TypeOK'
    BY <1>3, <1>4, <1>5, <1>6 DEF TypeInv, TypeOK, ActsOK
<1>8. QED BY <1>3, <1>4, <1>6, <1>7 DEF TypeInv

LEMMA CallFunctionTyped ==
    ASSUME TypeInv, CallFunction
    PROVE  TypeInv'
<1> DEFINE f == Framed(Act)
           a == Goto(f, instructionPointers[R0])
<1>1. /\ acts # << >> /\ Act \in CodeAct /\ mem \in Image
      /\ Act.programStack \in Int /\ ReturnAddress \in Int
    BY Executing DEF CallFunction
<1>2. mem' \in Image
    BY <1>1, PutWordFacts DEF CallFunction
<1>3. f \in CodeAct
    BY <1>1, FramedTyped DEF CodeAct
<1> HIDE DEF f
<1>4. CASE /\ IsInstruction(R0) /\ Continue(Reload(Moving(a, -1)))
           /\ UNCHANGED << program, vm, mode, history >>
    <2>1. instructionPointers[R0] \in Int
        BY <1>4, ProgramTyped DEF IsInstruction
    <2>2. Reload(Moving(a, -1)) \in CodeAct
        BY <1>3, <2>1, StackTyped, ReloadCode
    <2>3. QED BY <1>1, <1>2, <1>4, <2>2, NextInstruction
<1>5. CASE ErrorReturn(VM_PC_OUT_OF_RANGE)
    BY <1>1, <1>2, <1>5, FaultCodes, ErrorTyped
<1>6. QED BY <1>4, <1>5 DEF CallFunction, f

(* The frame of a system call has room for the words read and written.      *)
LEMMA SyscallFrameFacts ==
    ASSUME NEW ps \in Int, InImage(ps, SyscallFrame)
    PROVE  /\ InImage(ps, 4) /\ InImage(ps + 4, 4)
           /\ ps - 4 \in Word
<1>1. MaxSyscallArgs \in Nat /\ MaxSyscallArgs >= 4
    BY InterpreterAssumption
<1>2. PICK h \in Nat : W = 2 * h /\ W \div 2 = h /\ h >= 8
    BY WordSize
<1>3. DataMask \in Nat /\ DataMask + 1 < h
    BY <1>2, MaskAssumption
<1>4. 0 <= ps /\ ps + 20 <= DataMask + 5
    BY <1>1, <1>3 DEF InImage, SyscallFrame
<1>5. ps - 4 \in Word
    BY <1>2, <1>3, <1>4 DEF Word
<1>6. QED BY <1>3, <1>4, <1>5 DEF InImage

(* A row of words of an image, one of which may start each argument.        *)
LEMMA ArgumentsTyped ==
    ASSUME NEW m \in Image, NEW ps \in Int, InImage(ps, SyscallFrame)
    PROVE  [i \in 0 .. MaxSyscallArgs - 1 |-> WordAt(m, ps + 4 + 4 * i)]
               \in [0 .. MaxSyscallArgs - 1 -> Word]
<1>1. ASSUME NEW i \in 0 .. MaxSyscallArgs - 1
      PROVE  WordAt(m, ps + 4 + 4 * i) \in Word
    <2>1. ps + 4 + 4 * i \in Int /\ InImage(ps + 4 + 4 * i, 4)
        BY InterpreterAssumption, MaskAssumption DEF InImage, SyscallFrame
    <2>2. QED BY <2>1, ReadFacts
<1>2. QED BY <1>1

LEMMA SystemCallTyped ==
    ASSUME TypeInv, SystemCall
    PROVE  TypeInv'
<1> DEFINE ps     == Act.programStack
           called == PutWord(mem, ps, ReturnAddress)
           words  == [i \in 0 .. MaxSyscallArgs - 1 |-> WordAt(mem', ps + 4 + 4 * i)]
           word   == WordAt(called, ps + 4)
           m      == Moving(Framed(Act), -1)
           a      == [m EXCEPT !.at = "handler", !.stomped = word, !.args = words]
<1>1. /\ acts # << >> /\ Act \in CodeAct /\ mem \in Image
      /\ ps \in Int /\ ReturnAddress \in Int /\ R0 \in Int
    BY Executing DEF SystemCall
<1>2. /\ InImage(ps, SyscallFrame)
      /\ programStack' = ps - 4
      /\ mem' = PutWord(called, ps + 4, -1 - R0)
      /\ Continue(a)
      /\ UNCHANGED << program, currentlyInterpreting, callLevel, lastError, mode,
                      history >>
    BY DEF SystemCall, SyscallFrame
<1>3. called \in Image
    BY <1>1, PutWordFacts
<1>4. mem' \in Image
    <2> HIDE DEF called
    <2>1. ps + 4 \in Int /\ -1 - R0 \in Int
        BY <1>1
    <2>2. QED BY <1>2, <1>3, <2>1, PutWordFacts
<1>5. words \in [0 .. MaxSyscallArgs - 1 -> Word]
    BY <1>1, <1>2, <1>4, ArgumentsTyped
<1>6. word \in Word
    <2>1. ps + 4 \in Int /\ InImage(ps + 4, 4)
        BY <1>1, <1>2, SyscallFrameFacts
    <2> HIDE DEF called
    <2>2. QED BY <1>3, <2>1, ReadFacts
<1>7. m \in ActivationType /\ m.programStack = ps
    <2>1. Framed(Act) \in ActivationType /\ Framed(Act).programStack = ps
        BY <1>1, FramedTyped DEF CodeAct
    <2>2. QED BY <2>1, MovingTyped
<1>8. programStack' \in Word /\ programStack' \in Int
    <2>1. ps - 4 \in Word
        BY <1>1, <1>2, SyscallFrameFacts
    <2>2. QED BY <1>2, <2>1, WordIsInt
<1> HIDE DEF m, words, word, called
<1>9. /\ a \in ActivationType /\ a.at = "handler"
      /\ a.programStack = ps /\ a.args = words
    BY <1>5, <1>6, <1>7 DEF ActivationType
<1> HIDE DEF a
<1>10. ActsOK'
    BY <1>1, <1>2, <1>5, <1>9, ContinueTyped DEF Waiting
<1>11. TypeOK'
    BY <1>2, <1>4, <1>8, <1>10 DEF TypeInv, TypeOK, ActsOK, history
<1>12. QED BY <1>2, <1>8, <1>10, <1>11 DEF TypeInv

LEMMA SystemReturnTyped ==
    ASSUME TypeInv, SystemReturn
    PROVE  TypeInv'
<1> DEFINE ps       == Act.programStack
           restored == IF DebugVm THEN PutWord(mem, ps + 4, Act.stomped) ELSE mem
           pc       == WordAt(restored, ps)
           m        == Setting(Act, 1, Act.result)
           a        == [m EXCEPT !.at = "code", !.frames = Unwound(@, ps)]
<1>1. /\ acts # << >> /\ Act.at = "handled"
      /\ mem' = restored
      /\ Continue(Reload(Goto(a, pc)))
      /\ UNCHANGED << program, vm, mode, history >>
    BY DEF SystemReturn
<1>2. Act \in ActivationType /\ InImage(ps, SyscallFrame)
    BY <1>1, ActTyped DEF Waiting
<1>3. ps \in Int /\ Act.result \in Word /\ Act.stomped \in Word /\ Act.stomped \in Int
    <2>1. ps \in Int /\ Act.result \in Word /\ Act.stomped \in Word
        BY <1>2 DEF ActivationType
    <2>2. QED BY <2>1, WordIsInt
<1>4. restored \in Image
    BY <1>3, PutWordFacts DEF TypeInv, TypeOK
<1> HIDE DEF restored
<1>5. pc \in Int
    <2>1. InImage(ps, 4)
        BY <1>2, <1>3, SyscallFrameFacts
    <2>2. QED BY <1>3, <1>4, <2>1, ReadFacts, WordIsInt
<1>6. m \in ActivationType
    BY <1>2, <1>3, SettingTyped
<1> HIDE DEF m, pc
<1>7. a \in CodeAct
    BY <1>6, UnwoundTyped DEF CodeAct, ActivationType
<1> HIDE DEF a
<1>8. Reload(Goto(a, pc)) \in CodeAct
    BY <1>5, <1>7, StackTyped, ReloadCode
<1>9. QED BY <1>1, <1>4, <1>8, NextInstruction

LEMMA CallersTyped ==
    ASSUME TypeInv, acts # << >> => Act.at = "handler", NEW callers,
           callers = IF acts = << >> THEN acts
                     ELSE [acts EXCEPT ![Len(acts)] = [@ EXCEPT !.at = "nested"]]
    PROVE  /\ callers \in Seq(ActivationType) /\ Len(callers) = Len(acts)
           /\ \A i \in 1 .. Len(acts) : Waiting(callers[i]) /\ callers[i].at = "nested"
<1>1. CASE acts = << >>
    <2>1. Len(acts) = 0
        BY <1>1, EmptySeq
    <2>2. QED BY <1>1, <2>1 DEF TypeInv, ActsOK
<1>2. CASE acts # << >>
    <2> DEFINE b == [Act EXCEPT !.at = "nested"]
    <2>1. /\ Len(acts) \in Nat /\ Len(acts) >= 1 /\ Act = acts[Len(acts)]
          /\ Act \in ActivationType /\ Waiting(Act) /\ Act.at = "handler"
        BY <1>2, ActTyped
    <2>2. callers = [acts EXCEPT ![Len(acts)] = b]
        BY <1>2, <2>1
    <2>3. /\ b \in ActivationType /\ b.at = "nested"
          /\ b.args = Act.args /\ b.programStack = Act.programStack
        BY <2>1 DEF ActivationType
    <2>4. Waiting(b)
        BY <2>1, <2>3 DEF Waiting
    <2> HIDE DEF b
    <2>5. /\ callers \in Seq(ActivationType) /\ Len(callers) = Len(acts)
          /\ \A i \in 1 .. Len(acts) - 1 : callers[i] = acts[i]
          /\ callers[Len(acts)] = b
        BY <1>2, <2>2, <2>3, ReplaceLastFacts DEF TypeInv, ActsOK
    <2>6. ASSUME NEW i \in 1 .. Len(acts)
          PROVE  Waiting(callers[i]) /\ callers[i].at = "nested"
        <3>1. CASE i = Len(acts)
            BY <2>3, <2>4, <2>5, <3>1
        <3>2. CASE i # Len(acts)
            BY <2>1, <2>5, <3>2 DEF TypeInv, ActsOK
        <3>3. QED BY <3>1, <3>2
    <2>7. QED BY <2>5, <2>6
<1>3. QED BY <1>1, <1>2

LEMMA NewTyped ==
    ASSUME NEW stack \in Word, NEW ps \in Int, NEW opStack \in [OpStackIndex -> Word],
           NEW args \in [0 .. MaxVmMainArgs - 1 -> Word], NEW new,
           new = [stackOnEntry |-> stack, programStack |-> ps,
                  programCounter |-> 0, opStack |-> opStack, opStackOfs |-> 0,
                  r0 |-> opStack[0], r1 |-> opStack[OpStackSize - 1],
                  at |-> "code", args |-> << >>, result |-> 0, stomped |-> 0,
                  entry |-> args, frames |-> {[at |-> ps, pc |-> -1]}]
    PROVE  new \in CodeAct
<1>1. 0 \in OpStackIndex /\ OpStackSize - 1 \in OpStackIndex
    BY InterpreterAssumption DEF OpStackIndex
<1>2. opStack[0] \in Word /\ opStack[OpStackSize - 1] \in Word /\ 0 \in Word
    BY <1>1, SmallWords
<1>3. {[at |-> ps, pc |-> -1]} \in SUBSET [at : Int, pc : Int]
    OBVIOUS
<1> DEFINE x == opStack[0]
           y == opStack[OpStackSize - 1]
           f == {[at |-> ps, pc |-> -1]}
<1>4. new = [stackOnEntry |-> stack, programStack |-> ps,
             programCounter |-> 0, opStack |-> opStack, opStackOfs |-> 0,
             r0 |-> x, r1 |-> y, at |-> "code", args |-> << >>, result |-> 0,
             stomped |-> 0, entry |-> args, frames |-> f]
    OBVIOUS
<1>5. x \in Word /\ y \in Word /\ f \in SUBSET [at : Int, pc : Int] /\ 0 \in Int
    BY <1>2, <1>3
<1> HIDE DEF x, y, f
<1>6. new.at = "code" /\ new \in ActivationType
    BY <1>1, <1>2, <1>4, <1>5 DEF ActivationType
<1>7. QED BY <1>6 DEF CodeAct

LEMMA BeginTyped ==
    ASSUME TypeInv, acts # << >> => Act.at = "handler",
           NEW args \in [0 .. MaxVmMainArgs - 1 -> Word], BeginCall(args),
           calls' \in 0 .. MaxCalls
    PROVE  TypeInv'
<1> DEFINE ps      == programStack - EntryFrame
           words   == [i \in 0 .. 1 + MaxVmMainArgs |->
                          CASE i = 0 -> -1 [] i = 1 -> 0 [] OTHER -> args[i - 2]]
           callers == IF acts = << >> THEN acts
                      ELSE [acts EXCEPT ![Len(acts)] = [@ EXCEPT !.at = "nested"]]
           OpStack(rest) == [i \in OpStackIndex |-> IF i = 0 THEN Canary ELSE rest[i]]
           New(opStack) ==
              [stackOnEntry |-> programStack, programStack |-> ps,
               programCounter |-> 0, opStack |-> opStack, opStackOfs |-> 0,
               r0 |-> opStack[0], r1 |-> opStack[OpStackSize - 1],
               at |-> "code", args |-> << >>, result |-> 0, stomped |-> 0,
               entry |-> args, frames |-> {[at |-> ps, pc |-> -1]}]
<1>1. /\ callLevel' = callLevel + 1 /\ currentlyInterpreting' = TRUE
      /\ mem' = PutWords(mem, ps, 2 + MaxVmMainArgs, words)
      /\ UNCHANGED << program, programStack, lastError, mode, reported, faulted,
                      returned >>
    BY DEF BeginCall
<1>2. PICK rest \in OpStacks : acts' = Append(callers, New(OpStack(rest)))
    BY DEF BeginCall
<1>3. ps \in Int
    BY InterpreterAssumption DEF TypeInv, TypeOK, EntryFrame
<1>4. OpStack(rest) \in [OpStackIndex -> Word]
    <2>1. rest \in [1 .. OpStackSize - 1 -> Word] /\ Canary \in Word
        BY InterpreterAssumption
    <2>2. ASSUME NEW k \in OpStackIndex, k # 0 PROVE rest[k] \in Word
        BY <2>1, <2>2, InterpreterAssumption DEF OpStackIndex
    <2>3. QED BY <2>1, <2>2
<1>5. mem' \in Image
    <2>1. MaxVmMainArgs \in Nat
        BY InterpreterAssumption
    <2>2. ASSUME NEW i \in 0 .. 1 + MaxVmMainArgs PROVE words[i] \in Int
        <3>1. CASE i = 0 \/ i = 1
            BY <3>1
        <3>2. CASE i # 0 /\ i # 1
            <4>1. i - 2 \in 0 .. MaxVmMainArgs - 1
                BY <2>1, <3>2
            <4>2. args[i - 2] \in Int
                BY <4>1, WordIsInt
            <4>3. QED BY <3>2, <4>2
        <3>3. QED BY <3>1, <3>2
    <2> DEFINE n == 2 + MaxVmMainArgs
    <2>3. n \in Nat /\ words \in [0 .. n - 1 -> Int]
        <3>1. words \in [0 .. 1 + MaxVmMainArgs -> Int]
            BY <2>2
        <3>2. 0 .. n - 1 = 0 .. 1 + MaxVmMainArgs
            BY <2>1
        <3>3. QED BY <2>1, <3>1, <3>2
    <2> HIDE DEF n, words, ps
    <2>4. PutWords(mem, ps, n, words) \in Image
        BY <1>3, <2>3, PutWordsFacts DEF TypeInv, TypeOK
    <2>5. QED BY <1>1, <2>4 DEF n
<1> DEFINE new == New(OpStack(rest))
<1>6. new \in CodeAct
    <2> HIDE DEF OpStack, ps
    <2>1. programStack \in Word
        BY DEF TypeInv
    <2>2. QED BY <1>3, <1>4, <2>1, NewTyped
<1>7. /\ callers \in Seq(ActivationType) /\ Len(callers) = Len(acts)
      /\ \A i \in 1 .. Len(acts) : Waiting(callers[i]) /\ callers[i].at = "nested"
    BY CallersTyped
<1>8. acts' = Append(callers, new)
    BY <1>2
<1> HIDE DEF new, callers, words, ps
<1>9. new \in ActivationType /\ new.at = "code" /\ Waiting(new)
    BY <1>6 DEF CodeAct, Waiting
<1>10. Len(acts) \in Nat
    BY LenProperties DEF TypeInv, ActsOK
<1>11. /\ acts' \in Seq(ActivationType) /\ Len(acts') = Len(acts) + 1
       /\ \A i \in 1 .. Len(acts) : acts'[i] = callers[i]
       /\ acts'[Len(acts) + 1] = new
    BY <1>7, <1>8, <1>9, AppendProperties
<1>12. ASSUME NEW i \in 1 .. Len(acts')
       PROVE  Waiting(acts'[i]) /\ (acts'[i].at = "nested" <=> i < Len(acts'))
    <2>1. CASE i = Len(acts) + 1
        BY <1>9, <1>10, <1>11, <2>1
    <2>2. CASE i # Len(acts) + 1
        <3>1. i \in 1 .. Len(acts) /\ i < Len(acts')
            BY <1>10, <1>11, <2>2
        <3>2. QED BY <1>7, <1>11, <3>1
    <2>3. QED BY <2>1, <2>2
<1>13. ActsOK'
    BY <1>1, <1>11, <1>12 DEF ActsOK, TypeInv, Waiting
<1>14. TypeOK'
    BY <1>1, <1>5, <1>10, <1>11, <1>13 DEF TypeInv, TypeOK, ActsOK
<1>15. QED BY <1>1, <1>13, <1>14 DEF TypeInv

-----------------------------------------------------------------------------
(* The host's handlers.                                                     *)

LEMMA HandlingTyped ==
    ASSUME TypeInv, Handling
    PROVE  /\ acts # << >> /\ Act \in ActivationType /\ Act.at = "handler"
           /\ \A k \in 0 .. 3 : Act.args[k] \in Word /\ Act.args[k] \in Int
<1>1. /\ acts # << >> /\ Act \in ActivationType /\ Act.at = "handler"
      /\ Act.args \in [0 .. MaxSyscallArgs - 1 -> Word]
    BY ActTyped DEF Handling, Waiting
<1>2. 0 .. 3 \subseteq 0 .. MaxSyscallArgs - 1
    BY InterpreterAssumption
<1>3. \A k \in 0 .. 3 : Act.args[k] \in Word
    BY <1>1, <1>2
<1>4. QED BY <1>1, <1>3, WordIsInt

LEMMA ReturningTyped ==
    ASSUME TypeInv, Handling, NEW value \in Word, HandlerReturns(value),
           HostQuiet, mem' \in Image, reported' \in vmErrorCode_t
    PROVE  TypeInv'
<1> DEFINE a == [Act EXCEPT !.at = "handled", !.result = value]
<1>1. /\ acts # << >> /\ Act \in ActivationType /\ Waiting(Act)
      /\ Act.at = "handler"
    BY ActTyped DEF Handling
<1>2. /\ a \in ActivationType /\ a.at = "handled"
      /\ a.args = Act.args /\ a.programStack = Act.programStack
    BY <1>1 DEF ActivationType
<1>3. Continue(a)
    BY DEF HandlerReturns
<1>4. Waiting(a)
    BY <1>1, <1>2 DEF Waiting
<1> HIDE DEF a
<1>5. ActsOK'
    BY <1>1, <1>2, <1>3, <1>4, ContinueTyped DEF HostQuiet, vm
<1>6. TypeOK'
    BY <1>5 DEF TypeInv, TypeOK, ActsOK, HostQuiet, vm
<1>7. QED BY <1>5, <1>6 DEF TypeInv, HostQuiet, vm

LEMMA HostMemTyped ==
    ASSUME TypeInv, HostMemset \/ HostMemcpy
    PROVE  TypeInv'
<1> DEFINE a == Act.args[1]
           b == Act.args[2]
           n == Act.args[3]
<1>1. Handling /\ HandlerReturns(a) /\ HostQuiet
    BY DEF HostMemset, HostMemcpy
<1>2. a \in Word /\ b \in Word /\ a \in Int /\ b \in Int /\ n \in Int
    BY <1>1, HandlingTyped
<1>3. mem \in Image /\ reported \in vmErrorCode_t
    BY DEF TypeInv, TypeOK
<1>4. reported' \in vmErrorCode_t
    BY <1>3, FaultCodes DEF HostMemset, HostMemcpy
<1>5. CASE HostMemset
    <2>1. mem' = IF RangeValid(a, n) THEN Fill(mem, a, n, b) ELSE mem
        BY <1>5 DEF HostMemset
    <2> HIDE DEF a, b, n
    <2>2. mem' \in Image
        BY <1>2, <1>3, <2>1, FillFacts
    <2>3. QED BY <1>1, <1>2, <1>4, <2>2, ReturningTyped
<1>6. CASE HostMemcpy
    <2> DEFINE both == RangeValid(a, n) /\ RangeValid(b, n)
    <2>1. /\ both => n >= 0 /\ mem' \in Memcpy(mem, a, b, n)
          /\ ~ both => mem' = mem
        BY <1>6 DEF HostMemcpy
    <2> HIDE DEF a, b, n
    <2>2. mem' \in Image
        <3>1. CASE both
            <4>1. a \in Nat /\ b \in Nat /\ b + n <= DataMask + 5 /\ n \in Nat
                BY <1>2, <2>1, <3>1, RangeFacts DEF RangeValid
            <4>2. QED BY <1>3, <2>1, <3>1, <4>1, MemcpyFacts
        <3>2. CASE ~ both
            BY <1>3, <2>1, <3>2
        <3>3. QED BY <3>1, <3>2
    <2>3. QED BY <1>1, <1>2, <1>4, <2>2, ReturningTyped
<1>7. QED BY <1>5, <1>6

LEMMA HostCallTyped ==
    ASSUME TypeInv, HostCall \/ HostRecursive
    PROVE  TypeInv'
<1>1. CASE HostCall
    <2>1. PICK args \in HostArgs : BeginCall(args)
        BY <1>1 DEF HostCall
    <2>2. args \in [0 .. MaxVmMainArgs - 1 -> Word]
        BY InterpreterAssumption
    <2>3. acts = << >> /\ calls' \in 0 .. MaxCalls
        BY <1>1, InterpreterAssumption DEF HostCall, TypeInv, TypeOK
    <2>4. QED BY <2>1, <2>2, <2>3, BeginTyped
<1>2. CASE HostRecursive
    <2> DEFINE Args(rest) ==
            [i \in 0 .. MaxVmMainArgs - 1 |->
                CASE i = 0 -> 1 [] i = 1 -> Act.args[1] [] OTHER -> rest[i]]
    <2>1. PICK rest \in HostArgs : BeginCall(Args(rest))
        BY <1>2 DEF HostRecursive
    <2>2. rest \in [0 .. MaxVmMainArgs - 1 -> Word]
        BY InterpreterAssumption
    <2>3. Act.at = "handler" /\ Act.args[1] \in Word
        BY <1>2, HandlingTyped DEF HostRecursive
    <2>4. 1 \in Word
        <3>1. PICK h \in Nat : W = 2 * h /\ W \div 2 = h /\ h >= 8
            BY WordSize
        <3>2. QED BY <3>1 DEF Word
    <2>5. Args(rest) \in [0 .. MaxVmMainArgs - 1 -> Word]
        BY <2>2, <2>3, <2>4
    <2>6. calls' \in 0 .. MaxCalls
        BY <1>2 DEF HostRecursive, TypeInv, TypeOK
    <2> HIDE DEF Args
    <2>7. QED BY <2>1, <2>3, <2>5, <2>6, BeginTyped
<1>3. QED BY <1>1, <1>2

-----------------------------------------------------------------------------

LEMMA WildTyped ==
    ASSUME TypeInv, mode' \in {"ok", "wild", "trapped"},
           UNCHANGED << program, mem, vm, acts, history >>
    PROVE  TypeInv'
    BY DEF TypeInv, TypeOK, ActsOK, Waiting, vm, history

LEMMA StopTyped ==
    ASSUME TypeInv, FetchError \/ OutsideCode \/ Undef \/ Trap \/ BelowOrBeyond
                    \/ HostWild
    PROVE  TypeInv'
<1>1. CASE FetchError
    <2>1. PICK level \in FetchErrors : ErrorReturn(level)
        BY <1>1 DEF FetchError
    <2>2. level \in vmErrorCode_t
        BY FaultCodes DEF FetchErrors
    <2>3. acts # << >> /\ mem' \in Image
        BY <1>1 DEF FetchError, Running, TypeInv, TypeOK
    <2>4. QED BY <2>1, <2>2, <2>3, ErrorTyped
<1>2. CASE Undef
    <2>1. acts # << >> /\ mem' \in Image
        BY <1>2, Executing DEF Undef
    <2>2. QED BY <1>2, <2>1, FaultCodes, ErrorTyped DEF Undef
<1>3. CASE OutsideCode \/ Trap \/ BelowOrBeyond \/ HostWild
    BY <1>3, WildTyped DEF OutsideCode, Trap, BelowOrBeyond, HostWild, GoWild
<1>4. QED BY <1>1, <1>2, <1>3

LEMMA HandlersTyped ==
    ASSUME TypeInv, Handlers \/ HostCall
    PROVE  TypeInv'
<1>1. CASE HostPrint
    <2>1. PICK value \in Unspecified : HandlerReturns(value)
        BY <1>1 DEF HostPrint
    <2>2. Handling /\ HostQuiet /\ mem' \in Image /\ reported' \in vmErrorCode_t
        BY <1>1 DEF HostPrint, TypeInv, TypeOK
    <2>3. QED BY <2>1, <2>2, UnspecifiedWords, ReturningTyped
<1>2. CASE HostUnknown
    <2>1. /\ Handling /\ HostQuiet /\ HandlerReturns(0)
          /\ mem' \in Image /\ reported' \in vmErrorCode_t
        BY <1>2 DEF HostUnknown, TypeInv, TypeOK
    <2>2. QED BY <2>1, SmallWords, ReturningTyped
<1>3. CASE HostMemset \/ HostMemcpy
    BY <1>3, HostMemTyped
<1>4. CASE HostRecursive \/ HostCall
    BY <1>4, HostCallTyped
<1>5. CASE HostWild
    BY <1>5, StopTyped
<1>6. QED BY <1>1, <1>2, <1>3, <1>4, <1>5 DEF Handlers

LEMMA TypeInit == Init => TypeInv
<1> SUFFICES ASSUME Init PROVE TypeInv
    OBVIOUS
<1>1. acts = << >> /\ Len(acts) = 0 /\ acts \in Seq(ActivationType)
    BY EmptySeq DEF Init
<1>2. ActsOK
    BY <1>1 DEF ActsOK, Init
<1>3. mem \in Image
    BY WordSize DEF Init, Image, Byte
<1>4. programStack \in Word /\ programStack \in Int
    <2>1. PICK h \in Nat : W = 2 * h /\ W \div 2 = h
        BY WordSize
    <2>2. programStack = DataMask + 1 /\ DataMask \in Nat /\ DataMask + 1 < h
        BY <2>1, MaskAssumption DEF Init, StackTop
    <2>3. QED BY <2>1, <2>2 DEF Word
<1>5. returned.value \in Word
    BY SmallWords DEF Init
<1>6. TypeOK
    <2>1. 0 \in 0 .. MaxCalls
        BY InterpreterAssumption
    <2>2. QED BY <1>1, <1>3, <1>4, <1>5, <2>1, FaultCodes DEF Init, TypeOK
<1>7. QED BY <1>2, <1>4, <1>6 DEF TypeInv, Init

LEMMA TypeNext == TypeInv /\ [Next]_vars => TypeInv'
<1> SUFFICES ASSUME TypeInv, [Next]_vars PROVE TypeInv'
    OBVIOUS
<1>1. CASE Instructions
    BY <1>1, QuietTyped, BranchTyped, MemoryTyped, EnterTyped, LeaveTyped, DoneTyped,
       CallFunctionTyped, SystemCallTyped, StopTyped DEF Instructions
<1>2. CASE Handlers \/ HostCall
    BY <1>2, HandlersTyped
<1>3. CASE SystemReturn
    BY <1>3, SystemReturnTyped
<1>4. CASE UNCHANGED vars
    <2>1. mode' \in {"ok", "wild", "trapped"}
        BY <1>4 DEF vars, TypeInv, TypeOK
    <2>2. QED BY <1>4, <2>1, WildTyped DEF vars
<1>5. QED BY <1>1, <1>2, <1>3, <1>4 DEF Next, Machine

(* Every reachable state satisfies the invariant.                           *)
THEOREM TypeInvariance == Spec => []TypeInv
<1>1. QED BY TypeInit, TypeNext, PTL DEF Spec

(* Whatever a program computes, on every word it reads, stores, returns or   *)
(* passes to the host, it stays a C integer, and what it makes of the image *)
(* stays an image: for every program that VM_PrepareInterpreter lets pass.  *)
THEOREM WordsStayWords == Spec => []TypeOK
<1>1. TypeInv => TypeOK
    BY DEF TypeInv
<1>2. QED BY <1>1, TypeInvariance, PTL

(* While the host handles a system call, and while a VM_Call nested in it    *)
(* runs, the frame that OP_CALL will read and restore is in the image, and  *)
(* only the innermost activation is not waiting for another: for every      *)
(* program, no other step moves the stack of an activation that waits.      *)
WaitingInImage ==
    \A i \in 1 .. Len(acts) :
        /\ acts[i].at # "code" => InImage(acts[i].programStack, SyscallFrame)
        /\ acts[i].at = "nested" <=> i < Len(acts)

THEOREM SyscallFramesInImage == Spec => []WaitingInImage
<1>1. TypeInv => WaitingInImage
    BY DEF TypeInv, ActsOK, Waiting, WaitingInImage
<1>2. QED BY <1>1, TypeInvariance, PTL
=============================================================================
