-------------------------- MODULE DisciplineProofs ----------------------------
(***************************************************************************)
(* Proofs about the interpreter for every program that keeps the stack     *)
(* discipline of InterpreterProtocol, and every host: the return addresses *)
(* of all open calls stay what they were, the program counter stays at     *)
(* instructions, a DEBUG_VM build stays within the memory it allocated,    *)
(* and every step is a step of CallProtocol, or none.                      *)
(***************************************************************************)
EXTENDS InterpreterProofs, InterpreterProtocol

(* Where the return address of VM_Call's own frame is.                      *)
Base(a) == a.stackOnEntry - EntryFrame

(* The frames of one activation: its calls are apart from each other, none  *)
(* is below the stack pointer, only the first one returns to VM_Call; the   *)
(* function that runs has room for a return address and an argument count,  *)
(* or is at its OP_ENTER; a system call is a call of a function.            *)
FramesOK(a) ==
    /\ Base(a) >= 0 /\ a.stackOnEntry <= StackTop /\ a.stackOnEntry % 4 = 0
    /\ a.programStack <= Base(a) /\ a.programStack % 4 = 0
    /\ [at |-> Base(a), pc |-> -1] \in a.frames
    /\ \A f \in a.frames :
          /\ InImage(f.at, 4) /\ a.programStack <= f.at /\ f.at <= Base(a)
          /\ f.at = a.programStack \/ a.programStack + 8 <= f.at
          /\ f.pc = -1 <=> f.at = Base(a)
    /\ \A f, g \in a.frames : f.at = g.at \/ f.at + 8 <= g.at \/ g.at + 8 <= f.at
    /\ a.at # "code" => a.programStack # Base(a)
                       /\ \E f \in a.frames : f.at = a.programStack

(* Activations are below those that wait for them.                          *)
Nested ==
    \A j, k \in 1 .. Len(acts) :
        j < k => acts[k].stackOnEntry <= acts[j].programStack - 4

AboveFloor(ps) == DebugVm => ps + 4 > StackBottom

StackInv ==
    /\ \A j \in 1 .. Len(acts) :
          FramesOK(acts[j]) /\ AboveFloor(acts[j].stackOnEntry)
    /\ Nested
    /\ FramesIntact
    /\ programStack <= StackTop /\ programStack % 4 = 0 /\ AboveFloor(programStack)
    /\ acts # << >> =>
          /\ programStack <= Act.stackOnEntry
          /\ Act.at # "code" => programStack <= Act.programStack - 4

Starts == {instructionPointers[k] : k \in DOMAIN instructionPointers}

(* The inductive invariant of AtInstruction.                                *)
CodeInv ==
    \A j \in 1 .. Len(acts) :
        /\ acts[j].at = "code" => acts[j].programCounter \in Starts
        /\ \A f \in acts[j].frames : f.pc # -1 => f.pc \in Starts

-----------------------------------------------------------------------------
(* What a store leaves alone, and what it leaves behind.                    *)

(* m is mem but for n bytes at a.                                           *)
Differs(m, a, n) == \A x \in Addresses : x < a \/ a + n <= x => m[x] = mem[x]

LEMMA WordKept ==
    ASSUME NEW m, NEW a \in Int, NEW n \in Int, Differs(m, a, n),
           NEW b \in Int, InImage(b, 4), a + n <= b \/ b + 4 <= a
    PROVE  WordAt(m, b) = WordAt(mem, b)
<1>1. DataMask \in Nat
    BY MaskAssumption
<1>2. \A k \in 0 .. 3 : m[b + k] = mem[b + k]
    BY <1>1 DEF Differs, InImage, Addresses
<1>3. m[b] = mem[b] /\ m[b + 1] = mem[b + 1] /\ m[b + 2] = mem[b + 2]
      /\ m[b + 3] = mem[b + 3]
    <2>1. b + 0 = b
        OBVIOUS
    <2>2. m[b + 0] = mem[b + 0] /\ m[b + 1] = mem[b + 1] /\ m[b + 2] = mem[b + 2]
          /\ m[b + 3] = mem[b + 3]
        BY <1>2
    <2>3. QED BY <2>1, <2>2
<1>4. QED BY <1>3 DEF WordAt

LEMMA PutDiffers ==
    ASSUME NEW a \in Int, NEW n \in Int, NEW w
    PROVE  Differs(Put(mem, a, n, w), a, n)
    BY MaskAssumption DEF Differs, Put, Addresses

LEMMA PutWordsDiffers ==
    ASSUME NEW a \in Int, NEW n \in Int, NEW words
    PROVE  Differs(PutWords(mem, a, n, words), a, 4 * n)
    BY MaskAssumption DEF Differs, PutWords, Addresses

LEMMA FillDiffers ==
    ASSUME NEW a \in Int, NEW n \in Int, NEW b
    PROVE  Differs(Fill(mem, a, n, b), a, n)
    BY MaskAssumption DEF Differs, Fill, Addresses

LEMMA MemcpyDiffers ==
    ASSUME NEW a \in Int, NEW b \in Int, NEW n \in Int, NEW m \in Memcpy(mem, a, b, n)
    PROVE  Differs(m, a, n)
<1>1. Differs(Moved(mem, a, b, n), a, n)
    BY MaskAssumption DEF Differs, Moved, Addresses
<1>2. Differs(MovedForward(mem, a, b, n), a, n)
    BY <1>1, MaskAssumption DEF Differs, MovedForward, Addresses
<1>3. QED BY <1>1, <1>2 DEF Memcpy

(* A word is read back as it was stored.                                    *)
LEMMA WordStored ==
    ASSUME NEW m, NEW a \in Int, InImage(a, 4), NEW w \in Word
    PROVE  WordAt(PutWord(m, a, w), a) = w
<1> DEFINE p == PutWord(m, a, w)
<1>1. DataMask \in Nat
    BY MaskAssumption
<1>2. /\ a \in Addresses /\ a + 1 \in Addresses /\ a + 2 \in Addresses
      /\ a + 3 \in Addresses
    BY <1>1 DEF InImage, Addresses
<1>3. /\ a - a = 0 /\ (a + 1) - a = 1 /\ (a + 2) - a = 2 /\ (a + 3) - a = 3
      /\ a \in a .. a + 4 - 1 /\ a + 1 \in a .. a + 4 - 1
      /\ a + 2 \in a .. a + 4 - 1 /\ a + 3 \in a .. a + 4 - 1
    OBVIOUS
<1>4. /\ p[a] = ByteOf(w, 0) /\ p[a + 1] = ByteOf(w, 1)
      /\ p[a + 2] = ByteOf(w, 2) /\ p[a + 3] = ByteOf(w, 3)
    BY <1>2, <1>3 DEF PutWord, Put
<1> HIDE DEF p
<1>5. QED BY <1>4, WordRoundTrip DEF p

(* The first of a row of words.                                             *)
LEMMA FirstWordStored ==
    ASSUME NEW m, NEW a \in Int, InImage(a, 4), NEW n \in Nat, n >= 1, NEW words,
           words[0] \in Word
    PROVE  WordAt(PutWords(m, a, n, words), a) = words[0]
<1> DEFINE p == PutWords(m, a, n, words)
<1>1. DataMask \in Nat
    BY MaskAssumption
<1>2. \A k \in 0 .. 3 : /\ a + k \in Addresses /\ a + k \in a .. a + 4 * n - 1
                        /\ (a + k) - a = k /\ k \div 4 = 0 /\ k % 4 = k
    BY <1>1 DEF InImage, Addresses
<1>3. \A k \in 0 .. 3 : p[a + k] = ByteOf(words[0], k)
    BY <1>2 DEF PutWords
<1> HIDE DEF p
<1>4. /\ p[a + 0] = ByteOf(words[0], 0) /\ p[a + 1] = ByteOf(words[0], 1)
      /\ p[a + 2] = ByteOf(words[0], 2) /\ p[a + 3] = ByteOf(words[0], 3)
    BY <1>3
<1>5. a + 0 = a
    OBVIOUS
<1>6. p[a] = ByteOf(words[0], 0)
    BY <1>4, <1>5
<1> HIDE DEF p
<1>7. WordAt(p, a) = words[0]
    BY <1>4, <1>6, WordRoundTrip
<1>8. QED BY <1>7 DEF p

-----------------------------------------------------------------------------
(* What the steps that keep the frames of an activation keep.               *)

(* All return addresses are where they were stored, in the image m.         *)
Kept(m) ==
    \A j \in 1 .. Len(acts) : \A f \in acts[j].frames :
        InImage(f.at, 4) /\ WordAt(m, f.at) = f.pc

LEMMA KeptNow ==
    ASSUME StackInv
    PROVE  Kept(mem)
    BY DEF StackInv, FramesIntact, Kept

LEMMA FrameTyped ==
    ASSUME TypeInv, NEW j \in 1 .. Len(acts), NEW f \in acts[j].frames
    PROVE  f.at \in Int /\ f.pc \in Int /\ acts[j] \in ActivationType
<1>1. acts[j] \in ActivationType
    BY ElementOfSeq DEF TypeInv, ActsOK
<1>2. acts[j].frames \in SUBSET [at : Int, pc : Int]
    BY <1>1 DEF ActivationType
<1>3. QED BY <1>1, <1>2

LEMMA ApartKept ==
    ASSUME TypeInv, StackInv, NEW m, NEW a \in Int, NEW n \in Int,
           Differs(m, a, n), Apart(a, n)
    PROVE  Kept(m)
<1> SUFFICES ASSUME NEW j \in 1 .. Len(acts), NEW f \in acts[j].frames
             PROVE  InImage(f.at, 4) /\ WordAt(m, f.at) = f.pc
    BY DEF Kept
<1>1. f.at \in Int
    BY FrameTyped
<1>2. InImage(f.at, 4) /\ WordAt(mem, f.at) = f.pc
    BY DEF StackInv, FramesIntact
<1>3. a + n <= f.at \/ f.at + 4 <= a
    BY DEF Apart
<1>4. QED BY <1>1, <1>2, <1>3, WordKept

(* What StackInv looks at of an activation.                                 *)
SameFrames(a, b) ==
    /\ a.stackOnEntry = b.stackOnEntry /\ a.programStack = b.programStack
    /\ a.at = b.at /\ a.frames = b.frames

LEMMA SameFramesOK ==
    ASSUME NEW a, NEW b, SameFrames(a, b), FramesOK(b)
    PROVE  FramesOK(a)
    BY DEF SameFrames, FramesOK, Base

LEMMA UpdatesKeepFrames ==
    ASSUME NEW a \in ActivationType, NEW n
    PROVE  /\ SameFrames(Moving(a, n), a) /\ SameFrames(Over(a, n), a)
           /\ SameFrames(Goto(a, n), a) /\ SameFrames(Reload(a), a)
           /\ \A v : SameFrames(Setting(a, n, v), a)
    BY DEF SameFrames, Moving, Over, Goto, Reload, Setting, ActivationType

LEMMA SameTransitive ==
    ASSUME NEW a, NEW b, NEW c, SameFrames(a, b), SameFrames(b, c)
    PROVE  SameFrames(a, c)
    BY DEF SameFrames

(* The innermost activation goes on as a.                                   *)
LEMMA ContinueStack ==
    ASSUME TypeInv, StackInv, acts # << >>, NEW a \in ActivationType, Continue(a),
           FramesOK(a), a.stackOnEntry = Act.stackOnEntry,
           \A j \in 1 .. Len(acts) - 1 : \A f \in acts[j].frames :
               WordAt(mem', f.at) = f.pc,
           \A f \in a.frames : WordAt(mem', f.at) = f.pc,
           programStack' <= StackTop, programStack' % 4 = 0,
           AboveFloor(programStack'), programStack' <= a.stackOnEntry,
           a.at # "code" => programStack' <= a.programStack - 4
    PROVE  StackInv'
<1>1. /\ acts' \in Seq(ActivationType) /\ Len(acts') = Len(acts)
      /\ \A i \in 1 .. Len(acts) - 1 : acts'[i] = acts[i]
      /\ acts'[Len(acts)] = a
    BY ReplaceLastFacts DEF Continue, TypeInv, ActsOK
<1>2. Len(acts) \in Nat /\ Len(acts) >= 1 /\ Act = acts[Len(acts)]
    BY ActTyped
<1>3. acts' # << >> /\ Act' = a
    BY <1>1, <1>2, LastFacts, EmptySeq DEF Act
<1>4. \A j \in 1 .. Len(acts) : FramesOK(acts'[j]) /\ AboveFloor(acts'[j].stackOnEntry)
    <2> TAKE j \in 1 .. Len(acts)
    <2>1. CASE j = Len(acts)
        BY <1>1, <1>2, <2>1 DEF StackInv
    <2>2. CASE j # Len(acts)
        BY <1>1, <1>2, <2>2 DEF StackInv
    <2>3. QED BY <2>1, <2>2
<1>5. Nested'
    <2> SUFFICES ASSUME NEW j \in 1 .. Len(acts), NEW k \in 1 .. Len(acts), j < k
                 PROVE  acts'[k].stackOnEntry <= acts'[j].programStack - 4
        BY <1>1 DEF Nested
    <2>1. acts'[j] = acts[j]
        BY <1>1, <1>2
    <2>2. acts'[k].stackOnEntry = acts[k].stackOnEntry
        BY <1>1, <1>2
    <2>3. QED BY <2>1, <2>2 DEF StackInv, Nested
<1>6. FramesIntact'
    <2> SUFFICES ASSUME NEW j \in 1 .. Len(acts), NEW f \in acts'[j].frames
                 PROVE  InImage(f.at, 4) /\ WordAt(mem', f.at) = f.pc
        BY <1>1 DEF FramesIntact
    <2>1. InImage(f.at, 4)
        BY <1>4 DEF FramesOK
    <2>2. CASE j = Len(acts)
        BY <2>1, <2>2, <1>1
    <2>3. CASE j # Len(acts)
        BY <2>1, <2>3, <1>1, <1>2
    <2>4. QED BY <2>2, <2>3
<1>7. QED BY <1>1, <1>3, <1>4, <1>5, <1>6 DEF StackInv, FramesOK, Base, AboveFloor

(* An instruction that only computes, branches or writes to the image.      *)
LEMMA PlainStack ==
    ASSUME TypeInv, StackInv, acts # << >>, NEW a \in ActivationType, Continue(a),
           SameFrames(a, Act), UNCHANGED programStack, Kept(mem')
    PROVE  StackInv'
<1>1. Len(acts) \in Nat /\ Len(acts) >= 1 /\ Act = acts[Len(acts)]
    BY ActTyped
<1>2. FramesOK(Act)
    BY <1>1 DEF StackInv
<1>3. FramesOK(a)
    BY <1>2, SameFramesOK
<1>4. a.frames = Act.frames /\ a.stackOnEntry = Act.stackOnEntry /\ a.at = Act.at
      /\ a.programStack = Act.programStack
    BY DEF SameFrames
<1>5. /\ \A j \in 1 .. Len(acts) - 1 : \A f \in acts[j].frames : WordAt(mem', f.at) = f.pc
      /\ \A f \in a.frames : WordAt(mem', f.at) = f.pc
    BY <1>1, <1>4 DEF Kept
<1>6. QED BY <1>3, <1>4, <1>5, ContinueStack DEF StackInv

-----------------------------------------------------------------------------
(* The innermost activation, and where it may be written.                   *)

LEMMA ActStack ==
    ASSUME TypeInv, StackInv, acts # << >>
    PROVE  /\ Len(acts) \in Nat /\ Len(acts) >= 1 /\ Act = acts[Len(acts)]
           /\ Act \in ActivationType /\ FramesOK(Act)
           /\ Act.programStack \in Int /\ Act.stackOnEntry \in Int
           /\ \A f \in Act.frames : f.at \in Int /\ f.pc \in Int
           /\ \A f \in Act.frames : InImage(f.at, 4) /\ WordAt(mem, f.at) = f.pc
<1>1. /\ Len(acts) \in Nat /\ Len(acts) >= 1 /\ Act = acts[Len(acts)]
      /\ Act \in ActivationType
    BY ActTyped
<1>2. FramesOK(Act)
    BY <1>1 DEF StackInv
<1>3. Act.programStack \in Int /\ Act.stackOnEntry \in Int
    BY <1>1, WordIsInt DEF ActivationType
<1>4. \A f \in Act.frames : f.at \in Int /\ f.pc \in Int
    BY <1>1 DEF ActivationType
<1>5. \A f \in Act.frames : InImage(f.at, 4) /\ WordAt(mem, f.at) = f.pc
    BY <1>1 DEF StackInv, FramesIntact
<1>6. QED BY <1>1, <1>2, <1>3, <1>4, <1>5

(* The return addresses of the activations that wait are above the stack of *)
(* the one that runs.                                                       *)
LEMMA WaitingAbove ==
    ASSUME TypeInv, StackInv, acts # << >>, NEW j \in 1 .. Len(acts) - 1,
           NEW f \in acts[j].frames
    PROVE  /\ f.at \in Int /\ f.at >= Act.stackOnEntry + 4
           /\ InImage(f.at, 4) /\ WordAt(mem, f.at) = f.pc
<1>1. Len(acts) \in Nat /\ Len(acts) >= 1 /\ Act = acts[Len(acts)]
    BY ActTyped
<1>2. j \in 1 .. Len(acts) /\ j < Len(acts)
    BY <1>1
<1>3. Act.stackOnEntry <= acts[j].programStack - 4
    BY <1>1, <1>2 DEF StackInv, Nested
<1>4. acts[j].programStack <= f.at
    BY <1>2 DEF StackInv, FramesOK
<1>5. InImage(f.at, 4) /\ WordAt(mem, f.at) = f.pc
    BY <1>2 DEF StackInv, FramesIntact
<1>6. f.at \in Int /\ acts[j].programStack \in Int
    BY <1>2, FrameTyped DEF ActivationType
<1>7. Act.stackOnEntry \in Int
    BY ActStack
<1>8. QED BY <1>3, <1>4, <1>5, <1>6, <1>7

(* What is written below them, and apart from the frames of the activation  *)
(* itself, is apart from all.                                               *)
LEMMA OwnApart ==
    ASSUME TypeInv, StackInv, acts # << >>, NEW a \in Int, NEW n \in Int,
           a + n <= Act.stackOnEntry + 4,
           \A f \in Act.frames : a + n <= f.at \/ f.at + 4 <= a
    PROVE  Apart(a, n)
<1> SUFFICES ASSUME NEW j \in 1 .. Len(acts), NEW f \in acts[j].frames
             PROVE  a + n <= f.at \/ f.at + 4 <= a
    BY DEF Apart
<1>1. Len(acts) \in Nat /\ Len(acts) >= 1 /\ Act = acts[Len(acts)]
    BY ActTyped
<1>2. CASE j = Len(acts)
    BY <1>1, <1>2
<1>3. CASE j # Len(acts)
    <2>1. j \in 1 .. Len(acts) - 1
        BY <1>1, <1>3
    <2>2. f.at \in Int /\ f.at >= Act.stackOnEntry + 4 /\ Act.stackOnEntry \in Int
        BY <2>1, WaitingAbove, ActStack
    <2>3. QED BY <2>2
<1>4. QED BY <1>2, <1>3

(* The innermost activation goes on with other frames.                      *)
LEMMA MovedStack ==
    ASSUME TypeInv, StackInv, acts # << >>, NEW a \in ActivationType, Continue(a),
           FramesOK(a), a.stackOnEntry = Act.stackOnEntry, a.at = "code",
           UNCHANGED programStack, Kept(mem'),
           \A f \in a.frames : f \in Act.frames \/ WordAt(mem', f.at) = f.pc
    PROVE  StackInv'
<1>1. Len(acts) \in Nat /\ Len(acts) >= 1 /\ Act = acts[Len(acts)]
    BY ActTyped
<1>2. \A j \in 1 .. Len(acts) - 1 : \A f \in acts[j].frames : WordAt(mem', f.at) = f.pc
    BY <1>1 DEF Kept
<1>3. \A f \in a.frames : WordAt(mem', f.at) = f.pc
    BY <1>1 DEF Kept
<1>4. QED BY <1>2, <1>3, ContinueStack DEF StackInv

(* VM_Call hands back to its caller.                                        *)
LEMMA HandBackStack ==
    ASSUME TypeInv, StackInv, acts # << >>, NEW how, NEW value \in Word,
           HandBack(how, value),
           \A j \in 1 .. Len(acts) - 1 : \A f \in acts[j].frames :
               WordAt(mem', f.at) = f.pc,
           programStack' = programStack \/ programStack' = Act.stackOnEntry
    PROVE  StackInv'
<1> DEFINE callers == Front(acts)
           n == Len(callers)
           b == [callers[n] EXCEPT !.at = "handled", !.result = value]
<1>1. /\ Len(acts) \in Nat /\ Len(acts) >= 1 /\ Act = acts[Len(acts)]
      /\ FramesOK(Act) /\ Act.stackOnEntry \in Int /\ programStack \in Int
      /\ AboveFloor(Act.stackOnEntry) /\ EntryFrame \in Int /\ EntryFrame >= 0
    <2>1. Len(acts) \in Nat /\ Len(acts) >= 1 /\ Act = acts[Len(acts)]
          /\ FramesOK(Act) /\ Act.stackOnEntry \in Int
        BY ActStack
    <2>2. AboveFloor(Act.stackOnEntry)
        BY <2>1 DEF StackInv
    <2>3. QED BY <2>1, <2>2, InterpreterAssumption DEF TypeInv, TypeOK, EntryFrame
<1>2. /\ programStack' \in Int /\ programStack' <= Act.stackOnEntry
      /\ programStack' <= StackTop /\ programStack' % 4 = 0
      /\ AboveFloor(programStack')
    BY <1>1 DEF StackInv, FramesOK
<1>3. /\ callers \in Seq(ActivationType) /\ n = Len(acts) - 1
      /\ \A j \in 1 .. n : callers[j] = acts[j]
    BY <1>1, FrontFacts DEF TypeInv, ActsOK
<1>4. CASE callers = << >>
    <2>1. acts' = << >> /\ Len(acts') = 0
        BY <1>4, EmptySeq DEF HandBack
    <2>2. FramesIntact' /\ Nested'
        BY <2>1 DEF FramesIntact, Nested
    <2>3. 1 .. Len(acts') = {}
        BY <2>1
    <2>4. AboveFloor(programStack)'
        BY <1>2 DEF AboveFloor
    <2>5. QED BY <1>2, <2>1, <2>2, <2>3, <2>4 DEF StackInv
<1>5. CASE callers # << >>
    <2>1. n \in Nat /\ n >= 1
        BY <1>1, <1>3, <1>5, EmptySeq
    <2>2. callers[n] \in ActivationType /\ callers[n] = acts[n] /\ acts[n].at = "nested"
        BY <1>3, <2>1, <1>1, ElementOfSeq DEF TypeInv, ActsOK
    <2>3. acts' = [callers EXCEPT ![n] = b]
        BY <1>5 DEF HandBack
    <2>4. /\ b \in ActivationType /\ b.at = "handled" /\ b.frames = acts[n].frames
          /\ b.stackOnEntry = acts[n].stackOnEntry
          /\ b.programStack = acts[n].programStack
        BY <2>2 DEF ActivationType
    <2> HIDE DEF b
    <2>5. /\ acts' \in Seq(ActivationType) /\ Len(acts') = n
          /\ \A i \in 1 .. n - 1 : acts'[i] = callers[i]
          /\ acts'[n] = b
        BY <1>3, <1>5, <2>3, <2>4, ReplaceLastFacts
    <2>6. \A j \in 1 .. n : /\ j \in 1 .. Len(acts) /\ j \in 1 .. Len(acts) - 1
                            /\ acts'[j].frames = acts[j].frames
                            /\ acts'[j].stackOnEntry = acts[j].stackOnEntry
                            /\ acts'[j].programStack = acts[j].programStack
                            /\ acts'[j].at = "code" <=> acts[j].at = "code"
        <3> TAKE j \in 1 .. n
        <3>1. CASE j = n
            BY <1>1, <1>3, <2>2, <2>4, <2>5, <3>1
        <3>2. CASE j # n
            BY <1>1, <1>3, <2>1, <2>5, <3>2
        <3>3. QED BY <3>1, <3>2
    <2>7. Act' = b /\ acts' # << >>
        BY <2>1, <2>5, LastFacts, EmptySeq DEF Act
    <2>8. /\ acts[n].programStack \in Int /\ acts[n].stackOnEntry \in Int
          /\ FramesOK(acts[n]) /\ Act.stackOnEntry <= acts[n].programStack - 4
        <3>1. n \in 1 .. Len(acts) /\ n < Len(acts) /\ Len(acts) \in 1 .. Len(acts)
            BY <1>1, <1>3, <2>1
        <3>2. FramesOK(acts[n]) /\ Act.stackOnEntry <= acts[n].programStack - 4
            BY <1>1, <3>1 DEF StackInv, Nested
        <3>3. QED BY <2>2, <3>2, WordIsInt DEF ActivationType
    <2>9. programStack' <= b.programStack - 4 /\ programStack' <= b.stackOnEntry
        <3>1. acts[n].programStack <= acts[n].stackOnEntry - EntryFrame
            BY <2>8 DEF FramesOK, Base
        <3>2. QED BY <1>1, <1>2, <2>4, <2>8, <3>1
    <2>10. ASSUME NEW j \in 1 .. n
           PROVE  FramesOK(acts'[j]) /\ AboveFloor(acts'[j].stackOnEntry)
        <3>1. FramesOK(acts[j]) /\ AboveFloor(acts[j].stackOnEntry)
            BY <2>6 DEF StackInv
        <3>2. QED BY <2>6, <3>1 DEF FramesOK, Base
    <2>11. Nested'
        BY <2>5, <2>6 DEF StackInv, Nested
    <2>12. FramesIntact'
        BY <2>5, <2>6 DEF StackInv, FramesIntact
    <2>13. QED BY <1>2, <2>5, <2>7, <2>9, <2>10, <2>11, <2>12
               DEF StackInv, FramesOK, Base, AboveFloor
<1>6. QED BY <1>4, <1>5

LEMMA ErrorStack ==
    ASSUME TypeInv, StackInv, acts # << >>, NEW level, ErrorReturn(level),
           \A j \in 1 .. Len(acts) - 1 : \A f \in acts[j].frames :
               WordAt(mem', f.at) = f.pc
    PROVE  StackInv'
<1>1. -1 \in Word
    <2>1. PICK h \in Nat : W = 2 * h /\ W \div 2 = h /\ h > 0
        BY WordSize
    <2>2. QED BY <2>1 DEF Word
<1>2. QED BY <1>1, HandBackStack DEF ErrorReturn

(* An error that leaves the image alone.                                    *)
LEMMA PlainErrorStack ==
    ASSUME TypeInv, StackInv, acts # << >>, NEW level, ErrorReturn(level),
           UNCHANGED mem
    PROVE  StackInv'
    BY WaitingAbove, ErrorStack

-----------------------------------------------------------------------------
(* What the instructions that make no frame make of the activation.         *)

Going(pc) == {a \in CodeAct : SameFrames(a, Act) /\ a.programCounter = pc}

Ints(op) == IF HasOperand(op) THEN 2 ELSE 1

LEMMA GoingClosed ==
    ASSUME NEW pc \in Int, NEW a \in Going(pc), NEW n \in Int
    PROVE  /\ Moving(a, n) \in Going(pc) /\ Over(a, n) \in Going(pc + n)
           /\ Goto(a, n) \in Going(n) /\ Reload(a) \in Going(pc)
           /\ \A v \in Word : Setting(a, n, v) \in Going(pc)
<1>1. a \in CodeAct /\ a \in ActivationType /\ SameFrames(a, Act)
      /\ a.programCounter = pc
    BY DEF Going, CodeAct
<1>2. /\ Moving(a, n) \in CodeAct /\ Over(a, n) \in CodeAct
      /\ Goto(a, n) \in CodeAct /\ Reload(a) \in CodeAct
      /\ \A v \in Word : Setting(a, n, v) \in CodeAct
    BY <1>1, StackTyped, ReloadCode
<1>3. /\ SameFrames(Moving(a, n), a) /\ SameFrames(Over(a, n), a)
      /\ SameFrames(Goto(a, n), a) /\ SameFrames(Reload(a), a)
      /\ \A v : SameFrames(Setting(a, n, v), a)
    BY <1>1, UpdatesKeepFrames
<1>4. /\ Moving(a, n).programCounter = pc /\ Over(a, n).programCounter = pc + n
      /\ Goto(a, n).programCounter = n /\ Reload(a).programCounter = pc
      /\ \A v : Setting(a, n, v).programCounter = pc
    BY <1>1 DEF Moving, Over, Goto, Reload, Setting, ActivationType
<1>5. QED BY <1>1, <1>2, <1>3, <1>4, SameTransitive DEF Going

LEMMA ReloadGoing ==
    ASSUME NEW pc \in Int, NEW a \in Going(pc) PROVE Reload(a) \in Going(pc)
    BY GoingClosed

LEMMA OverGoing ==
    ASSUME NEW pc \in Int, NEW a \in Going(pc), NEW n \in Int
    PROVE  Over(a, n) \in Going(pc + n)
    BY GoingClosed

LEMMA GotoGoing ==
    ASSUME NEW pc \in Int, NEW a \in Going(pc), NEW n \in Int
    PROVE  Goto(a, n) \in Going(n)
    BY GoingClosed

LEMMA MovingGoing ==
    ASSUME NEW pc \in Int, NEW a \in Going(pc), NEW n \in Int
    PROVE  Moving(a, n) \in Going(pc)
    BY GoingClosed

(* The usual end of an instruction: the operand stack and the counter move. *)
LEMMA NextGoing ==
    ASSUME NEW pc \in Int, NEW a \in Going(pc), NEW n \in Int, NEW ints \in Int
    PROVE  Reload(Over(Moving(a, n), ints)) \in Going(pc + ints)
<1>1. Over(Moving(a, n), ints) \in Going(pc + ints)
    BY MovingGoing, OverGoing
<1>2. pc + ints \in Int
    OBVIOUS
<1>3. QED BY <1>1, <1>2, ReloadGoing

LEMMA SetGoing ==
    ASSUME NEW pc \in Int, NEW a \in Going(pc), NEW n \in Int, NEW ints \in Int,
           NEW v \in Word
    PROVE  /\ Over(Setting(a, n, v), ints) \in Going(pc + ints)
           /\ Reload(Over(Setting(a, n, v), ints)) \in Going(pc + ints)
<1>1. Setting(a, n, v) \in Going(pc)
    BY GoingClosed
<1>2. Over(Setting(a, n, v), ints) \in Going(pc + ints)
    BY <1>1, OverGoing
<1>3. pc + ints \in Int
    OBVIOUS
<1>4. QED BY <1>2, <1>3, ReloadGoing

LEMMA RegistersGoing ==
    ASSUME NEW pc, NEW a \in Going(pc), NEW v \in Word, NEW w \in Word
    PROVE  /\ [a EXCEPT !.r0 = v, !.r1 = w] \in Going(pc)
           /\ [a EXCEPT !.r0 = v] \in Going(pc)
    BY DEF Going, SameFrames, CodeAct, ActivationType

LEMMA ActGoing ==
    ASSUME TypeInv, NEW op, Executes(op)
    PROVE  /\ Act \in Going(Act.programCounter) /\ acts # << >>
           /\ Act.programCounter \in Int
    BY Executing DEF Going, SameFrames

(* The opcodes that have an operand.                                        *)
LEMMA Operands ==
    /\ \A op \in Unary \cup Binary \cup Loads \cup Stores
            \cup {"OP_IGNORE", "OP_BREAK", "OP_PUSH", "OP_POP", "OP_CALL"} :
          ~ HasOperand(op) /\ FallsThrough(op)
    /\ \A op \in Branches \cup {"OP_CONST", "OP_LOCAL", "OP_ARG", "OP_BLOCK_COPY",
                                "OP_ENTER"} :
          HasOperand(op) /\ FallsThrough(op)
    BY DEF HasOperand, FallsThrough, WordOperand, ByteOperand, Branches, IntBranches,
           FloatBranches, Unary, Binary, Loads, Stores

(* An instruction that touches nothing but the activation goes on to the    *)
(* next.                                                                    *)
QuietTo(a) == Quiet /\ acts # << >> /\ Continue(a)

LEMMA QuietShape ==
    ASSUME TypeInv, Nop \/ Const \/ Local \/ Push \/ Pop \/ UnaryOp \/ BinaryOp
    PROVE  \E op : /\ Executes(op) /\ FallsThrough(op)
                   /\ \E a \in Going(Act.programCounter + Ints(op)) : QuietTo(a)
<1> DEFINE pc == Act.programCounter
<1>1. CASE Nop
    <2>1. PICK op \in {"OP_IGNORE", "OP_BREAK"} :
              Executes(op) /\ Quiet /\ Continue(Over(Act, 1))
        BY <1>1 DEF Nop
    <2>2. Over(Act, 1) \in Going(pc + 1)
        BY <2>1, ActGoing, OverGoing
    <2>3. Ints(op) = 1 /\ FallsThrough(op)
        BY <2>1, Operands DEF Ints
    <2>4. QED BY <2>1, <2>2, <2>3, ActGoing DEF QuietTo
<1>2. CASE Const
    <2>1. Executes("OP_CONST") /\ Quiet /\ PushValue(R2)
        BY <1>2 DEF Const
    <2>2. Act \in Going(pc) /\ pc \in Int /\ R0 \in Word /\ R2 \in Word /\ acts # << >>
        BY <2>1, Executing, ActGoing, Operands
    <2>3. Over(Setting(Act, 1, R2), 2) \in Going(pc + 2)
        BY <2>2, SetGoing
    <2>4. Ints("OP_CONST") = 2 /\ FallsThrough("OP_CONST")
        BY Operands DEF Ints
    <2>5. QED BY <2>1, <2>2, <2>3, <2>4, RegistersGoing DEF PushValue, QuietTo
<1>3. CASE Local
    <2> DEFINE v == ToWord(R2 + Act.programStack)
    <2>1. Executes("OP_LOCAL") /\ Quiet /\ PushValue(v)
        BY <1>3 DEF Local
    <2>2. /\ Act \in Going(pc) /\ pc \in Int /\ R0 \in Word /\ R2 \in Int
          /\ Act.programStack \in Int /\ acts # << >>
        BY <2>1, Executing, ActGoing, Operands
    <2>3. v \in Word
        BY <2>2, ToWordFacts
    <2> HIDE DEF v
    <2>4. Over(Setting(Act, 1, v), 2) \in Going(pc + 2)
        BY <2>2, <2>3, SetGoing
    <2>5. Ints("OP_LOCAL") = 2 /\ FallsThrough("OP_LOCAL")
        BY Operands DEF Ints
    <2>6. QED BY <2>1, <2>2, <2>3, <2>4, <2>5, RegistersGoing DEF PushValue, QuietTo
<1>4. CASE Push \/ Pop
    <2>1. PICK op \in {"OP_PUSH", "OP_POP"}, n \in {1, -1} :
              Executes(op) /\ Quiet /\ Continue(Reload(Over(Moving(Act, n), 1)))
        BY <1>4 DEF Push, Pop
    <2>2. Reload(Over(Moving(Act, n), 1)) \in Going(pc + 1)
        BY <2>1, ActGoing, NextGoing
    <2>3. Ints(op) = 1 /\ FallsThrough(op)
        BY <2>1, Operands DEF Ints
    <2>4. QED BY <2>1, <2>2, <2>3, ActGoing DEF QuietTo
<1>5. CASE UnaryOp
    <2>1. PICK op \in Unary : /\ Executes(op) /\ Quiet
                              /\ \E v \in Conversion(op, R0) :
                                    Continue(Reload(Over(Setting(Act, 0, v), 1)))
        BY <1>5 DEF UnaryOp
    <2>2. PICK v \in Conversion(op, R0) : Continue(Reload(Over(Setting(Act, 0, v), 1)))
        BY <2>1
    <2>3. v \in Word
        BY <2>1, Executing, ConversionFacts
    <2>4. Reload(Over(Setting(Act, 0, v), 1)) \in Going(pc + 1)
        BY <2>1, <2>3, ActGoing, SetGoing
    <2>5. Ints(op) = 1 /\ FallsThrough(op)
        BY <2>1, Operands DEF Ints
    <2>6. QED BY <2>1, <2>2, <2>4, <2>5, ActGoing DEF QuietTo
<1>6. CASE BinaryOp
    <2>1. PICK op \in Binary : /\ Executes(op) /\ Quiet
                               /\ \E v \in Arithmetic(op, R1, R0) :
                                     Continue(Reload(Over(Setting(Act, -1, v), 1)))
        BY <1>6 DEF BinaryOp
    <2>2. PICK v \in Arithmetic(op, R1, R0) :
              Continue(Reload(Over(Setting(Act, -1, v), 1)))
        BY <2>1
    <2>3. v \in Word
        BY <2>1, Executing, ArithmeticFacts
    <2>4. Reload(Over(Setting(Act, -1, v), 1)) \in Going(pc + 1)
        BY <2>1, <2>3, ActGoing, SetGoing
    <2>5. Ints(op) = 1 /\ FallsThrough(op)
        BY <2>1, Operands DEF Ints
    <2>6. QED BY <2>1, <2>2, <2>4, <2>5, ActGoing DEF QuietTo
<1>7. QED BY <1>1, <1>2, <1>3, <1>4, <1>5, <1>6

LEMMA BranchShape ==
    ASSUME TypeInv, Branch
    PROVE  \E op \in Branches :
               /\ Executes(op)
               /\ \E a \in Going(Act.programCounter + 2) \cup Going(R2) : QuietTo(a)
<1> DEFINE pc    == Act.programCounter
           moved == Moving(Act, -2)
<1>1. PICK op \in Branches :
          /\ Executes(op) /\ Quiet
          /\ \E taken \in Outcomes(op, R1, R0) :
                Continue(Reload(IF taken THEN Goto(moved, R2) ELSE Over(moved, 2)))
    BY DEF Branch
<1>2. Act \in Going(pc) /\ pc \in Int /\ R2 \in Int /\ acts # << >>
    BY <1>1, Executing, ActGoing, Operands
<1>3. moved \in Going(pc)
    BY <1>2, MovingGoing
<1> HIDE DEF moved
<1>4. Goto(moved, R2) \in Going(R2) /\ Over(moved, 2) \in Going(pc + 2)
    <2>1. Goto(moved, R2) \in Going(R2)
        BY <1>2, <1>3, GotoGoing
    <2>2. Over(moved, 2) \in Going(pc + 2)
        <3> HIDE DEF pc
        <3>1. QED BY <1>2, <1>3, OverGoing
    <2>3. QED BY <2>1, <2>2
<1>5. pc + 2 \in Int
    BY <1>2
<1>6. Reload(Goto(moved, R2)) \in Going(R2) /\ Reload(Over(moved, 2)) \in Going(pc + 2)
    BY <1>2, <1>4, <1>5, ReloadGoing
<1>7. Continue(Reload(Goto(moved, R2))) \/ Continue(Reload(Over(moved, 2)))
    BY <1>1
<1>8. QED BY <1>1, <1>2, <1>6, <1>7 DEF QuietTo

LEMMA JumpShape ==
    ASSUME TypeInv, Jump
    PROVE  /\ Executes("OP_JUMP") /\ acts # << >>
           /\ \/ ErrorReturn(VM_PC_OUT_OF_RANGE) /\ UNCHANGED mem
              \/ /\ IsInstruction(R0)
                 /\ \E a \in Going(instructionPointers[R0]) : QuietTo(a)
<1> DEFINE pc == Act.programCounter
           to == instructionPointers[R0]
<1>1. Executes("OP_JUMP") /\ Act \in Going(pc) /\ pc \in Int /\ acts # << >>
    BY ActGoing DEF Jump
<1>2. CASE ErrorReturn(VM_PC_OUT_OF_RANGE) /\ UNCHANGED mem
    BY <1>1, <1>2
<1>3. CASE /\ IsInstruction(R0) /\ Quiet
           /\ Continue(Reload(Moving(Goto(Act, to), -1)))
    <2>1. to \in Int
        BY <1>3, ProgramTyped DEF IsInstruction
    <2>2. Goto(Act, to) \in Going(to)
        BY <1>1, <2>1, GotoGoing
    <2> HIDE DEF to
    <2>3. Reload(Moving(Goto(Act, to), -1)) \in Going(to)
        BY <2>1, <2>2, MovingGoing, ReloadGoing
    <2>4. QED BY <1>1, <1>3, <2>3 DEF QuietTo, to
<1>4. QED BY <1>2, <1>3 DEF Jump

LEMMA LoadShape ==
    ASSUME TypeInv, LoadOp
    PROVE  \E op \in Loads :
               /\ Executes(op)
               /\ \/ Misaligned(op) /\ ErrorReturn(VM_OP_LOAD4_MISALIGNED) /\ UNCHANGED mem
                  \/ \E a \in Going(Act.programCounter + 1) : QuietTo(a)
<1> DEFINE pc == Act.programCounter
<1>1. PICK op \in Loads :
          /\ Executes(op)
          /\ \/ /\ Continue([Over(Setting(Act, 0, Fetched(op)), 1)
                                EXCEPT !.r0 = Fetched(op)])
                /\ Quiet
             \/ Misaligned(op) /\ ErrorReturn(VM_OP_LOAD4_MISALIGNED) /\ UNCHANGED mem
    BY DEF LoadOp
<1>2. /\ acts # << >> /\ Act \in Going(pc) /\ pc \in Int /\ mem \in Image
      /\ R0 \in Word
    BY <1>1, Executing, ActGoing
<1>3. Fetched(op) \in Word
    BY <1>1, <1>2, FetchedFacts
<1>4. Over(Setting(Act, 0, Fetched(op)), 1) \in Going(pc + 1)
    BY <1>2, <1>3, SetGoing
<1>5. [Over(Setting(Act, 0, Fetched(op)), 1) EXCEPT !.r0 = Fetched(op)] \in Going(pc + 1)
    BY <1>3, <1>4, RegistersGoing
<1>6. QED BY <1>1, <1>2, <1>5 DEF QuietTo

(* An instruction that writes to the image goes on to the next.             *)
LEMMA WriteShape ==
    ASSUME TypeInv, StoreOp \/ Arg \/ BlockCopy
    PROVE  \E op : /\ Executes(op) /\ FallsThrough(op)
                   /\ UNCHANGED << program, programStack, currentlyInterpreting,
                                   callLevel, mode, calls, faulted, returned >>
                   /\ \E a \in Going(Act.programCounter + Ints(op)) : Continue(a)
<1> DEFINE pc == Act.programCounter
<1>1. PICK op \in Stores \cup {"OP_ARG", "OP_BLOCK_COPY"}, n \in {-1, -2} :
          /\ Executes(op) /\ Continue(Reload(Over(Moving(Act, n), Ints(op))))
          /\ UNCHANGED << program, programStack, currentlyInterpreting, callLevel,
                          mode, calls, faulted, returned >>
    <2>1. CASE StoreOp
        <3>1. PICK op \in Stores : Executes(op)
            BY <2>1 DEF StoreOp
        <3>2. Ints(op) = 1
            BY Operands DEF Ints
        <3>3. QED BY <2>1, <3>1, <3>2 DEF StoreOp, vm, history
    <2>2. CASE Arg
        <3>1. Ints("OP_ARG") = 2
            BY Operands DEF Ints
        <3>2. QED BY <2>2, <3>1 DEF Arg, vm, history
    <2>3. CASE BlockCopy
        <3>1. Ints("OP_BLOCK_COPY") = 2
            BY Operands DEF Ints
        <3>2. QED BY <2>3, <3>1 DEF BlockCopy
    <2>4. QED BY <2>1, <2>2, <2>3
<1>2. Ints(op) \in Int /\ FallsThrough(op)
    BY <1>1, Operands DEF Ints
<1>3. Reload(Over(Moving(Act, n), Ints(op))) \in Going(pc + Ints(op))
    BY <1>1, <1>2, ActGoing, NextGoing
<1>4. QED BY <1>1, <1>2, <1>3

-----------------------------------------------------------------------------
(* One step per instruction, for the stack.                                 *)

(* An instruction that goes on in the same frame.                           *)
LEMMA GoingStack ==
    ASSUME TypeInv, StackInv, acts # << >>, NEW pc, NEW a \in Going(pc), Continue(a),
           UNCHANGED programStack, Kept(mem')
    PROVE  StackInv'
    BY PlainStack DEF Going, CodeAct

LEMMA QuietToStack ==
    ASSUME TypeInv, StackInv, NEW pc, NEW a \in Going(pc), QuietTo(a)
    PROVE  StackInv'
<1>1. Kept(mem') /\ UNCHANGED programStack
    BY KeptNow DEF QuietTo, Quiet, vm
<1>2. QED BY <1>1, GoingStack DEF QuietTo

LEMMA QuietStack ==
    ASSUME TypeInv, StackInv,
           Nop \/ Const \/ Local \/ Push \/ Pop \/ UnaryOp \/ BinaryOp \/ Branch
           \/ Jump \/ LoadOp
    PROVE  StackInv'
<1>1. CASE Jump
    BY <1>1, JumpShape, PlainErrorStack, QuietToStack
<1>2. CASE LoadOp
    <2>1. PICK op \in Loads :
               /\ Executes(op)
               /\ \/ ErrorReturn(VM_OP_LOAD4_MISALIGNED) /\ UNCHANGED mem
                  \/ \E a \in Going(Act.programCounter + 1) : QuietTo(a)
        BY <1>2, LoadShape
    <2>2. QED BY <2>1, ActGoing, PlainErrorStack, QuietToStack
<1>3. CASE Branch
    BY <1>3, BranchShape, QuietToStack
<1>4. CASE Nop \/ Const \/ Local \/ Push \/ Pop \/ UnaryOp \/ BinaryOp
    BY <1>4, QuietShape, QuietToStack
<1>5. QED BY <1>1, <1>2, <1>3, <1>4

LEMMA WritesKeep ==
    ASSUME TypeInv, StackInv, WritesApart, StoreOp \/ Arg \/ BlockCopy
    PROVE  Kept(mem')
<1>1. CASE StoreOp
    <2>1. PICK op \in Stores : /\ Executes(op)
                               /\ mem' = Put(mem, Masked(R1), Width(op), R0)
        BY <1>1 DEF StoreOp
    <2>2. R1 \in Int
        BY <2>1, Executing
    <2>3. Masked(R1) \in Int /\ Width(op) \in Int
        BY <2>2, MaskedFacts, MaskAssumption DEF Width
    <2>4. QED BY <2>1, <2>3, PutDiffers, ApartKept DEF WritesApart
<1>2. CASE Arg
    <2> DEFINE a == R2 + Act.programStack
    <2>1. R2 \in Int /\ Act.programStack \in Int
        BY <1>2, Executing, Operands DEF Arg
    <2>2. Masked(a) \in Int
        <3>1. a \in Int
            BY <2>1
        <3> HIDE DEF a
        <3>2. QED BY <3>1, MaskedFacts
    <2>3. mem' = Put(mem, Masked(a), 4, R0) /\ Apart(Masked(a), 4)
        BY <1>2 DEF Arg, PutWord, WritesApart
    <2> HIDE DEF a
    <2>4. QED BY <2>2, <2>3, PutDiffers, ApartKept
<1>3. CASE BlockCopy
    <2>1. R0 \in Int /\ R1 \in Int /\ R2 \in Int
        BY <1>3, Executing, Operands DEF BlockCopy
    <2>2. CASE CopyInRange
        <3>1. mem' \in Memcpy(mem, R1, R0, R2) /\ Apart(R1, R2)
            BY <1>3, <2>2 DEF BlockCopy, WritesApart
        <3>2. QED BY <2>1, <3>1, MemcpyDiffers, ApartKept
    <2>3. CASE ~ CopyInRange
        BY <1>3, <2>3, KeptNow DEF BlockCopy
    <2>4. QED BY <2>2, <2>3
<1>4. QED BY <1>1, <1>2, <1>3

LEMMA WriteStack ==
    ASSUME TypeInv, StackInv, WritesApart, StoreOp \/ Arg \/ BlockCopy
    PROVE  StackInv'
<1>1. PICK op : /\ Executes(op) /\ UNCHANGED programStack
                /\ \E a \in Going(Act.programCounter + Ints(op)) : Continue(a)
    BY WriteShape
<1>2. QED BY <1>1, ActGoing, WritesKeep, GoingStack

-----------------------------------------------------------------------------
(* Instructions that make and release frames.                               *)

LEMMA ImageWords ==
    ASSUME NEW n \in Int, -StackTop <= n, n <= StackTop
    PROVE  n \in Word /\ ToWord(n) = n
<1>1. PICK h \in Nat : W = 2 * h /\ W \div 2 = h
    BY WordSize
<1>2. DataMask \in Nat /\ DataMask + 1 < h
    BY <1>1, MaskAssumption
<1>3. n \in Word
    BY <1>1, <1>2 DEF Word, StackTop
<1>4. QED BY <1>3, ToWordFacts

(* The layout of the stack.                                                 *)
LEMMA StackLayout ==
    /\ StackTop \in Nat /\ StackTop = DataMask + 1 /\ DataMask \in Nat
    /\ StackBottom \in Int /\ StackBottom <= StackTop
    /\ MaxFrame \in Nat /\ MaxFrame <= StackBottom
    /\ EntryFrame \in Nat /\ EntryFrame >= 8 /\ EntryFrame % 4 = 0
    /\ EntryFrame + 4 <= MaxFrame
    /\ StackTop % 4 = 0
    /\ \A n \in FrameSizes : n \in Nat /\ n >= 8 /\ n <= MaxFrame /\ n % 4 = 0
<1>1. DataMask \in Nat /\ StackSize \in Nat /\ MaxVmMainArgs \in Nat
    BY MaskAssumption, InterpreterAssumption
<1>2. \A n \in FrameSizes : n \in 8 .. MaxFrame /\ n % 4 = 0
    BY DisciplineAssumption
<1>3. /\ MaxFrame \in Nat /\ EntryFrame + 4 <= MaxFrame /\ MaxFrame <= StackBottom
      /\ StackTop % 4 = 0
    BY DisciplineAssumption
<1>4. QED BY <1>1, <1>2, <1>3 DEF StackTop, StackBottom, EntryFrame

LEMMA Discipline ==
    ASSUME NEW op, Executes(op), EntersAndLeaves
    PROVE  /\ op = "OP_ENTER" <=> AtEntry
           /\ op \in {"OP_ENTER", "OP_LEAVE"} => R2 \in FrameSizes
           /\ op = "OP_LEAVE" =>
                 LET ps == Act.programStack + R2 IN
                 /\ \E frame \in Act.frames : frame.at = ps
                 /\ \A frame \in Act.frames : frame.at >= ps
<1>1. HasInstruction /\ Opcode = op
    BY DEF Executes, HasInstruction
<1>2. QED BY <1>1 DEF EntersAndLeaves

(* Away from OP_ENTER there is room for a return address.                   *)
LEMMA RoomForFrame ==
    ASSUME TypeInv, StackInv, EntersAndLeaves, NEW op, Executes(op), op # "OP_ENTER"
    PROVE  /\ \A f \in Act.frames : Act.programStack + 8 <= f.at
           /\ Act.programStack + 8 <= Base(Act)
<1>1. FramesOK(Act) /\ acts # << >>
    BY Executing, ActStack
<1>2. \A f \in Act.frames : f.at # Act.programStack
    BY Discipline DEF AtEntry
<1>3. \A f \in Act.frames : Act.programStack + 8 <= f.at
    BY <1>1, <1>2 DEF FramesOK
<1>4. [at |-> Base(Act), pc |-> -1] \in Act.frames
    BY <1>1 DEF FramesOK
<1>5. [at |-> Base(Act), pc |-> -1].at = Base(Act)
    OBVIOUS
<1>6. QED BY <1>3, <1>4, <1>5

(* What OP_ENTER finds: it cannot take the stack pointer out of the image's *)
(* range by more than a frame.                                              *)
LEMMA EnterFacts ==
    ASSUME TypeInv, StackInv, EntersAndLeaves, Executes("OP_ENTER")
    PROVE  LET ps == Act.programStack - R2 IN
           /\ R2 \in Nat /\ R2 >= 8 /\ R2 <= MaxFrame /\ R2 % 4 = 0
           /\ ps \in Int /\ ToWord(ps) = ps /\ ps % 4 = 0
           /\ ps + 8 <= Act.programStack /\ Act.programStack >= 0
<1> DEFINE ps == Act.programStack - R2
<1>1. /\ acts # << >> /\ FramesOK(Act) /\ Act.programStack \in Int
      /\ Act.stackOnEntry \in Int
    BY Executing, ActStack
<1>2. R2 \in Nat /\ R2 >= 8 /\ R2 <= MaxFrame /\ R2 % 4 = 0
    BY Discipline, StackLayout
<1>3. PICK f \in Act.frames : f.at = Act.programStack
    BY Discipline DEF AtEntry
<1>4. InImage(f.at, 4)
    BY <1>1 DEF FramesOK
<1>5. Act.programStack >= 0
    BY <1>3, <1>4 DEF InImage
<1>6. Act.programStack % 4 = 0 /\ Act.programStack <= Act.stackOnEntry - EntryFrame
      /\ Act.stackOnEntry <= StackTop
    BY <1>1 DEF FramesOK, Base
<1>7. ps \in Int /\ -StackTop <= ps /\ ps <= StackTop /\ ps + 8 <= Act.programStack
    BY <1>1, <1>2, <1>5, <1>6, StackLayout
<1>8. ps % 4 = 0
    BY <1>1, <1>2, <1>6
<1>9. ToWord(ps) = ps
    BY <1>7, ImageWords
<1>10. QED BY <1>2, <1>5, <1>7, <1>8, <1>9

LEMMA EnterShape ==
    ASSUME TypeInv, StackInv, EntersAndLeaves, Enter
    PROVE  LET ps == Act.programStack - R2 IN
           /\ Executes("OP_ENTER") /\ acts # << >>
           /\ ps \in Int /\ ps % 4 = 0 /\ ps + 8 <= Act.programStack
           /\ mem' = IF DebugVm THEN PutWord(mem, ps + 4, Act.programStack) ELSE mem
           /\ UNCHANGED << program, vm, mode, history >>
           /\ \E a \in CodeAct :
                 /\ Continue(a)
                 /\ a.stackOnEntry = Act.stackOnEntry /\ a.programStack = ps
                 /\ a.frames = Act.frames
                 /\ a.programCounter = Act.programCounter + 2
<1> DEFINE ps == Act.programStack - R2
           a  == [Act EXCEPT !.programStack = ps]
           b  == Reload(Over(a, 2))
<1>1. Executes("OP_ENTER") /\ Act \in CodeAct /\ acts # << >>
    BY Executing DEF Enter
<1>2. /\ ps \in Int /\ ToWord(ps) = ps /\ ps % 4 = 0
      /\ ps + 8 <= Act.programStack
    BY <1>1, EnterFacts
<1>3. /\ mem' = IF DebugVm THEN PutWord(mem, ps + 4, Act.programStack) ELSE mem
      /\ Continue(b)
      /\ UNCHANGED << program, vm, mode, history >>
    BY <1>2 DEF Enter
<1> HIDE DEF ps
<1>4. /\ a \in CodeAct /\ a.programStack = ps /\ a.frames = Act.frames
      /\ a.stackOnEntry = Act.stackOnEntry /\ a.programCounter = Act.programCounter
    BY <1>1, <1>2 DEF CodeAct, ActivationType
<1> HIDE DEF a
<1>5. /\ b \in CodeAct /\ b.programStack = ps /\ b.frames = Act.frames
      /\ b.stackOnEntry = Act.stackOnEntry
      /\ b.programCounter = Act.programCounter + 2
    <2>1. /\ Over(a, 2) \in CodeAct /\ SameFrames(Over(a, 2), a)
          /\ Over(a, 2).programCounter = Act.programCounter + 2
        <3>1. Over(a, 2) \in CodeAct /\ SameFrames(Over(a, 2), a)
            BY <1>4, StackTyped, UpdatesKeepFrames DEF CodeAct
        <3>2. Over(a, 2).programCounter = a.programCounter + 2
            BY <1>4 DEF CodeAct, Over, ActivationType
        <3>3. QED BY <1>4, <3>1, <3>2
    <2>2. /\ b \in CodeAct /\ SameFrames(b, Over(a, 2))
          /\ b.programCounter = Over(a, 2).programCounter
        BY <2>1, ReloadCode, UpdatesKeepFrames DEF CodeAct, Reload, ActivationType
    <2>3. QED BY <1>4, <2>1, <2>2 DEF SameFrames
<1> HIDE DEF b
<1>6. QED BY <1>1, <1>2, <1>3, <1>5 DEF ps

LEMMA EnterStack ==
    ASSUME TypeInv, StackInv, EntersAndLeaves, Enter
    PROVE  StackInv'
<1> DEFINE ps == Act.programStack - R2
<1>1. /\ acts # << >> /\ ps \in Int /\ ps % 4 = 0 /\ ps + 8 <= Act.programStack
      /\ mem' = IF DebugVm THEN PutWord(mem, ps + 4, Act.programStack) ELSE mem
      /\ UNCHANGED << program, vm, mode, history >>
    BY EnterShape
<1>2. PICK b \in CodeAct : /\ Continue(b)
                           /\ b.stackOnEntry = Act.stackOnEntry
                           /\ b.programStack = ps /\ b.frames = Act.frames
    BY EnterShape
<1>3. /\ FramesOK(Act) /\ Act.programStack \in Int /\ Act.stackOnEntry \in Int
    BY <1>1, ActStack
<1> HIDE DEF ps
<1>4. \A f \in Act.frames : Act.programStack <= f.at /\ f.at \in Int
    BY <1>1, <1>3, ActStack DEF FramesOK
<1>5. Kept(mem')
    <2>1. CASE DebugVm
        <3>1. Differs(mem', ps + 4, 4)
            BY <1>1, <2>1, PutDiffers DEF PutWord
        <3>2. Apart(ps + 4, 4)
            <4>1. \A f \in Act.frames : (ps + 4) + 4 <= f.at
                BY <1>1, <1>3, <1>4
            <4>2. (ps + 4) + 4 <= Act.stackOnEntry + 4
                <5>1. Act.programStack <= Act.stackOnEntry - EntryFrame
                    BY <1>3 DEF FramesOK, Base
                <5>2. QED BY <1>1, <1>3, <5>1, StackLayout
            <4>3. ps + 4 \in Int
                BY <1>1
            <4>4. QED BY <1>1, <4>1, <4>2, <4>3, OwnApart
        <3>3. QED BY <1>1, <3>1, <3>2, ApartKept
    <2>2. CASE ~ DebugVm
        BY <1>1, <2>2, KeptNow
    <2>3. QED BY <2>1, <2>2
<1>6. FramesOK(b)
    <2>1. ps <= Base(Act) /\ \A f \in Act.frames : ps <= f.at /\ ps + 8 <= f.at
        <3>1. Act.programStack <= Act.stackOnEntry - EntryFrame
            BY <1>3 DEF FramesOK, Base
        <3>2. QED BY <1>1, <1>3, <1>4, <3>1, StackLayout DEF Base
    <2>2. Base(b) = Base(Act)
        BY <1>2 DEF Base
    <2>3. QED BY <1>1, <1>2, <1>3, <2>1, <2>2 DEF FramesOK, CodeAct
<1>7. UNCHANGED programStack
    BY <1>1 DEF vm
<1>8. QED BY <1>1, <1>2, <1>5, <1>6, <1>7, MovedStack DEF CodeAct

(* What OP_LEAVE finds: the return address of the innermost call.           *)
LEMMA LeaveFacts ==
    ASSUME TypeInv, StackInv, EntersAndLeaves, Executes("OP_LEAVE")
    PROVE  LET ps == Act.programStack + R2 IN
           /\ ps \in Int /\ ToWord(ps) = ps /\ ps % 4 = 0 /\ InImage(ps, 4)
           /\ ps <= Base(Act)
           /\ \E f \in Act.frames : f.at = ps /\ f.pc = WordAt(mem, ps)
           /\ \A f \in Act.frames : f.at = ps \/ ps + 8 <= f.at
           /\ WordAt(mem, ps) = -1 <=> ps = Base(Act)
<1> DEFINE ps == Act.programStack + R2
<1>1. /\ acts # << >> /\ FramesOK(Act) /\ Act.programStack \in Int
      /\ Act.stackOnEntry \in Int
    BY Executing, ActStack
<1>2. R2 \in Nat /\ R2 % 4 = 0
    BY Discipline, StackLayout
<1>3. /\ \E f \in Act.frames : f.at = ps
      /\ \A f \in Act.frames : f.at >= ps
    BY Discipline
<1>4. PICK f \in Act.frames : f.at = ps
    BY <1>3
<1>5. /\ InImage(ps, 4) /\ ps <= Base(Act) /\ WordAt(mem, ps) = f.pc
      /\ f.pc = -1 <=> ps = Base(Act)
    <2>1. InImage(f.at, 4) /\ f.at <= Base(Act) /\ f.pc = -1 <=> f.at = Base(Act)
        BY <1>1 DEF FramesOK
    <2>2. WordAt(mem, f.at) = f.pc
        BY <1>1, ActStack
    <2>3. InImage(f.at, 4) /\ f.at <= Base(Act)
        BY <1>1 DEF FramesOK
    <2>4. QED BY <1>4, <2>1, <2>2, <2>3
<1>6. ps \in Int /\ ps % 4 = 0
    <2>1. Act.programStack % 4 = 0
        BY <1>1 DEF FramesOK
    <2>2. QED BY <1>1, <1>2, <2>1
<1>7. ToWord(ps) = ps
    <2>1. ps >= 0 /\ ps <= Act.stackOnEntry - EntryFrame /\ Act.stackOnEntry <= StackTop
        BY <1>1, <1>5 DEF InImage, Base, FramesOK
    <2>2. -StackTop <= ps /\ ps <= StackTop
        BY <1>1, <1>6, <2>1, StackLayout
    <2>3. QED BY <1>6, <2>2, ImageWords
<1>8. \A g \in Act.frames : g.at = ps \/ ps + 8 <= g.at
    <2> TAKE g \in Act.frames
    <2>1. f.at = g.at \/ f.at + 8 <= g.at \/ g.at + 8 <= f.at
        BY <1>1 DEF FramesOK
    <2>2. g.at >= ps /\ g.at \in Int
        BY <1>1, <1>3, ActStack
    <2>3. QED BY <1>4, <1>6, <2>1, <2>2
<1> HIDE DEF ps
<1>9. QED BY <1>4, <1>5, <1>6, <1>7, <1>8 DEF ps

(* The innermost call of an activation has returned.                        *)
LEMMA UnwoundOK ==
    ASSUME NEW a \in ActivationType, NEW b \in ActivationType, FramesOK(a),
           NEW ps \in Int, ps % 4 = 0, ps # Base(a), ps <= Base(a),
           \A f \in a.frames : f.at = ps \/ ps + 8 <= f.at,
           b.stackOnEntry = a.stackOnEntry, b.at = "code", b.programStack = ps,
           b.frames = Unwound(a.frames, ps)
    PROVE  FramesOK(b)
<1>1. Base(b) = Base(a)
    BY DEF Base
<1>2. [at |-> Base(b), pc |-> -1] \in b.frames
    <2>1. [at |-> Base(a), pc |-> -1] \in a.frames
        BY DEF FramesOK
    <2>2. [at |-> Base(a), pc |-> -1].at # ps
        OBVIOUS
    <2>3. QED BY <1>1, <2>1, <2>2 DEF Unwound
<1>3. \A f \in b.frames : f \in a.frames /\ f.at # ps /\ ps + 8 <= f.at
    BY DEF Unwound
<1>4. \A f \in b.frames : f.at \in Int /\ ps <= f.at
    BY <1>3 DEF ActivationType
<1>5. QED BY <1>1, <1>2, <1>3, <1>4 DEF FramesOK

LEMMA LeaveShape ==
    ASSUME TypeInv, StackInv, EntersAndLeaves, Leave
    PROVE  LET ps == Act.programStack + R2 IN
           /\ Executes("OP_LEAVE") /\ acts # << >> /\ WordAt(mem, ps) # -1
           /\ \/ ErrorReturn(VM_PC_OUT_OF_RANGE) /\ UNCHANGED mem
              \/ \E a \in CodeAct :
                    /\ QuietTo(a)
                    /\ a.stackOnEntry = Act.stackOnEntry /\ a.programStack = ps
                    /\ a.frames = Unwound(Act.frames, ps)
                    /\ a.programCounter = WordAt(mem, ps)
<1> DEFINE ps == Act.programStack + R2
           pc == WordAt(mem, ps)
           a  == [Act EXCEPT !.programStack = ps, !.frames = Unwound(@, ps)]
           b  == Reload(Goto(a, pc))
<1>1. Executes("OP_LEAVE") /\ Act \in CodeAct /\ acts # << >> /\ mem \in Image
    BY Executing DEF Leave
<1>2. ps \in Int /\ ToWord(ps) = ps /\ InImage(ps, 4)
    BY <1>1, LeaveFacts
<1>3. /\ pc # -1
      /\ \/ Continue(b) /\ Quiet
         \/ ErrorReturn(VM_PC_OUT_OF_RANGE) /\ UNCHANGED mem
    BY <1>2 DEF Leave
<1> HIDE DEF ps
<1>4. pc \in Int
    BY <1>1, <1>2, ReadFacts, WordIsInt
<1>5. /\ a \in CodeAct /\ a.programStack = ps /\ a.frames = Unwound(Act.frames, ps)
      /\ a.stackOnEntry = Act.stackOnEntry
    BY <1>1, <1>2, UnwoundTyped DEF CodeAct, ActivationType
<1> HIDE DEF a, pc
<1>6. /\ b \in CodeAct /\ b.programStack = ps /\ b.frames = Unwound(Act.frames, ps)
      /\ b.stackOnEntry = Act.stackOnEntry /\ b.programCounter = pc
    <2>1. /\ Goto(a, pc) \in CodeAct /\ SameFrames(Goto(a, pc), a)
          /\ Goto(a, pc).programCounter = pc
        BY <1>4, <1>5, StackTyped, UpdatesKeepFrames DEF CodeAct, Goto, ActivationType
    <2>2. /\ b \in CodeAct /\ SameFrames(b, Goto(a, pc))
          /\ b.programCounter = Goto(a, pc).programCounter
        BY <2>1, ReloadCode, UpdatesKeepFrames DEF CodeAct, Reload, ActivationType
    <2>3. QED BY <1>5, <2>1, <2>2 DEF SameFrames
<1> HIDE DEF b
<1>7. QED BY <1>1, <1>3, <1>6 DEF ps, pc, QuietTo

LEMMA LeaveStack ==
    ASSUME TypeInv, StackInv, EntersAndLeaves, Leave
    PROVE  StackInv'
<1> DEFINE ps == Act.programStack + R2
<1>1. /\ Executes("OP_LEAVE") /\ acts # << >> /\ WordAt(mem, ps) # -1
    BY LeaveShape
<1>2. CASE ErrorReturn(VM_PC_OUT_OF_RANGE) /\ UNCHANGED mem
    BY <1>1, <1>2, PlainErrorStack
<1>3. ASSUME NEW b \in CodeAct, QuietTo(b), b.stackOnEntry = Act.stackOnEntry,
             b.programStack = ps, b.frames = Unwound(Act.frames, ps)
      PROVE  StackInv'
    <2>1. /\ ps \in Int /\ ps % 4 = 0 /\ ps <= Base(Act) /\ ps # Base(Act)
          /\ \A f \in Act.frames : f.at = ps \/ ps + 8 <= f.at
        BY <1>1, LeaveFacts
    <2>2. Act \in ActivationType /\ FramesOK(Act)
        BY <1>1, ActStack
    <2> HIDE DEF ps
    <2>3. FramesOK(b)
        BY <1>3, <2>1, <2>2, UnwoundOK DEF CodeAct
    <2>4. \A f \in b.frames : f \in Act.frames
        BY <1>3 DEF Unwound
    <2>5. Kept(mem') /\ UNCHANGED programStack
        BY <1>3, KeptNow DEF QuietTo, Quiet, vm
    <2>6. QED BY <1>1, <1>3, <2>3, <2>4, <2>5, MovedStack DEF CodeAct, QuietTo
<1>4. QED BY <1>2, <1>3, LeaveShape

LEMMA DoneStack ==
    ASSUME TypeInv, StackInv, Done
    PROVE  StackInv'
<1> DEFINE value == Act.opStack[Act.opStackOfs]
<1>1. acts # << >> /\ Act \in CodeAct
    BY Executing DEF Done
<1>2. value \in Word
    BY <1>1 DEF CodeAct, ActivationType
<1>3. HandBack("done", value) /\ programStack' = Act.stackOnEntry /\ UNCHANGED mem
    BY DEF Done
<1> HIDE DEF value
<1>4. QED BY <1>1, <1>2, <1>3, WaitingAbove, HandBackStack

-----------------------------------------------------------------------------
(* Calls.                                                                   *)

LEMMA ReturnAddressFacts ==
    ASSUME TypeInv, NEW op, Executes(op)
    PROVE  ReturnAddress \in Word /\ ReturnAddress \in Nat /\ ReturnAddress # -1
<1>1. Act.programCounter \in 0 .. codeLength - 1
    BY DEF Executes, Readable
<1>2. codeLength \in Nat
    BY ProgramTyped
<1>3. codeLength \in Word
    BY DisciplineAssumption DEF TypeInv, codeLength
<1>4. PICK h \in Nat : W = 2 * h /\ W \div 2 = h
    BY WordSize
<1>5. QED BY <1>1, <1>2, <1>3, <1>4 DEF ReturnAddress, Word

(* A call of a function or of the host: the new return address, and those   *)
(* of the open calls, are in the image, whatever is written in the word     *)
(* above it.                                                                *)
LEMMA CallFacts ==
    ASSUME TypeInv, StackInv, EntersAndLeaves, Executes("OP_CALL"),
           InImage(Act.programStack, 4)
    PROVE  LET ps     == Act.programStack
               called == PutWord(mem, ps, ReturnAddress) IN
           /\ ps \in Int /\ ps + 8 <= Base(Act)
           /\ Kept(called)
           /\ WordAt(called, ps) = ReturnAddress
           /\ \A f \in Act.frames : ps + 8 <= f.at
<1> DEFINE ps     == Act.programStack
           called == PutWord(mem, ps, ReturnAddress)
<1>1. /\ acts # << >> /\ FramesOK(Act) /\ ps \in Int /\ Act.stackOnEntry \in Int
      /\ \A f \in Act.frames : f.at \in Int
    BY Executing, ActStack
<1>2. ps + 8 <= Base(Act) /\ \A f \in Act.frames : ps + 8 <= f.at
    BY RoomForFrame
<1>3. Differs(called, ps, 4)
    BY <1>1, PutDiffers DEF PutWord
<1>4. Apart(ps, 4)
    <2>1. ps + 4 <= Act.stackOnEntry + 4
        BY <1>1, <1>2, StackLayout DEF Base
    <2>2. \A f \in Act.frames : ps + 4 <= f.at
        BY <1>1, <1>2
    <2> HIDE DEF ps
    <2>3. QED BY <1>1, <2>1, <2>2, OwnApart
<1>5. WordAt(called, ps) = ReturnAddress
    BY <1>1, ReturnAddressFacts, WordStored
<1>6. Kept(called)
    <2> HIDE DEF called, ps
    <2>1. QED BY <1>1, <1>3, <1>4, ApartKept
<1>7. QED BY <1>1, <1>2, <1>5, <1>6

(* The frames of an activation that calls.                                  *)
LEMMA FramedOK ==
    ASSUME TypeInv, StackInv, EntersAndLeaves, Executes("OP_CALL"),
           InImage(Act.programStack, 4),
           NEW b \in ActivationType, b.stackOnEntry = Act.stackOnEntry,
           b.programStack = Act.programStack,
           b.frames = Act.frames \cup {[at |-> Act.programStack, pc |-> ReturnAddress]}
    PROVE  FramesOK(b)
<1> DEFINE ps == Act.programStack
           new == [at |-> ps, pc |-> ReturnAddress]
<1>1. /\ FramesOK(Act) /\ ps \in Int /\ Act.stackOnEntry \in Int
      /\ \A f \in Act.frames : f.at \in Int
    BY Executing, ActStack
<1>2. ps + 8 <= Base(Act) /\ \A f \in Act.frames : ps + 8 <= f.at
    BY RoomForFrame
<1>3. Base(b) = Base(Act)
    BY DEF Base
<1>4. new.at = ps /\ new.pc = ReturnAddress /\ new.pc # -1
    BY ReturnAddressFacts
<1>5. Base(Act) \in Int
    BY <1>1, StackLayout DEF Base
<1>6. ps <= Base(b) /\ ps # Base(b) /\ ps % 4 = 0 /\ InImage(ps, 4)
    BY <1>1, <1>2, <1>3, <1>5 DEF FramesOK
<1>7. [at |-> Base(b), pc |-> -1] \in b.frames
    BY <1>1, <1>3 DEF FramesOK
<1>8. new \in b.frames
    OBVIOUS
<1> HIDE DEF new
<1>9. \A f \in b.frames : f = new \/ f \in Act.frames
    BY DEF new
<1>10. ASSUME NEW f \in b.frames
       PROVE  /\ InImage(f.at, 4) /\ ps <= f.at /\ f.at <= Base(b)
              /\ f.at = ps \/ ps + 8 <= f.at
              /\ f.pc = -1 <=> f.at = Base(b)
    <2>1. CASE f = new
        BY <1>1, <1>4, <1>6, <2>1
    <2>2. CASE f \in Act.frames
        BY <1>1, <1>2, <1>3, <2>2 DEF FramesOK
    <2>3. QED BY <1>9, <2>1, <2>2
<1>11. ASSUME NEW f \in b.frames, NEW g \in b.frames
       PROVE  f.at = g.at \/ f.at + 8 <= g.at \/ g.at + 8 <= f.at
    <2>1. CASE f \in Act.frames /\ g \in Act.frames
        BY <1>1, <2>1 DEF FramesOK
    <2>2. CASE f = new \/ g = new
        BY <1>2, <1>4, <1>9, <2>2
    <2>3. QED BY <1>9, <2>1, <2>2
<1>12. Base(b) >= 0 /\ b.stackOnEntry <= StackTop /\ b.stackOnEntry % 4 = 0
    BY <1>1, <1>3 DEF FramesOK
<1> HIDE DEF ps
<1>13. b.programStack = ps
    BY DEF ps
<1>14. QED BY <1>4, <1>6, <1>7, <1>8, <1>10, <1>11, <1>12, <1>13 DEF FramesOK

(* The frame of the call that OP_CALL makes.                                *)
NewFrame == [at |-> Act.programStack, pc |-> ReturnAddress]

Calling(a) ==
    /\ a.stackOnEntry = Act.stackOnEntry /\ a.programStack = Act.programStack
    /\ a.frames = Act.frames \cup {NewFrame}

LEMMA CallFunctionShape ==
    ASSUME TypeInv, CallFunction
    PROVE  /\ Executes("OP_CALL") /\ acts # << >> /\ InImage(Act.programStack, 4)
           /\ mem' = PutWord(mem, Act.programStack, ReturnAddress)
           /\ \/ ErrorReturn(VM_PC_OUT_OF_RANGE)
              \/ /\ IsInstruction(R0)
                 /\ UNCHANGED << program, vm, mode, history >>
                 /\ \E a \in CodeAct :
                       /\ Continue(a) /\ Calling(a)
                       /\ a.programCounter = instructionPointers[R0]
<1> DEFINE f  == Framed(Act)
           to == instructionPointers[R0]
           g  == Goto(f, to)
           a  == Reload(Moving(g, -1))
<1>1. /\ Executes("OP_CALL") /\ acts # << >> /\ Act \in CodeAct /\ ReturnAddress \in Int
      /\ InImage(Act.programStack, 4)
      /\ mem' = PutWord(mem, Act.programStack, ReturnAddress)
    BY Executing DEF CallFunction
<1>2. f \in CodeAct /\ Calling(f)
    BY <1>1, FramedTyped DEF CodeAct, Framed, ActivationType, Calling, NewFrame
<1> HIDE DEF f
<1>3. CASE /\ IsInstruction(R0) /\ Continue(a)
           /\ UNCHANGED << program, vm, mode, history >>
    <2>1. to \in Int
        BY <1>3, ProgramTyped DEF IsInstruction
    <2> HIDE DEF to
    <2>2. g \in CodeAct /\ SameFrames(g, f) /\ g.programCounter = to
        <3>1. g \in CodeAct /\ SameFrames(g, f)
            BY <1>2, <2>1, StackTyped, UpdatesKeepFrames DEF CodeAct
        <3>2. g.programCounter = to
            BY <1>2 DEF CodeAct, Goto, ActivationType
        <3>3. QED BY <3>1, <3>2
    <2> HIDE DEF g
    <2>3. Moving(g, -1) \in CodeAct /\ SameFrames(Moving(g, -1), g)
          /\ Moving(g, -1).programCounter = to
        <3>1. Moving(g, -1) \in CodeAct /\ SameFrames(Moving(g, -1), g)
            BY <2>2, StackTyped, UpdatesKeepFrames DEF CodeAct
        <3>2. Moving(g, -1).programCounter = to
            BY <2>2 DEF CodeAct, Moving, ActivationType
        <3>3. QED BY <3>1, <3>2
    <2>4. a \in CodeAct /\ SameFrames(a, Moving(g, -1)) /\ a.programCounter = to
        BY <2>3, ReloadCode, UpdatesKeepFrames DEF CodeAct, Reload, ActivationType
    <2> HIDE DEF a
    <2>5. Calling(a)
        BY <1>2, <2>2, <2>3, <2>4 DEF SameFrames, Calling
    <2>6. QED BY <1>1, <1>3, <2>4, <2>5 DEF to
<1>4. CASE ErrorReturn(VM_PC_OUT_OF_RANGE)
    BY <1>1, <1>4
<1>5. QED BY <1>3, <1>4 DEF CallFunction, f, g, a, to

LEMMA CallFunctionStack ==
    ASSUME TypeInv, StackInv, EntersAndLeaves, CallFunction
    PROVE  StackInv'
<1>1. /\ Executes("OP_CALL") /\ acts # << >> /\ InImage(Act.programStack, 4)
      /\ mem' = PutWord(mem, Act.programStack, ReturnAddress)
    BY CallFunctionShape
<1>2. Kept(mem') /\ WordAt(mem', Act.programStack) = ReturnAddress
    BY <1>1, CallFacts
<1>3. ASSUME NEW a \in CodeAct, Continue(a), Calling(a), UNCHANGED vm
      PROVE  StackInv'
    <2>1. a \in ActivationType /\ a.at = "code"
        BY DEF CodeAct
    <2>2. FramesOK(a)
        BY <1>1, <1>3, <2>1, FramedOK DEF Calling, NewFrame
    <2>3. \A x \in a.frames : x \in Act.frames \/ WordAt(mem', x.at) = x.pc
        BY <1>2, <1>3 DEF Calling, NewFrame
    <2>4. UNCHANGED programStack /\ a.stackOnEntry = Act.stackOnEntry
        BY <1>3 DEF vm, Calling
    <2>5. QED BY <1>1, <1>2, <1>3, <2>1, <2>2, <2>3, <2>4, MovedStack
<1>4. CASE ErrorReturn(VM_PC_OUT_OF_RANGE)
    <2>1. Len(acts) \in Nat
        BY <1>1, ActStack
    <2>2. \A j \in 1 .. Len(acts) - 1 : \A x \in acts[j].frames : WordAt(mem', x.at) = x.pc
        BY <1>2, <2>1 DEF Kept
    <2>3. QED BY <1>1, <1>4, <2>2, ErrorStack
<1>5. QED BY <1>3, <1>4, CallFunctionShape

LEMMA WordBeside ==
    ASSUME NEW m, NEW a \in Int, NEW w, InImage(a, 8)
    PROVE  WordAt(PutWord(m, a + 4, w), a) = WordAt(m, a)
<1> DEFINE p == PutWord(m, a + 4, w)
<1>1. /\ a \in Addresses /\ a + 1 \in Addresses /\ a + 2 \in Addresses
      /\ a + 3 \in Addresses
      /\ a \notin a + 4 .. a + 4 + 4 - 1 /\ a + 1 \notin a + 4 .. a + 4 + 4 - 1
      /\ a + 2 \notin a + 4 .. a + 4 + 4 - 1 /\ a + 3 \notin a + 4 .. a + 4 + 4 - 1
    BY MaskAssumption DEF InImage, Addresses
<1>2. p[a] = m[a] /\ p[a + 1] = m[a + 1] /\ p[a + 2] = m[a + 2] /\ p[a + 3] = m[a + 3]
    BY <1>1 DEF PutWord, Put
<1> HIDE DEF p
<1>3. WordAt(p, a) = WordAt(m, a)
    BY <1>2 DEF WordAt
<1>4. QED BY <1>3 DEF p

LEMMA TwoWordsDiffer ==
    ASSUME NEW a \in Int, NEW v, NEW w
    PROVE  Differs(PutWord(PutWord(mem, a, v), a + 4, w), a, 8)
<1>1. ASSUME NEW x \in Addresses, x < a \/ a + 8 <= x
      PROVE  PutWord(PutWord(mem, a, v), a + 4, w)[x] = mem[x]
    <2>1. x \in Int
        BY MaskAssumption DEF Addresses
    <2>2. x \notin a .. a + 4 - 1 /\ x \notin a + 4 .. a + 4 + 4 - 1
        BY <1>1, <2>1
    <2>3. QED BY <2>2 DEF PutWord, Put
<1>2. QED BY <1>1 DEF Differs

LEMMA SystemCallShape ==
    ASSUME TypeInv, SystemCall
    PROVE  LET ps == Act.programStack IN
           /\ Executes("OP_CALL") /\ acts # << >> /\ R0 < 0
           /\ InImage(ps, SyscallFrame) /\ programStack' = ps - 4
           /\ mem' = PutWord(PutWord(mem, ps, ReturnAddress), ps + 4, -1 - R0)
           /\ UNCHANGED << program, currentlyInterpreting, callLevel, lastError, mode,
                           history >>
           /\ \E a \in ActivationType : Continue(a) /\ Calling(a) /\ a.at = "handler"
<1> DEFINE ps     == Act.programStack
           called == PutWord(mem, ps, ReturnAddress)
           words  == [i \in 0 .. MaxSyscallArgs - 1 |-> WordAt(mem', ps + 4 + 4 * i)]
           word   == WordAt(called, ps + 4)
           f      == Framed(Act)
           m      == Moving(f, -1)
           a      == [m EXCEPT !.at = "handler", !.stomped = word, !.args = words]
<1>1. /\ Executes("OP_CALL") /\ acts # << >> /\ Act \in CodeAct /\ mem \in Image
      /\ ps \in Int /\ ReturnAddress \in Int /\ R0 \in Int
    BY Executing DEF SystemCall
<1>2. /\ InImage(ps, SyscallFrame) /\ R0 < 0
      /\ programStack' = ps - 4
      /\ mem' = PutWord(called, ps + 4, -1 - R0)
      /\ Continue(a)
      /\ UNCHANGED << program, currentlyInterpreting, callLevel, lastError, mode,
                      history >>
    BY DEF SystemCall, SyscallFrame
<1>3. InImage(ps + 4, 4)
    BY <1>1, <1>2, SyscallFrameFacts
<1>4. called \in Image
    BY <1>1, PutWordFacts
<1>5. mem' \in Image
    <2> HIDE DEF called
    <2>1. ps + 4 \in Int /\ -1 - R0 \in Int
        BY <1>1
    <2>2. QED BY <1>2, <1>4, <2>1, PutWordFacts
<1>6. words \in [0 .. MaxSyscallArgs - 1 -> Word]
    BY <1>1, <1>2, <1>5, ArgumentsTyped
<1>7. word \in Word
    <2> HIDE DEF called
    <2>1. ps + 4 \in Int
        BY <1>1
    <2>2. QED BY <1>3, <1>4, <2>1, ReadFacts
<1>8. f \in ActivationType /\ Calling(f)
    BY <1>1, FramedTyped DEF CodeAct, Framed, ActivationType, Calling, NewFrame
<1> HIDE DEF f
<1>9. m \in ActivationType /\ SameFrames(m, f)
    BY <1>8, MovingTyped, UpdatesKeepFrames
<1> HIDE DEF m, words, word
<1>10. a \in ActivationType /\ a.at = "handler" /\ Calling(a)
    BY <1>6, <1>7, <1>8, <1>9 DEF SameFrames, ActivationType, Calling
<1> HIDE DEF a
<1>11. QED BY <1>1, <1>2, <1>10

LEMMA SystemCallStack ==
    ASSUME TypeInv, StackInv, EntersAndLeaves, SystemCall
    PROVE  StackInv'
<1> DEFINE ps     == Act.programStack
           called == PutWord(mem, ps, ReturnAddress)
<1>1. /\ Executes("OP_CALL") /\ acts # << >>
      /\ InImage(ps, SyscallFrame) /\ programStack' = ps - 4
      /\ mem' = PutWord(called, ps + 4, -1 - R0)
    BY SystemCallShape
<1>2. PICK a \in ActivationType : Continue(a) /\ Calling(a) /\ a.at = "handler"
    BY SystemCallShape
<1>3. /\ FramesOK(Act) /\ ps \in Int /\ Act.stackOnEntry \in Int
      /\ Len(acts) \in Nat /\ Len(acts) >= 1 /\ Act = acts[Len(acts)]
    BY <1>1, ActStack
<1>4. InImage(ps, 4) /\ InImage(ps, 8)
    BY <1>1, <1>3, SyscallFrameFacts DEF InImage
<1>5. ps + 8 <= Base(Act) /\ \A x \in Act.frames : ps + 8 <= x.at
    BY <1>1, <1>4, CallFacts
<1>6. WordAt(mem', ps) = ReturnAddress
    <2>1. WordAt(called, ps) = ReturnAddress
        BY <1>1, <1>4, CallFacts
    <2> HIDE DEF called
    <2>2. QED BY <1>1, <1>3, <1>4, <2>1, WordBeside
<1>7. Kept(mem')
    <2>1. Differs(mem', ps, 8)
        BY <1>1, <1>3, TwoWordsDiffer
    <2>2. ps + 8 <= Act.stackOnEntry + 4
        BY <1>3, <1>5, StackLayout DEF Base
    <2>3. Apart(ps, 8)
        <3>1. \A f \in Act.frames : ps + 8 <= f.at \/ f.at + 4 <= ps
            BY <1>5
        <3> HIDE DEF ps
        <3>2. QED BY <1>1, <1>3, <2>2, <3>1, OwnApart
    <2> HIDE DEF ps
    <2>4. QED BY <1>3, <2>1, <2>3, ApartKept
<1> HIDE DEF called
<1>8. FramesOK(a)
    BY <1>1, <1>2, <1>4, FramedOK DEF Calling, NewFrame
<1>9. /\ \A j \in 1 .. Len(acts) - 1 : \A x \in acts[j].frames : WordAt(mem', x.at) = x.pc
      /\ \A x \in a.frames : WordAt(mem', x.at) = x.pc
    BY <1>2, <1>3, <1>6, <1>7 DEF Kept, Calling, NewFrame
<1>10. /\ programStack' <= StackTop /\ programStack' % 4 = 0
       /\ programStack' <= a.stackOnEntry /\ programStack' <= a.programStack - 4
    <2>1. ps % 4 = 0 /\ Act.stackOnEntry <= StackTop
        BY <1>3 DEF FramesOK
    <2>2. ps <= Act.stackOnEntry - EntryFrame - 8
        BY <1>3, <1>5, StackLayout DEF Base
    <2>3. (ps - 4) % 4 = 0
        BY <1>3, <2>1
    <2> HIDE DEF ps
    <2>4. a.programStack = ps /\ a.stackOnEntry = Act.stackOnEntry
        BY <1>2 DEF ps, Calling
    <2>5. QED BY <1>1, <1>3, <2>1, <2>2, <2>3, <2>4, StackLayout
<1>11. AboveFloor(programStack')
    <2>1. FetchErrors = {}
        BY <1>1 DEF Executes
    <2>2. DebugVm => ~ (ps <= StackBottom)
        BY <2>1 DEF FetchErrors
    <2>3. QED BY <1>1, <1>3, <2>2, StackLayout DEF AboveFloor
<1>12. a.stackOnEntry = Act.stackOnEntry
    BY <1>2 DEF Calling
<1>13. QED BY <1>1, <1>2, <1>8, <1>9, <1>10, <1>11, <1>12, ContinueStack

(* What a DEBUG_VM build puts back after a system call is no return address.*)
LEMMA RestoredKept ==
    ASSUME TypeInv, StackInv, SystemReturn
    PROVE  Kept(mem')
<1> DEFINE ps       == Act.programStack
           restored == IF DebugVm THEN PutWord(mem, ps + 4, Act.stomped) ELSE mem
<1>1. acts # << >> /\ Act.at = "handled" /\ mem' = restored
    BY DEF SystemReturn
<1>2. /\ Act \in ActivationType
      /\ FramesOK(Act) /\ Act.stackOnEntry \in Int
      /\ \A x \in Act.frames : x.at \in Int
    BY <1>1, ActTyped, ActStack
<1>3. ps \in Int
    BY <1>2 DEF ActivationType
<1>4. ps <= Base(Act) /\ \A f \in Act.frames : f.at = ps \/ ps + 8 <= f.at
    BY <1>1, <1>2 DEF FramesOK
<1>5. Kept(restored)
    <2>1. CASE DebugVm
        <3>1. Differs(restored, ps + 4, 4)
            BY <1>3, <2>1, PutDiffers DEF PutWord
        <3>2. Apart(ps + 4, 4)
            <4>1. \A f \in Act.frames : (ps + 4) + 4 <= f.at \/ f.at + 4 <= ps + 4
                BY <1>2, <1>3, <1>4
            <4>2. (ps + 4) + 4 <= Act.stackOnEntry + 4
                <5>1. ps <= Act.stackOnEntry - EntryFrame
                    BY <1>4 DEF Base
                <5>2. QED BY <1>2, <1>3, <5>1, StackLayout
            <4>3. ps + 4 \in Int
                BY <1>3
            <4> HIDE DEF ps
            <4>4. QED BY <1>1, <4>1, <4>2, <4>3, OwnApart
        <3> HIDE DEF ps, restored
        <3>3. QED BY <1>3, <3>1, <3>2, ApartKept
    <2>2. CASE ~ DebugVm
        BY <2>2, KeptNow
    <2>3. QED BY <2>1, <2>2
<1>6. QED BY <1>1, <1>5

LEMMA SystemReturnShape ==
    ASSUME TypeInv, SystemReturn
    PROVE  /\ acts # << >> /\ Act.at = "handled"
           /\ UNCHANGED << program, vm, mode, history >>
           /\ \E a \in CodeAct :
                 /\ Continue(a)
                 /\ a.stackOnEntry = Act.stackOnEntry
                 /\ a.programStack = Act.programStack
                 /\ a.frames = Unwound(Act.frames, Act.programStack)
                 /\ a.programCounter = WordAt(mem', Act.programStack)
<1> DEFINE ps       == Act.programStack
           restored == IF DebugVm THEN PutWord(mem, ps + 4, Act.stomped) ELSE mem
           pc       == WordAt(restored, ps)
           m        == Setting(Act, 1, Act.result)
           a        == [m EXCEPT !.at = "code", !.frames = Unwound(@, ps)]
           b        == Reload(Goto(a, pc))
<1>1. /\ acts # << >> /\ Act.at = "handled"
      /\ mem' = restored
      /\ Continue(b)
      /\ UNCHANGED << program, vm, mode, history >>
    BY DEF SystemReturn
<1>2. Act \in ActivationType /\ InImage(ps, SyscallFrame)
    BY <1>1, ActTyped DEF Waiting
<1>3. ps \in Int /\ Act.result \in Word /\ Act.stomped \in Word /\ Act.stomped \in Int
    <2>1. ps \in Int /\ Act.result \in Word /\ Act.stomped \in Word
        BY <1>2 DEF ActivationType
    <2>2. QED BY <2>1, WordIsInt
<1>4. restored \in Image
    BY <1>3, PutWordFacts DEF TypeInv, TypeOK
<1> HIDE DEF restored
<1>5. pc \in Int
    <2>1. InImage(ps, 4)
        BY <1>2, <1>3, SyscallFrameFacts
    <2>2. QED BY <1>3, <1>4, <2>1, ReadFacts, WordIsInt
<1>6. m \in ActivationType /\ SameFrames(m, Act)
    <2>1. m \in ActivationType
        BY <1>2, <1>3, SettingTyped
    <2>2. SameFrames(m, Act)
        BY <1>2, UpdatesKeepFrames
    <2>3. QED BY <2>1, <2>2
<1> HIDE DEF m, pc, ps
<1>7. /\ a \in CodeAct /\ a.frames = Unwound(Act.frames, ps)
      /\ a.programStack = Act.programStack /\ a.stackOnEntry = Act.stackOnEntry
    BY <1>6, UnwoundTyped DEF CodeAct, ActivationType, SameFrames
<1> HIDE DEF a
<1>8. /\ b \in CodeAct /\ b.frames = Unwound(Act.frames, ps) /\ b.programCounter = pc
      /\ b.programStack = Act.programStack /\ b.stackOnEntry = Act.stackOnEntry
    <2>1. /\ Goto(a, pc) \in CodeAct /\ SameFrames(Goto(a, pc), a)
          /\ Goto(a, pc).programCounter = pc
        BY <1>5, <1>7, StackTyped, UpdatesKeepFrames DEF CodeAct, Goto, ActivationType
    <2>2. /\ b \in CodeAct /\ SameFrames(b, Goto(a, pc))
          /\ b.programCounter = Goto(a, pc).programCounter
        BY <2>1, ReloadCode, UpdatesKeepFrames DEF CodeAct, Reload, ActivationType
    <2>3. QED BY <1>7, <2>1, <2>2 DEF SameFrames
<1> HIDE DEF b
<1>9. QED BY <1>1, <1>8 DEF ps, pc

LEMMA SystemReturnStack ==
    ASSUME TypeInv, StackInv, SystemReturn
    PROVE  StackInv'
<1>1. acts # << >> /\ Act.at = "handled" /\ UNCHANGED vm
    BY SystemReturnShape
<1>2. PICK b \in CodeAct : /\ Continue(b)
                           /\ b.stackOnEntry = Act.stackOnEntry
                           /\ b.programStack = Act.programStack
                           /\ b.frames = Unwound(Act.frames, Act.programStack)
    BY SystemReturnShape
<1>3. /\ Act \in ActivationType /\ FramesOK(Act) /\ Act.programStack \in Int
      /\ \A x \in Act.frames : x.at \in Int
    BY <1>1, ActStack
<1>4. /\ Act.programStack # Base(Act) /\ Act.programStack <= Base(Act)
      /\ Act.programStack % 4 = 0
      /\ \A f \in Act.frames : f.at = Act.programStack \/ Act.programStack + 8 <= f.at
    BY <1>1, <1>3 DEF FramesOK
<1>5. FramesOK(b)
    BY <1>2, <1>3, <1>4, UnwoundOK DEF CodeAct
<1>6. \A f \in b.frames : f \in Act.frames
    BY <1>2 DEF Unwound
<1>7. UNCHANGED programStack
    BY <1>1 DEF vm
<1>8. QED BY <1>1, <1>2, <1>5, <1>6, <1>7, RestoredKept, MovedStack DEF CodeAct

-----------------------------------------------------------------------------
(* The host.                                                                *)

LEMMA HandlerShape ==
    ASSUME TypeInv, Handling, NEW value \in Word, HandlerReturns(value)
    PROVE  /\ acts # << >> /\ Act.at = "handler"
           /\ \E a \in ActivationType :
                 /\ Continue(a) /\ a.at = "handled" /\ a.frames = Act.frames
                 /\ a.stackOnEntry = Act.stackOnEntry
                 /\ a.programStack = Act.programStack
<1> DEFINE a == [Act EXCEPT !.at = "handled", !.result = value]
<1>1. acts # << >> /\ Act.at = "handler" /\ Act \in ActivationType
    BY ActTyped DEF Handling
<1>2. /\ a \in ActivationType /\ a.at = "handled" /\ a.frames = Act.frames
      /\ a.stackOnEntry = Act.stackOnEntry /\ a.programStack = Act.programStack
    BY <1>1 DEF ActivationType
<1>3. Continue(a)
    BY DEF HandlerReturns
<1> HIDE DEF a
<1>4. QED BY <1>1, <1>2, <1>3

LEMMA HandlerReturnsStack ==
    ASSUME TypeInv, StackInv, Handling, NEW value \in Word, HandlerReturns(value),
           UNCHANGED programStack, Kept(mem')
    PROVE  StackInv'
<1>1. acts # << >> /\ Act.at = "handler"
    BY DEF Handling
<1>2. PICK a \in ActivationType :
          /\ Continue(a) /\ a.at = "handled" /\ a.frames = Act.frames
          /\ a.stackOnEntry = Act.stackOnEntry /\ a.programStack = Act.programStack
    BY HandlerShape
<1>3. /\ FramesOK(Act) /\ Len(acts) \in Nat /\ Len(acts) >= 1 /\ Act = acts[Len(acts)]
    BY <1>1, ActStack
<1>4. FramesOK(a)
    BY <1>1, <1>2, <1>3 DEF FramesOK, Base
<1>5. /\ \A j \in 1 .. Len(acts) - 1 : \A f \in acts[j].frames : WordAt(mem', f.at) = f.pc
      /\ \A f \in a.frames : WordAt(mem', f.at) = f.pc
    BY <1>2, <1>3 DEF Kept
<1>6. /\ programStack <= StackTop /\ programStack % 4 = 0 /\ AboveFloor(programStack)
      /\ programStack <= a.stackOnEntry /\ programStack <= a.programStack - 4
    BY <1>1, <1>2 DEF StackInv
<1>7. QED BY <1>1, <1>2, <1>4, <1>5, <1>6, ContinueStack

LEMMA HostMemStack ==
    ASSUME TypeInv, StackInv, WritesApart, HostMemset \/ HostMemcpy
    PROVE  StackInv'
<1> DEFINE a == Act.args[1]
           b == Act.args[2]
           n == Act.args[3]
<1>1. Handling /\ HandlerReturns(a) /\ HostQuiet
    BY DEF HostMemset, HostMemcpy
<1>2. a \in Word /\ a \in Int /\ b \in Int /\ n \in Int
    BY <1>1, HandlingTyped
<1>3. CASE HostMemset
    <2>1. /\ mem' = IF RangeValid(a, n) THEN Fill(mem, a, n, b) ELSE mem
          /\ RangeValid(a, n) => Apart(a, n)
        BY <1>3 DEF HostMemset, WritesApart
    <2> HIDE DEF a, b, n
    <2>2. Kept(mem')
        BY <1>2, <2>1, FillDiffers, ApartKept, KeptNow
    <2>3. QED BY <1>1, <1>2, <2>2, HandlerReturnsStack DEF HostQuiet, vm
<1>4. CASE HostMemcpy
    <2> DEFINE both == RangeValid(a, n) /\ RangeValid(b, n)
    <2>1. /\ both => Apart(a, n) /\ mem' \in Memcpy(mem, a, b, n)
          /\ ~ both => mem' = mem
        BY <1>4 DEF HostMemcpy, WritesApart
    <2> HIDE DEF a, b, n, both
    <2>2. Kept(mem')
        BY <1>2, <2>1, MemcpyDiffers, ApartKept, KeptNow
    <2>3. QED BY <1>1, <1>2, <2>2, HandlerReturnsStack DEF HostQuiet, vm
<1>5. QED BY <1>3, <1>4

(* The activation VM_Call makes: its frame is the only one.                 *)
LEMMA NewOK ==
    ASSUME NEW new, NEW stack \in Int, NEW ps \in Int, ps = stack - EntryFrame,
           InImage(ps, EntryFrame), stack <= StackTop, stack % 4 = 0,
           new.stackOnEntry = stack, new.programStack = ps, new.at = "code",
           new.frames = {[at |-> ps, pc |-> -1]}
    PROVE  FramesOK(new)
<1>1. Base(new) = ps
    BY DEF Base
<1>2. ps >= 0 /\ ps % 4 = 0 /\ ps <= StackTop /\ InImage(ps, 4)
    BY StackLayout DEF InImage
<1>3. \A f \in new.frames : f = [at |-> ps, pc |-> -1] /\ f.at = ps /\ f.pc = -1
    OBVIOUS
<1>4. QED BY <1>1, <1>2, <1>3 DEF FramesOK

(* VM_Call suspends the activation it is called from, if it is called from  *)
(* one, and pushes its own.                                                 *)
LEMMA BeginShape ==
    ASSUME TypeInv, acts # << >> => Act.at = "handler",
           NEW args \in [0 .. MaxVmMainArgs - 1 -> Word], BeginCall(args),
           calls' \in 0 .. MaxCalls
    PROVE  \E callers \in Seq(ActivationType), new \in ActivationType :
              /\ Len(callers) = Len(acts)
              /\ \A i \in 1 .. Len(acts) :
                    /\ callers[i].at = "nested" /\ callers[i].frames = acts[i].frames
                    /\ callers[i].stackOnEntry = acts[i].stackOnEntry
                    /\ callers[i].programStack = acts[i].programStack
              /\ acts' = Append(callers, new) /\ new.at = "code"
              /\ new.stackOnEntry = programStack
              /\ new.programStack = programStack - EntryFrame
              /\ new.programCounter = 0
              /\ new.frames = {[at |-> programStack - EntryFrame, pc |-> -1]}
<1> DEFINE ps      == programStack - EntryFrame
           n       == Len(acts)
           callers == IF acts = << >> THEN acts
                      ELSE [acts EXCEPT ![Len(acts)] = [@ EXCEPT !.at = "nested"]]
           OpStack(rest) == [i \in OpStackIndex |-> IF i = 0 THEN Canary ELSE rest[i]]
           New(opStack) ==
              [stackOnEntry |-> programStack, programStack |-> ps,
               programCounter |-> 0, opStack |-> opStack, opStackOfs |-> 0,
               r0 |-> opStack[0], r1 |-> opStack[OpStackSize - 1],
               at |-> "code", args |-> << >>, result |-> 0, stomped |-> 0,
               entry |-> args, frames |-> {[at |-> ps, pc |-> -1]}]
<1>1. PICK rest \in OpStacks : acts' = Append(callers, New(OpStack(rest)))
    BY DEF BeginCall
<1> DEFINE new == New(OpStack(rest))
<1>2. /\ acts' = Append(callers, new)
      /\ new.stackOnEntry = programStack /\ new.programStack = ps /\ new.at = "code"
      /\ new.programCounter = 0 /\ new.frames = {[at |-> ps, pc |-> -1]}
    BY <1>1
<1> HIDE DEF new
<1>3. Len(acts) \in Nat
    BY LenProperties DEF TypeInv, ActsOK
<1>4. /\ callers \in Seq(ActivationType) /\ Len(callers) = n
      /\ \A i \in 1 .. n : callers[i].at = "nested"
    BY CallersTyped
<1>5. \A i \in 1 .. n : /\ callers[i].frames = acts[i].frames
                        /\ callers[i].stackOnEntry = acts[i].stackOnEntry
                        /\ callers[i].programStack = acts[i].programStack
    <2>1. CASE acts = << >>
        BY <2>1
    <2>2. CASE acts # << >>
        <3> DEFINE b == [Act EXCEPT !.at = "nested"]
        <3>1. /\ Len(acts) >= 1 /\ Act = acts[Len(acts)]
              /\ Act \in ActivationType
            BY <2>2, ActTyped
        <3>2. callers = [acts EXCEPT ![Len(acts)] = b]
            BY <2>2, <3>1
        <3>3. /\ b \in ActivationType /\ b.frames = Act.frames
              /\ b.stackOnEntry = Act.stackOnEntry
              /\ b.programStack = Act.programStack
            BY <3>1 DEF ActivationType
        <3> HIDE DEF b
        <3>4. /\ \A i \in 1 .. Len(acts) - 1 : callers[i] = acts[i]
              /\ callers[Len(acts)] = b
            BY <2>2, <3>2, <3>3, ReplaceLastFacts DEF TypeInv, ActsOK
        <3> HIDE DEF callers
        <3>5. ASSUME NEW i \in 1 .. n
              PROVE  /\ callers[i].frames = acts[i].frames
                     /\ callers[i].stackOnEntry = acts[i].stackOnEntry
                     /\ callers[i].programStack = acts[i].programStack
            <4>1. CASE i = n
                BY <3>1, <3>3, <3>4, <4>1
            <4>2. CASE i # n
                BY <1>3, <3>4, <4>2
            <4>3. QED BY <4>1, <4>2
        <3>6. QED BY <3>5
    <2>3. QED BY <2>1, <2>2
<1> HIDE DEF callers
<1>6. new \in ActivationType
    <2>1. acts'[n + 1] = new /\ Len(acts') = n + 1
        BY <1>2, <1>3, <1>4
    <2>2. TypeInv'
        BY BeginTyped
    <2>3. acts' \in Seq(ActivationType) /\ n + 1 \in 1 .. Len(acts')
        BY <1>3, <2>1, <2>2 DEF TypeInv, ActsOK
    <2>4. QED BY <2>1, <2>3, ElementOfSeq
<1>7. QED BY <1>2, <1>4, <1>5, <1>6

LEMMA BeginStack ==
    ASSUME TypeInv, StackInv, acts # << >> => Act.at = "handler",
           NEW args \in [0 .. MaxVmMainArgs - 1 -> Word], BeginCall(args),
           calls' \in 0 .. MaxCalls
    PROVE  StackInv'
<1> DEFINE ps      == programStack - EntryFrame
           n       == Len(acts)
           words   == [i \in 0 .. 1 + MaxVmMainArgs |->
                          CASE i = 0 -> -1 [] i = 1 -> 0 [] OTHER -> args[i - 2]]
<1>1. /\ mem' = PutWords(mem, ps, 2 + MaxVmMainArgs, words)
      /\ InImage(ps, EntryFrame) /\ UNCHANGED programStack
    BY DEF BeginCall
<1>2. PICK callers \in Seq(ActivationType), new \in ActivationType :
          /\ Len(callers) = n
          /\ \A i \in 1 .. n :
                /\ callers[i].at = "nested" /\ callers[i].frames = acts[i].frames
                /\ callers[i].stackOnEntry = acts[i].stackOnEntry
                /\ callers[i].programStack = acts[i].programStack
          /\ acts' = Append(callers, new) /\ new.at = "code"
          /\ new.stackOnEntry = programStack /\ new.programStack = ps
          /\ new.frames = {[at |-> ps, pc |-> -1]}
    BY BeginShape
<1>3. Len(acts) \in Nat
    BY LenProperties DEF TypeInv, ActsOK
<1>4. programStack \in Int /\ ps \in Int /\ programStack = ps + EntryFrame
    BY StackLayout DEF TypeInv, TypeOK
<1>5. words[0] = -1 /\ -1 \in Word /\ 2 + MaxVmMainArgs \in Nat
      /\ EntryFrame = 4 * (2 + MaxVmMainArgs)
    <2>1. MaxVmMainArgs \in Nat
        BY InterpreterAssumption
    <2>2. PICK h \in Nat : W = 2 * h /\ W \div 2 = h /\ h > 0
        BY WordSize
    <2>3. 0 \in 0 .. 1 + MaxVmMainArgs
        BY <2>1
    <2>4. words[0] = -1
        BY <2>3
    <2>5. -1 \in Word
        BY <2>2 DEF Word
    <2>6. 2 + MaxVmMainArgs \in Nat /\ EntryFrame = 4 * (2 + MaxVmMainArgs)
        BY <2>1 DEF EntryFrame
    <2> HIDE DEF words
    <2>7. QED BY <2>4, <2>5, <2>6
<1> HIDE DEF words
<1>6. \A i \in 1 .. n : acts[i].at # "code"
    <2> SUFFICES ASSUME NEW i \in 1 .. n PROVE acts[i].at # "code"
        OBVIOUS
    <2>1. acts # << >>
        BY <1>3, EmptySeq
    <2>2. Len(acts) >= 1 /\ Act = acts[Len(acts)]
        BY <2>1, ActTyped
    <2>3. CASE i = n
        BY <2>1, <2>2, <2>3
    <2>4. CASE i # n
        <3>1. acts[i].at = "nested"
            BY <1>3, <2>4 DEF TypeInv, ActsOK
        <3>2. QED BY <3>1
    <2>5. QED BY <2>3, <2>4
<1>7. /\ acts' \in Seq(ActivationType) /\ Len(acts') = n + 1
      /\ \A i \in 1 .. n : acts'[i] = callers[i]
      /\ acts'[n + 1] = new
    BY <1>2, AppendProperties
<1>8. /\ programStack <= StackTop /\ programStack % 4 = 0 /\ AboveFloor(programStack)
       /\ \A i \in 1 .. n : programStack <= acts[i].programStack - 4
    <2>1. ASSUME NEW i \in 1 .. n PROVE programStack <= acts[i].programStack - 4
        <3>1. acts # << >> /\ Len(acts) >= 1 /\ Act = acts[Len(acts)]
            <4>1. acts # << >>
                BY <1>3, EmptySeq
            <4>2. QED BY <4>1, ActTyped
        <3>2. programStack <= Act.stackOnEntry /\ programStack <= Act.programStack - 4
            BY <3>1 DEF StackInv
        <3>3. CASE i = Len(acts)
            BY <3>1, <3>2, <3>3
        <3>4. CASE i # Len(acts)
            <4>1. Act.stackOnEntry <= acts[i].programStack - 4
                BY <1>3, <3>1, <3>4 DEF StackInv, Nested
            <4>2. acts[i].programStack \in Int /\ Act.stackOnEntry \in Int
                <5>1. acts[i] \in ActivationType
                    BY ElementOfSeq DEF TypeInv, ActsOK
                <5>2. acts[i].programStack \in Int
                    BY <5>1 DEF ActivationType
                <5>3. QED BY <3>1, <5>2, ActStack
            <4>3. QED BY <1>4, <3>2, <4>1, <4>2
        <3>5. QED BY <3>3, <3>4
    <2>2. QED BY <2>1 DEF StackInv
<1>9. \A i \in 1 .. n : \A f \in acts[i].frames : WordAt(mem', f.at) = f.pc
    <2>1. Kept(mem')
        <3>1. Differs(mem', ps, 4 * (2 + MaxVmMainArgs))
            BY <1>1, <1>4, <1>5, PutWordsDiffers
        <3>2. Apart(ps, EntryFrame)
            <4> SUFFICES ASSUME NEW j \in 1 .. n, NEW f \in acts[j].frames
                         PROVE  ps + EntryFrame <= f.at \/ f.at + 4 <= ps
                BY DEF Apart
            <4>1. f.at \in Int /\ acts[j].programStack \in Int
                BY FrameTyped DEF ActivationType
            <4>2. acts[j].programStack <= f.at
                BY DEF StackInv, FramesOK
            <4>3. programStack <= acts[j].programStack - 4
                BY <1>8
            <4> HIDE DEF ps
            <4>4. QED BY <1>4, <4>1, <4>2, <4>3
        <3> HIDE DEF ps
        <3>3. EntryFrame \in Int
            BY StackLayout
        <3>4. QED BY <1>4, <1>5, <3>1, <3>2, <3>3, ApartKept
    <2>2. QED BY <2>1 DEF Kept
<1>10. WordAt(mem', ps) = -1 /\ InImage(ps, 4)
    <2>1. InImage(ps, 4)
        BY <1>1, <1>4, StackLayout DEF InImage
    <2> HIDE DEF ps
    <2>2. 2 + MaxVmMainArgs >= 1
        BY InterpreterAssumption
    <2>3. WordAt(PutWords(mem, ps, 2 + MaxVmMainArgs, words), ps) = words[0]
        BY <1>4, <1>5, <2>1, <2>2, FirstWordStored
    <2>4. QED BY <1>1, <1>5, <2>1, <2>3
<1> HIDE DEF ps
<1>11. FramesOK(new)
    <2>1. ps = programStack - EntryFrame
        BY DEF ps
    <2>2. QED BY <1>1, <1>2, <1>4, <1>8, <2>1, NewOK
<1>12. ASSUME NEW i \in 1 .. n + 1
       PROVE  FramesOK(acts'[i]) /\ AboveFloor(acts'[i].stackOnEntry)
    <2>1. CASE i = n + 1
        BY <1>2, <1>7, <1>8, <1>11, <2>1
    <2>2. CASE i # n + 1
        <3>1. i \in 1 .. n
            BY <1>3, <2>2
        <3>2. FramesOK(acts[i]) /\ AboveFloor(acts[i].stackOnEntry)
            BY <3>1 DEF StackInv
        <3>3. QED BY <1>2, <1>6, <1>7, <3>1, <3>2 DEF FramesOK, Base
    <2>3. QED BY <2>1, <2>2
<1>13. Nested'
    <2> SUFFICES ASSUME NEW j \in 1 .. n + 1, NEW k \in 1 .. n + 1, j < k
                 PROVE  acts'[k].stackOnEntry <= acts'[j].programStack - 4
        BY <1>7 DEF Nested
    <2>1. j \in 1 .. n
        BY <1>3
    <2>2. CASE k = n + 1
        BY <1>2, <1>7, <1>8, <2>1, <2>2
    <2>3. CASE k # n + 1
        <3>1. k \in 1 .. n
            BY <1>3, <2>3
        <3>2. QED BY <1>2, <1>7, <2>1, <3>1 DEF StackInv, Nested
    <2>4. QED BY <2>2, <2>3
<1>14. FramesIntact'
    <2> SUFFICES ASSUME NEW j \in 1 .. n + 1, NEW f \in acts'[j].frames
                 PROVE  InImage(f.at, 4) /\ WordAt(mem', f.at) = f.pc
        BY <1>7 DEF FramesIntact
    <2>1. CASE j = n + 1
        BY <1>2, <1>7, <1>10, <2>1
    <2>2. CASE j # n + 1
        <3>1. j \in 1 .. n
            BY <1>3, <2>2
        <3>2. QED BY <1>2, <1>7, <1>9, <3>1 DEF StackInv, FramesIntact
    <2>3. QED BY <2>1, <2>2
<1>15. Act' = new /\ acts' # << >>
    BY <1>3, <1>7, LastFacts, EmptySeq DEF Act
<1>16. \A i \in 1 .. Len(acts') : FramesOK(acts[i])' /\ AboveFloor(acts[i].stackOnEntry)'
    BY <1>7, <1>12 DEF FramesOK, Base, AboveFloor
<1>17. /\ programStack' <= StackTop /\ programStack' % 4 = 0 /\ AboveFloor(programStack)'
       /\ programStack' <= Act'.stackOnEntry /\ Act'.at = "code"
    BY <1>1, <1>2, <1>4, <1>8, <1>15 DEF AboveFloor
<1>18. QED BY <1>13, <1>14, <1>16, <1>17 DEF StackInv

LEMMA Beginning ==
    ASSUME TypeInv, HostCall \/ HostRecursive
    PROVE  /\ acts # << >> => Act.at = "handler"
           /\ calls' \in 0 .. MaxCalls
           /\ \E args \in [0 .. MaxVmMainArgs - 1 -> Word] : BeginCall(args)
<1>1. CASE HostCall
    <2>1. PICK args \in HostArgs : BeginCall(args)
        BY <1>1 DEF HostCall
    <2>2. args \in [0 .. MaxVmMainArgs - 1 -> Word]
        BY InterpreterAssumption
    <2>3. acts = << >> /\ calls' \in 0 .. MaxCalls
        BY <1>1, InterpreterAssumption DEF HostCall, TypeInv, TypeOK
    <2>4. QED BY <2>1, <2>2, <2>3
<1>2. CASE HostRecursive
    <2> DEFINE Args(rest) ==
            [i \in 0 .. MaxVmMainArgs - 1 |->
                CASE i = 0 -> 1 [] i = 1 -> Act.args[1] [] OTHER -> rest[i]]
    <2>1. PICK rest \in HostArgs : BeginCall(Args(rest))
        BY <1>2 DEF HostRecursive
    <2>2. Args(rest) \in [0 .. MaxVmMainArgs - 1 -> Word]
        <3>1. rest \in [0 .. MaxVmMainArgs - 1 -> Word]
            BY InterpreterAssumption
        <3>2. Act.args[1] \in Word
            BY <1>2, HandlingTyped DEF HostRecursive
        <3>3. PICK h \in Nat : W = 2 * h /\ W \div 2 = h /\ h >= 8
            BY WordSize
        <3>4. 1 \in Word
            BY <3>3 DEF Word
        <3>5. QED BY <3>1, <3>2, <3>4
    <2>3. Act.at = "handler" /\ calls' \in 0 .. MaxCalls
        BY <1>2 DEF HostRecursive, Handling, TypeInv, TypeOK
    <2> HIDE DEF Args
    <2>4. QED BY <2>1, <2>2, <2>3
<1>3. QED BY <1>1, <1>2

LEMMA HostCallStack ==
    ASSUME TypeInv, StackInv, HostCall \/ HostRecursive
    PROVE  StackInv'
    BY Beginning, BeginStack

LEMMA HandlersStack ==
    ASSUME TypeInv, StackInv, WritesApart,
           HostPrint \/ HostUnknown \/ HostMemset \/ HostMemcpy \/ HostRecursive
                     \/ HostCall
    PROVE  StackInv'
<1>1. CASE HostPrint
    <2>1. PICK value \in Unspecified : HandlerReturns(value)
        BY <1>1 DEF HostPrint
    <2>2. Handling /\ UNCHANGED programStack /\ UNCHANGED mem
        BY <1>1 DEF HostPrint, HostQuiet, vm
    <2>3. Kept(mem')
        BY <2>2, KeptNow
    <2>4. QED BY <2>1, <2>2, <2>3, UnspecifiedWords, HandlerReturnsStack
<1>2. CASE HostUnknown
    <2>1. /\ Handling /\ UNCHANGED programStack /\ UNCHANGED mem /\ HandlerReturns(0)
        BY <1>2 DEF HostUnknown, HostQuiet, vm
    <2>2. Kept(mem')
        BY <2>1, KeptNow
    <2>3. QED BY <2>1, <2>2, SmallWords, HandlerReturnsStack
<1>3. CASE HostMemset \/ HostMemcpy
    BY <1>3, HostMemStack
<1>4. CASE HostRecursive \/ HostCall
    BY <1>4, HostCallStack
<1>5. QED BY <1>1, <1>2, <1>3, <1>4

-----------------------------------------------------------------------------

LEMMA SameStack ==
    ASSUME StackInv, UNCHANGED << mem, vm, acts >>
    PROVE  StackInv'
<1>1. UNCHANGED << mem, programStack, acts >>
    BY DEF vm
<1>2. Act' = Act
    BY <1>1 DEF Act
<1>3. \A j \in 1 .. Len(acts') : FramesOK(acts[j])' /\ AboveFloor(acts[j].stackOnEntry)'
    BY <1>1 DEF StackInv, FramesOK, Base, AboveFloor
<1>4. Nested' /\ FramesIntact'
    BY <1>1 DEF StackInv, Nested, FramesIntact
<1>5. QED BY <1>1, <1>2, <1>3, <1>4 DEF StackInv, AboveFloor

LEMMA StopStack ==
    ASSUME TypeInv, StackInv, FetchError \/ OutsideCode \/ Undef \/ Trap
                              \/ BelowOrBeyond \/ HostWild
    PROVE  StackInv'
<1>1. CASE FetchError
    <2>1. PICK level \in FetchErrors : ErrorReturn(level)
        BY <1>1 DEF FetchError
    <2>2. acts # << >> /\ UNCHANGED mem
        BY <1>1 DEF FetchError, Running
    <2>3. QED BY <2>1, <2>2, PlainErrorStack
<1>2. CASE Undef
    <2>1. acts # << >> /\ UNCHANGED mem /\ ErrorReturn(VM_BAD_INSTRUCTION)
        BY <1>2, Executing DEF Undef
    <2>2. QED BY <2>1, PlainErrorStack
<1>3. CASE OutsideCode \/ Trap \/ BelowOrBeyond \/ HostWild
    BY <1>3, SameStack DEF OutsideCode, Trap, BelowOrBeyond, HostWild, GoWild
<1>4. QED BY <1>1, <1>2, <1>3

LEMMA StackInit == Init => StackInv
<1> SUFFICES ASSUME Init PROVE StackInv
    OBVIOUS
<1>1. acts = << >> /\ Len(acts) = 0 /\ programStack = StackTop
    BY EmptySeq DEF Init
<1>2. 1 .. Len(acts) = {}
    BY <1>1
<1>3. StackTop % 4 = 0 /\ StackTop + 4 > StackBottom /\ StackTop <= StackTop
    BY StackLayout
<1>4. QED BY <1>1, <1>2, <1>3 DEF StackInv, Nested, FramesIntact, AboveFloor

LEMMA StackNext ==
    ASSUME TypeInv, StackInv, Disciplined, [Next]_vars
    PROVE  StackInv'
<1>1. EntersAndLeaves /\ WritesApart
    BY DEF Disciplined
<1>2. CASE Instructions
    BY <1>1, <1>2, QuietStack, WriteStack, EnterStack, LeaveStack,
       DoneStack, CallFunctionStack, SystemCallStack, StopStack DEF Instructions
<1>3. CASE Handlers \/ HostCall
    BY <1>1, <1>3, HandlersStack, StopStack DEF Handlers
<1>4. CASE SystemReturn
    BY <1>4, SystemReturnStack
<1>5. CASE UNCHANGED vars
    BY <1>5, SameStack DEF vars
<1>6. QED BY <1>2, <1>3, <1>4, <1>5 DEF Next, Machine

LEMMA StackInvariance == Spec /\ []Disciplined => []StackInv
<1>1. TypeInv /\ StackInv /\ Disciplined /\ [Next]_vars => StackInv'
    BY StackNext
<1>2. QED BY <1>1, StackInit, TypeInvariance, PTL DEF Spec

(* The return addresses of all open calls, of every activation of VM_Call   *)
(* and at any depth, stay where OP_CALL and VM_Call stored them and what    *)
(* they were: for every program that keeps the discipline, every host, and  *)
(* both builds.                                                             *)
THEOREM ReturnAddressesKept == Spec /\ []Disciplined => []FramesIntact
<1>1. StackInv => FramesIntact
    BY DEF StackInv
<1>2. QED BY <1>1, StackInvariance, PTL

-----------------------------------------------------------------------------
(* The program counters.                                                    *)

LEMMA StartsTyped ==
    ASSUME TypeInv
    PROVE  /\ Starts \subseteq Nat
           /\ \A n : IsInstruction(n) => instructionPointers[n] \in Starts
    BY ProgramTyped DEF Starts, IsInstruction

(* What a whole instruction leads to.                                       *)
LEMMA InstructionHere ==
    ASSUME TypeInv, CodeInv, WellFormed, NEW op, Executes(op)
    PROVE  /\ FallsThrough(op) => Act.programCounter + Ints(op) \in Starts
           /\ op \in Branches => R2 \in Starts
<1> DEFINE pc == Act.programCounter
<1>1. Act.at = "code" /\ acts # << >>
    BY DEF Executes, Running
<1>2. pc \in Starts
    BY <1>1, ActTyped DEF CodeInv
<1>3. Opcode = op
    BY DEF Executes
<1>4. Opcode = Name(IF DebugVm THEN codeBase[pc] ELSE codeBase[pc] % 64)
    BY DEF Opcode
<1>5. R2 = codeBase[pc + 1]
    BY DEF R2
<1> HIDE DEF pc
<1>6. /\ FallsThrough(op) => pc + (IF HasOperand(op) THEN 2 ELSE 1) \in Starts
      /\ op \in Branches => codeBase[pc + 1] \in Starts
    BY <1>2, <1>3, <1>4 DEF WellFormed, Starts
<1>7. QED BY <1>5, <1>6 DEF Ints, pc

(* The innermost activation goes on as a.                                   *)
LEMMA ContinueCode ==
    ASSUME TypeInv, CodeInv, acts # << >>, NEW a \in ActivationType, Continue(a),
           UNCHANGED program,
           a.at = "code" => a.programCounter \in Starts,
           \A f \in a.frames : f.pc # -1 => f.pc \in Starts
    PROVE  CodeInv'
<1>1. /\ Len(acts') = Len(acts)
      /\ \A i \in 1 .. Len(acts) - 1 : acts'[i] = acts[i]
      /\ acts'[Len(acts)] = a
    BY ReplaceLastFacts DEF Continue, TypeInv, ActsOK
<1>2. Len(acts) \in Nat /\ Len(acts) >= 1
    BY ActTyped
<1>3. Starts' = Starts
    BY DEF Starts, instructionPointers
<1>4. ASSUME NEW j \in 1 .. Len(acts)
      PROVE  /\ acts'[j].at = "code" => acts'[j].programCounter \in Starts
             /\ \A f \in acts'[j].frames : f.pc # -1 => f.pc \in Starts
    <2>1. CASE j = Len(acts)
        BY <1>1, <2>1
    <2>2. CASE j # Len(acts)
        BY <1>1, <1>2, <2>2 DEF CodeInv
    <2>3. QED BY <2>1, <2>2
<1>5. QED BY <1>1, <1>3, <1>4 DEF CodeInv

LEMMA GoingCode ==
    ASSUME TypeInv, CodeInv, acts # << >>, NEW pc \in Starts, NEW a \in Going(pc),
           Continue(a), UNCHANGED program
    PROVE  CodeInv'
<1>1. /\ a \in ActivationType /\ a.at = "code" /\ a.frames = Act.frames
      /\ a.programCounter = pc
    BY DEF Going, CodeAct, SameFrames
<1>2. Len(acts) >= 1 /\ Len(acts) \in Nat /\ Act = acts[Len(acts)]
    BY ActTyped
<1>3. \A f \in a.frames : f.pc # -1 => f.pc \in Starts
    BY <1>1, <1>2 DEF CodeInv
<1>4. QED BY <1>1, <1>3, ContinueCode

LEMMA HandBackCode ==
    ASSUME TypeInv, CodeInv, acts # << >>, NEW how, NEW value \in Word,
           HandBack(how, value), UNCHANGED program
    PROVE  CodeInv'
<1> DEFINE callers == Front(acts)
           n == Len(callers)
           b == [callers[n] EXCEPT !.at = "handled", !.result = value]
<1>1. Len(acts) \in Nat /\ Len(acts) >= 1
    BY ActTyped
<1>2. /\ callers \in Seq(ActivationType) /\ n = Len(acts) - 1
      /\ \A j \in 1 .. n : callers[j] = acts[j]
    BY <1>1, FrontFacts DEF TypeInv, ActsOK
<1>3. Starts' = Starts
    BY DEF Starts, instructionPointers
<1>4. CASE callers = << >>
    <2>1. 1 .. Len(acts') = {}
        BY <1>4, EmptySeq DEF HandBack
    <2>2. QED BY <2>1 DEF CodeInv
<1>5. CASE callers # << >>
    <2>1. n \in Nat /\ n >= 1
        BY <1>1, <1>2, <1>5, EmptySeq
    <2>2. callers[n] \in ActivationType
        BY <1>2, <2>1, ElementOfSeq
    <2>3. acts' = [callers EXCEPT ![n] = b]
        BY <1>5 DEF HandBack
    <2>4. /\ b \in ActivationType /\ b.at = "handled" /\ b.frames = callers[n].frames
        BY <2>2 DEF ActivationType
    <2> HIDE DEF b
    <2>5. /\ Len(acts') = n
          /\ \A i \in 1 .. n - 1 : acts'[i] = callers[i]
          /\ acts'[n] = b
        BY <1>2, <1>5, <2>3, <2>4, ReplaceLastFacts
    <2>6. ASSUME NEW j \in 1 .. n
          PROVE  /\ acts'[j].at = "code" => acts'[j].programCounter \in Starts
                 /\ \A f \in acts'[j].frames : f.pc # -1 => f.pc \in Starts
        <3>1. j \in 1 .. Len(acts)
            BY <1>1, <1>2
        <3>2. CASE j = n
            BY <1>2, <2>1, <2>4, <2>5, <3>1, <3>2 DEF CodeInv
        <3>3. CASE j # n
            BY <1>2, <2>1, <2>5, <3>1, <3>3 DEF CodeInv
        <3>4. QED BY <3>2, <3>3
    <2> HIDE DEF n
    <2>7. QED BY <1>3, <2>5, <2>6 DEF CodeInv
<1>6. QED BY <1>4, <1>5

LEMMA ErrorCode ==
    ASSUME TypeInv, CodeInv, acts # << >>, NEW level, ErrorReturn(level)
    PROVE  CodeInv'
<1>1. -1 \in Word
    <2>1. PICK h \in Nat : W = 2 * h /\ W \div 2 = h /\ h > 0
        BY WordSize
    <2>2. QED BY <2>1 DEF Word
<1>2. QED BY <1>1, HandBackCode DEF ErrorReturn

LEMMA QuietToCode ==
    ASSUME TypeInv, CodeInv, NEW pc \in Starts, NEW a \in Going(pc), QuietTo(a)
    PROVE  CodeInv'
    BY GoingCode DEF QuietTo, Quiet

LEMMA QuietCode ==
    ASSUME TypeInv, CodeInv, WellFormed,
           Nop \/ Const \/ Local \/ Push \/ Pop \/ UnaryOp \/ BinaryOp \/ Branch
           \/ Jump \/ LoadOp \/ StoreOp \/ Arg \/ BlockCopy
    PROVE  CodeInv'
<1>1. CASE Jump
    BY <1>1, JumpShape, StartsTyped, ErrorCode, QuietToCode
<1>2. CASE LoadOp
    <2>1. PICK op \in Loads :
               /\ Executes(op)
               /\ \/ ErrorReturn(VM_OP_LOAD4_MISALIGNED) /\ UNCHANGED mem
                  \/ \E a \in Going(Act.programCounter + 1) : QuietTo(a)
        BY <1>2, LoadShape
    <2>2. Act.programCounter + 1 \in Starts
        BY <2>1, InstructionHere, Operands DEF Ints
    <2>3. QED BY <2>1, <2>2, ActGoing, ErrorCode, QuietToCode
<1>3. CASE Branch
    <2>1. PICK op \in Branches :
               /\ Executes(op)
               /\ \E a \in Going(Act.programCounter + 2) \cup Going(R2) : QuietTo(a)
        BY <1>3, BranchShape
    <2>2. Act.programCounter + 2 \in Starts /\ R2 \in Starts
        BY <2>1, InstructionHere, Operands DEF Ints
    <2>3. QED BY <2>1, <2>2, QuietToCode
<1>4. CASE Nop \/ Const \/ Local \/ Push \/ Pop \/ UnaryOp \/ BinaryOp
    BY <1>4, QuietShape, InstructionHere, QuietToCode
<1>5. CASE StoreOp \/ Arg \/ BlockCopy
    BY <1>5, WriteShape, InstructionHere, ActGoing, GoingCode
<1>6. QED BY <1>1, <1>2, <1>3, <1>4, <1>5

LEMMA OwnCode ==
    ASSUME TypeInv, CodeInv, acts # << >>
    PROVE  /\ Act.at = "code" => Act.programCounter \in Starts
           /\ \A f \in Act.frames : f.pc # -1 => f.pc \in Starts
    BY ActTyped DEF CodeInv

LEMMA EnterCode ==
    ASSUME TypeInv, StackInv, CodeInv, WellFormed, EntersAndLeaves, Enter
    PROVE  CodeInv'
<1>1. Executes("OP_ENTER") /\ acts # << >> /\ UNCHANGED program
    BY EnterShape
<1>2. PICK a \in CodeAct :
          /\ Continue(a) /\ a.frames = Act.frames
          /\ a.programCounter = Act.programCounter + 2
    BY EnterShape
<1>3. Act.programCounter + 2 \in Starts
    BY <1>1, InstructionHere, Operands DEF Ints
<1>4. QED BY <1>1, <1>2, <1>3, OwnCode, ContinueCode DEF CodeAct

LEMMA LeaveCode ==
    ASSUME TypeInv, StackInv, CodeInv, EntersAndLeaves, Leave
    PROVE  CodeInv'
<1> DEFINE ps == Act.programStack + R2
<1>1. /\ Executes("OP_LEAVE") /\ acts # << >> /\ WordAt(mem, ps) # -1
    BY LeaveShape
<1>2. PICK f \in Act.frames : f.pc = WordAt(mem, ps)
    BY <1>1, LeaveFacts
<1>3. WordAt(mem, ps) \in Starts
    BY <1>1, <1>2, OwnCode
<1>4. CASE ErrorReturn(VM_PC_OUT_OF_RANGE) /\ UNCHANGED mem
    BY <1>1, <1>4, ErrorCode
<1>5. ASSUME NEW a \in CodeAct, QuietTo(a), a.frames = Unwound(Act.frames, ps),
             a.programCounter = WordAt(mem, ps)
      PROVE  CodeInv'
    <2> HIDE DEF ps
    <2>1. \A x \in a.frames : x \in Act.frames
        BY <1>5 DEF Unwound
    <2>2. UNCHANGED program /\ Continue(a)
        BY <1>5 DEF QuietTo, Quiet
    <2>3. QED BY <1>1, <1>3, <1>5, <2>1, <2>2, OwnCode, ContinueCode DEF CodeAct
<1>6. QED BY <1>4, <1>5, LeaveShape

LEMMA DoneCode ==
    ASSUME TypeInv, CodeInv, Done
    PROVE  CodeInv'
<1> DEFINE value == Act.opStack[Act.opStackOfs]
<1>1. acts # << >> /\ Act \in CodeAct
    BY Executing DEF Done
<1>2. value \in Word
    BY <1>1 DEF CodeAct, ActivationType
<1>3. HandBack("done", value) /\ UNCHANGED program
    BY DEF Done
<1> HIDE DEF value
<1>4. QED BY <1>1, <1>2, <1>3, HandBackCode

(* OP_CALL returns to the next instruction.                                 *)
LEMMA CallingCode ==
    ASSUME TypeInv, CodeInv, WellFormed, Executes("OP_CALL"),
           NEW a \in ActivationType, Continue(a), Calling(a), UNCHANGED program,
           a.at = "code" => a.programCounter \in Starts
    PROVE  CodeInv'
<1>1. acts # << >>
    BY Executing
<1>2. ReturnAddress \in Starts
    BY InstructionHere, Operands DEF Ints, ReturnAddress
<1>3. ASSUME NEW f \in a.frames, f.pc # -1
      PROVE  f.pc \in Starts
    <2>1. f \in Act.frames \/ f.pc = ReturnAddress
        BY <1>3 DEF Calling, NewFrame
    <2>2. QED BY <1>1, <1>2, <1>3, <2>1, OwnCode
<1>4. QED BY <1>1, <1>3, ContinueCode

LEMMA CallCode ==
    ASSUME TypeInv, CodeInv, WellFormed, CallFunction \/ SystemCall
    PROVE  CodeInv'
<1>1. CASE CallFunction
    <2>1. Executes("OP_CALL") /\ acts # << >>
        BY <1>1, CallFunctionShape
    <2>2. CASE ErrorReturn(VM_PC_OUT_OF_RANGE)
        BY <2>1, <2>2, ErrorCode
    <2>3. ASSUME IsInstruction(R0), UNCHANGED program, NEW a \in CodeAct,
                 Continue(a), Calling(a), a.programCounter = instructionPointers[R0]
          PROVE  CodeInv'
        <3>1. a.programCounter \in Starts
            BY <2>3, StartsTyped
        <3>2. QED BY <2>1, <2>3, <3>1, CallingCode DEF CodeAct
    <2>4. QED BY <1>1, <2>2, <2>3, CallFunctionShape
<1>2. CASE SystemCall
    <2>1. Executes("OP_CALL") /\ UNCHANGED program
        BY <1>2, SystemCallShape
    <2>2. PICK a \in ActivationType : Continue(a) /\ Calling(a) /\ a.at = "handler"
        BY <1>2, SystemCallShape
    <2>3. QED BY <2>1, <2>2, CallingCode
<1>3. QED BY <1>1, <1>2

LEMMA SystemReturnCode ==
    ASSUME TypeInv, StackInv, CodeInv, SystemReturn
    PROVE  CodeInv'
<1>1. acts # << >> /\ Act.at = "handled" /\ UNCHANGED program
    BY SystemReturnShape
<1>2. PICK a \in CodeAct : /\ Continue(a)
                           /\ a.frames = Unwound(Act.frames, Act.programStack)
                           /\ a.programCounter = WordAt(mem', Act.programStack)
    BY SystemReturnShape
<1>3. /\ FramesOK(Act) /\ Len(acts) \in Nat /\ Len(acts) >= 1 /\ Act = acts[Len(acts)]
    BY <1>1, ActStack
<1>4. PICK f \in Act.frames : f.at = Act.programStack
    BY <1>1, <1>3 DEF FramesOK
<1>5. f.pc # -1
    BY <1>1, <1>3, <1>4 DEF FramesOK
<1>6. WordAt(mem', Act.programStack) = f.pc
    BY <1>3, <1>4, RestoredKept DEF Kept
<1>7. a.programCounter \in Starts
    BY <1>1, <1>2, <1>5, <1>6, OwnCode
<1>8. \A x \in a.frames : x \in Act.frames
    BY <1>2 DEF Unwound
<1>9. QED BY <1>1, <1>2, <1>7, <1>8, OwnCode, ContinueCode DEF CodeAct

LEMMA HandlerReturnsCode ==
    ASSUME TypeInv, CodeInv, Handling, NEW value \in Word, HandlerReturns(value),
           UNCHANGED program
    PROVE  CodeInv'
<1>1. acts # << >>
    BY DEF Handling
<1>2. PICK a \in ActivationType :
          Continue(a) /\ a.at = "handled" /\ a.frames = Act.frames
    BY HandlerShape
<1>3. QED BY <1>1, <1>2, OwnCode, ContinueCode

LEMMA BeginCode ==
    ASSUME TypeInv, CodeInv, WellFormed, acts # << >> => Act.at = "handler",
           NEW args \in [0 .. MaxVmMainArgs - 1 -> Word], BeginCall(args),
           calls' \in 0 .. MaxCalls
    PROVE  CodeInv'
<1>1. PICK callers \in Seq(ActivationType), new \in ActivationType :
          /\ Len(callers) = Len(acts)
          /\ \A i \in 1 .. Len(acts) :
                callers[i].at = "nested" /\ callers[i].frames = acts[i].frames
          /\ acts' = Append(callers, new) /\ new.at = "code"
          /\ new.programCounter = 0
          /\ new.frames = {[at |-> programStack - EntryFrame, pc |-> -1]}
    BY BeginShape
<1>2. Len(acts) \in Nat
    BY LenProperties DEF TypeInv, ActsOK
<1>3. /\ Len(acts') = Len(acts) + 1
      /\ \A i \in 1 .. Len(acts) : acts'[i] = callers[i]
      /\ acts'[Len(acts) + 1] = new
    BY <1>1, <1>2
<1>4. Starts' = Starts
    BY DEF BeginCall, Starts, instructionPointers
<1>5. new.programCounter \in Starts
    BY <1>1 DEF WellFormed, Starts
<1>6. \A f \in new.frames : f.pc = -1
    BY <1>1
<1>7. ASSUME NEW j \in 1 .. Len(acts) + 1
      PROVE  /\ acts'[j].at = "code" => acts'[j].programCounter \in Starts
             /\ \A f \in acts'[j].frames : f.pc # -1 => f.pc \in Starts
    <2>1. CASE j = Len(acts) + 1
        BY <1>3, <1>5, <1>6, <2>1
    <2>2. CASE j # Len(acts) + 1
        <3>1. j \in 1 .. Len(acts)
            BY <1>2, <2>2
        <3>2. acts'[j].at = "nested" /\ acts'[j].frames = acts[j].frames
            BY <1>1, <1>3, <3>1
        <3>3. QED BY <3>1, <3>2 DEF CodeInv
    <2>3. QED BY <2>1, <2>2
<1>8. QED BY <1>3, <1>4, <1>7 DEF CodeInv

LEMMA HandlersCode ==
    ASSUME TypeInv, CodeInv, WellFormed,
           HostPrint \/ HostUnknown \/ HostMemset \/ HostMemcpy \/ HostRecursive
                     \/ HostCall
    PROVE  CodeInv'
<1>1. CASE HostPrint
    <2>1. PICK value \in Unspecified : HandlerReturns(value)
        BY <1>1 DEF HostPrint
    <2>2. Handling /\ UNCHANGED program
        BY <1>1 DEF HostPrint, HostQuiet
    <2>3. QED BY <2>1, <2>2, UnspecifiedWords, HandlerReturnsCode
<1>2. CASE HostUnknown
    <2>1. Handling /\ UNCHANGED program /\ HandlerReturns(0)
        BY <1>2 DEF HostUnknown, HostQuiet
    <2>2. QED BY <2>1, SmallWords, HandlerReturnsCode
<1>3. CASE HostMemset \/ HostMemcpy
    <2>1. Handling /\ UNCHANGED program /\ HandlerReturns(Act.args[1])
        BY <1>3 DEF HostMemset, HostMemcpy, HostQuiet
    <2>2. Act.args[1] \in Word
        BY <2>1, HandlingTyped
    <2>3. QED BY <2>1, <2>2, HandlerReturnsCode
<1>4. CASE HostRecursive \/ HostCall
    BY <1>4, Beginning, BeginCode
<1>5. QED BY <1>1, <1>2, <1>3, <1>4

LEMMA SameCode ==
    ASSUME CodeInv, UNCHANGED << program, acts >>
    PROVE  CodeInv'
    BY DEF CodeInv, Starts, instructionPointers

LEMMA StopCode ==
    ASSUME TypeInv, CodeInv, FetchError \/ OutsideCode \/ Undef \/ Trap
                             \/ BelowOrBeyond \/ HostWild
    PROVE  CodeInv'
<1>1. CASE FetchError
    <2>1. PICK level \in FetchErrors : ErrorReturn(level)
        BY <1>1 DEF FetchError
    <2>2. acts # << >>
        BY <1>1 DEF FetchError, Running
    <2>3. QED BY <2>1, <2>2, ErrorCode
<1>2. CASE Undef
    <2>1. acts # << >> /\ ErrorReturn(VM_BAD_INSTRUCTION)
        BY <1>2, Executing DEF Undef
    <2>2. QED BY <2>1, ErrorCode
<1>3. CASE OutsideCode \/ Trap \/ BelowOrBeyond \/ HostWild
    BY <1>3, SameCode DEF OutsideCode, Trap, BelowOrBeyond, HostWild, GoWild
<1>4. QED BY <1>1, <1>2, <1>3

LEMMA CodeInit == Init => CodeInv
<1> SUFFICES ASSUME Init PROVE CodeInv
    OBVIOUS
<1>1. 1 .. Len(acts) = {}
    BY EmptySeq DEF Init
<1>2. QED BY <1>1 DEF CodeInv

LEMMA CodeNext ==
    ASSUME TypeInv, StackInv, CodeInv, Disciplined, [Next]_vars
    PROVE  CodeInv'
<1>1. WellFormed /\ EntersAndLeaves
    BY DEF Disciplined
<1>2. CASE Instructions
    BY <1>1, <1>2, QuietCode, EnterCode, LeaveCode, DoneCode, CallCode, StopCode
       DEF Instructions
<1>3. CASE Handlers \/ HostCall
    BY <1>1, <1>3, HandlersCode, StopCode DEF Handlers
<1>4. CASE SystemReturn
    BY <1>4, SystemReturnCode
<1>5. CASE UNCHANGED vars
    BY <1>5, SameCode DEF vars
<1>6. QED BY <1>2, <1>3, <1>4, <1>5 DEF Next, Machine

LEMMA CodeInvariance == Spec /\ []Disciplined => []CodeInv
<1>1. TypeInv /\ StackInv /\ CodeInv /\ Disciplined /\ [Next]_vars => CodeInv'
    BY CodeNext
<1>2. QED BY <1>1, CodeInit, StackInvariance, TypeInvariance, PTL DEF Spec

(* A program that runs is always at the start of an instruction, after      *)
(* every branch, jump, call, system call and return, in every activation:   *)
(* OP_LEAVE and the return from a system call read where to go from the     *)
(* data image, and find what OP_CALL stored there.                          *)
THEOREM RunsInstructions == Spec /\ []Disciplined => []AtInstruction
<1>1. CodeInv => AtInstruction
    <2> SUFFICES ASSUME CodeInv, NEW i \in 1 .. Len(acts), acts[i].at = "code"
                 PROVE  \E k \in DOMAIN instructionPointers :
                            acts[i].programCounter = instructionPointers[k]
        BY DEF AtInstruction
    <2>1. QED BY DEF CodeInv, Starts
<1>2. QED BY <1>1, CodeInvariance, PTL

-----------------------------------------------------------------------------
(* The memory that vm.c allocated.                                          *)

LEMMA InsideCode ==
    ASSUME TypeInv, CodeInv, WellFormed
    PROVE  ~ OutsideCode
<1> SUFFICES ASSUME OutsideCode PROVE FALSE
    OBVIOUS
<1> DEFINE pc == Act.programCounter
<1>1. acts # << >> /\ Act.at = "code"
    BY DEF OutsideCode, Running
<1>2. pc \in Starts /\ pc \in Nat
    BY <1>1, OwnCode, StartsTyped
<1>3. codeLength \in Nat
    BY ProgramTyped
<1>4. Opcode = Name(IF DebugVm THEN codeBase[pc] ELSE codeBase[pc] % 64)
    BY DEF Opcode
<1> HIDE DEF pc
<1>5. /\ pc < codeLength /\ pc \in DOMAIN codeBase
      /\ HasOperand(Opcode) => pc + 1 \in DOMAIN codeBase
    BY <1>2, <1>4 DEF WellFormed, Starts
<1>6. Readable /\ Written /\ (HasOperand(Opcode) => Act.programCounter + 1 \in DOMAIN codeBase)
    BY <1>2, <1>3, <1>5 DEF Readable, Written, pc
<1>7. QED BY <1>6 DEF OutsideCode

(* A DEBUG_VM build that goes on has a stack pointer in the stack.          *)
LEMMA FetchedAbove ==
    ASSUME TypeInv, DebugVm, NEW op, Executes(op)
    PROVE  Act.programStack > StackBottom /\ Act.programStack \in Int
<1>1. FetchErrors = {}
    BY DEF Executes
<1>2. ~ (Act.programStack <= StackBottom)
    BY <1>1 DEF FetchErrors
<1>3. Act.programStack \in Int
    BY Executing DEF CodeAct, ActivationType
<1>4. QED BY <1>2, <1>3, StackLayout

LEMMA CallsInside ==
    ASSUME TypeInv, StackInv, EntersAndLeaves, DebugVm, Executes("OP_CALL")
    PROVE  InImage(Act.programStack, SyscallFrame) /\ InImage(Act.programStack, 4)
<1> DEFINE ps == Act.programStack
<1>1. ps > StackBottom /\ ps \in Int
    BY FetchedAbove
<1>2. acts # << >> /\ FramesOK(Act) /\ Act.stackOnEntry \in Int
    BY Executing, ActStack
<1>3. ps + 8 <= Base(Act)
    BY RoomForFrame
<1> HIDE DEF ps
<1>4. ps + 8 <= Act.stackOnEntry - EntryFrame /\ Act.stackOnEntry <= StackTop
    BY <1>2, <1>3 DEF FramesOK, Base
<1>5. /\ MaxSyscallArgs \in Nat /\ MaxVmMainArgs \in Nat
      /\ MaxSyscallArgs <= MaxVmMainArgs + 4 /\ MaxSyscallArgs >= 4
    BY InterpreterAssumption, DisciplineAssumption
<1>6. ps >= 0 /\ ps + (4 + 4 * MaxSyscallArgs) - 1 <= DataMask + 4
    BY <1>1, <1>2, <1>4, <1>5, StackLayout DEF EntryFrame
<1>7. ps + 4 - 1 <= DataMask + 4
    BY <1>1, <1>5, <1>6, StackLayout
<1>8. QED BY <1>6, <1>7 DEF InImage, SyscallFrame, ps

LEMMA StaysWithin ==
    ASSUME TypeInv, StackInv, EntersAndLeaves, WritesApart, DebugVm
    PROVE  ~ BelowOrBeyond
<1> SUFFICES ASSUME BelowOrBeyond PROVE FALSE
    OBVIOUS
<1>1. CASE Executes("OP_BLOCK_COPY") /\ R2 < 0 /\ CopyInRange
    <2>1. R2 >= 0
        BY <1>1 DEF WritesApart
    <2>2. R2 \in Int
        BY <1>1, Executing, Operands
    <2>3. QED BY <1>1, <2>1, <2>2
<1>2. CASE /\ Executes("OP_CALL")
           /\ ~ InImage(Act.programStack, IF R0 < 0 THEN 4 + 4 * MaxSyscallArgs ELSE 4)
    BY <1>2, CallsInside DEF SyscallFrame
<1>3. CASE Executes("OP_ENTER") /\ ~ InImage(ToWord(Act.programStack - R2) + 4, 4)
    <2> DEFINE ps == Act.programStack - R2
    <2>1. /\ Act.programStack > StackBottom /\ Act.programStack \in Int
          /\ R2 \in Nat /\ R2 <= MaxFrame
          /\ ps \in Int /\ ToWord(ps) = ps /\ ps + 8 <= Act.programStack
        BY <1>3, FetchedAbove, EnterFacts
    <2>2. acts # << >> /\ FramesOK(Act) /\ Act.stackOnEntry \in Int
        BY <1>3, Executing, ActStack
    <2>3. Act.programStack <= Act.stackOnEntry - EntryFrame /\ Act.stackOnEntry <= StackTop
        BY <2>2 DEF FramesOK, Base
    <2>4. ps + 4 >= 0
        BY <2>1, StackLayout
    <2> HIDE DEF ps
    <2>5. (ps + 4) + 4 - 1 <= DataMask + 4
        BY <2>1, <2>2, <2>3, StackLayout
    <2>6. InImage(ToWord(ps) + 4, 4)
        BY <2>1, <2>4, <2>5 DEF InImage
    <2>7. QED BY <1>3, <2>6 DEF ps
<1>4. CASE Executes("OP_LEAVE") /\ ~ InImage(ToWord(Act.programStack + R2), 4)
    BY <1>4, LeaveFacts
<1>5. QED BY <1>1, <1>2, <1>3, <1>4 DEF BelowOrBeyond

(* A DEBUG_VM build always has room for the frame VM_Call pushes.           *)
LEMMA RoomToCall ==
    ASSUME TypeInv, StackInv, DebugVm
    PROVE  ~ NoRoom
<1>1. programStack \in Int /\ programStack <= StackTop /\ programStack + 4 > StackBottom
    BY DEF TypeInv, TypeOK, StackInv, AboveFloor
<1>2. /\ programStack - EntryFrame >= 0
      /\ (programStack - EntryFrame) + EntryFrame - 1 <= DataMask + 4
    BY <1>1, StackLayout
<1>3. QED BY <1>2 DEF NoRoom, InImage

LEMMA HostWithin ==
    ASSUME TypeInv, StackInv, WritesApart, DebugVm
    PROVE  ~ HostWild
<1> SUFFICES ASSUME HostWild PROVE FALSE
    OBVIOUS
<1>1. PICK n : n = Act.args[3]
    OBVIOUS
<1>2. /\ Handling /\ Number \in {2, 3} /\ n < 0
      /\ RangeValid(Act.args[1], n)
      /\ Number = 3 => RangeValid(Act.args[2], n)
    BY <1>1, RoomToCall DEF HostWild
<1>3. n >= 0
    BY <1>1, <1>2 DEF WritesApart
<1>4. n \in Int
    BY <1>1, <1>2, HandlingTyped
<1>5. QED BY <1>2, <1>3, <1>4

LEMMA ModeKept ==
    ASSUME TypeInv, StackInv, CodeInv, Disciplined, DebugVm, NeverWild, [Next]_vars
    PROVE  NeverWild'
<1>1. WellFormed /\ EntersAndLeaves /\ WritesApart
    BY DEF Disciplined
<1>2. CASE Instructions
    <2>1. CASE Trap
        BY <2>1 DEF Trap, NeverWild
    <2>2. CASE FetchError \/ Undef \/ Jump \/ LoadOp \/ Leave \/ Done \/ CallFunction
        BY <2>2 DEF FetchError, Undef, Jump, LoadOp, Leave, Done, CallFunction,
                    ErrorReturn, Quiet, NeverWild
    <2>3. CASE Nop \/ Const \/ Local \/ Push \/ Pop \/ UnaryOp \/ BinaryOp \/ Branch
        BY <2>3 DEF Nop, Const, Local, Push, Pop, UnaryOp, BinaryOp, Branch, Quiet,
                    NeverWild
    <2>4. CASE StoreOp \/ Arg \/ BlockCopy \/ Enter \/ SystemCall
        BY <2>4 DEF StoreOp, Arg, BlockCopy, Enter, SystemCall, NeverWild
    <2>5. ~ OutsideCode /\ ~ BelowOrBeyond
        BY <1>1, InsideCode, StaysWithin
    <2>6. QED BY <1>2, <2>1, <2>2, <2>3, <2>4, <2>5 DEF Instructions
<1>3. CASE Handlers
    <2>1. ~ HostWild
        BY <1>1, HostWithin
    <2>2. CASE HostPrint \/ HostUnknown \/ HostMemset \/ HostMemcpy
        BY <2>2 DEF HostPrint, HostUnknown, HostMemset, HostMemcpy, HostQuiet, NeverWild
    <2>3. CASE HostRecursive
        BY <2>3 DEF HostRecursive, BeginCall, NeverWild
    <2>4. QED BY <1>3, <2>1, <2>2, <2>3 DEF Handlers
<1>4. CASE HostCall
    BY <1>4 DEF HostCall, BeginCall, NeverWild
<1>5. CASE SystemReturn \/ UNCHANGED vars
    BY <1>5 DEF SystemReturn, vars, NeverWild
<1>6. QED BY <1>2, <1>3, <1>4, <1>5 DEF Next, Machine

(* A DEBUG_VM build never uses memory outside of what it allocated, for any *)
(* program that keeps the discipline, however deep it recurses: the stack   *)
(* is looked at when an instruction is fetched, and the accesses through it *)
(* that nothing masks stay in the image until the next look.                *)
THEOREM DebugNeverWild == Spec /\ []Disciplined => [](DebugVm => NeverWild)
<1>1. Init => NeverWild
    BY DEF Init, NeverWild
<1>2. /\ TypeInv /\ StackInv /\ CodeInv /\ Disciplined /\ [Next]_vars
      /\ (DebugVm => NeverWild)
      => (DebugVm => NeverWild)'
    BY ModeKept
<1>3. QED
    BY <1>1, <1>2, TypeInvariance, StackInvariance, CodeInvariance, PTL DEF Spec

-----------------------------------------------------------------------------
(* The refinement of CallProtocol.                                          *)

LEMMA ViewTyped ==
    ASSUME NEW s \in Seq(ActivationType)
    PROVE  /\ Len(s) \in Nat /\ ViewOf(s) \in Seq(Protocol!Activation)
           /\ Len(ViewOf(s)) = Len(s)
           /\ \A i \in 1 .. Len(s) : ViewOf(s)[i] = View(s[i])
           /\ ViewOf(s) = << >> <=> s = << >>
<1>1. Len(s) \in Nat
    BY LenProperties
<1>2. \A i \in 1 .. Len(s) : View(s[i]) \in Protocol!Activation
    <2> SUFFICES ASSUME NEW i \in 1 .. Len(s)
                 PROVE  View(s[i]) \in Protocol!Activation
        OBVIOUS
    <2>1. s[i] \in ActivationType
        BY ElementOfSeq
    <2>2. s[i].stackOnEntry \in Int /\ s[i].programStack \in Int
        BY <2>1, WordIsInt DEF ActivationType
    <2>3. QED BY <2>2 DEF View, Protocol!Activation
<1>3. ViewOf(s) \in Seq(Protocol!Activation) /\ Len(ViewOf(s)) = Len(s)
    <2>1. /\ ViewOf(s) \in [1 .. Len(s) -> Protocol!Activation]
        BY <1>2 DEF ViewOf
    <2>2. QED BY <1>1, <2>1, SeqDef, LenProperties
<1>4. \A i \in 1 .. Len(s) : ViewOf(s)[i] = View(s[i])
    BY DEF ViewOf
<1>5. ViewOf(s) = << >> <=> s = << >>
    BY <1>3, EmptySeq
<1>6. QED BY <1>1, <1>3, <1>4, <1>5

LEMMA ViewAfter == ViewOf(acts)' = ViewOf(acts')
    BY DEF ViewOf, View

LEMMA ViewLast ==
    ASSUME TypeInv, acts # << >>
    PROVE  /\ ViewOf(acts) # << >> /\ Protocol!Last(ViewOf(acts)) = View(Act)
           /\ Len(ViewOf(acts)) = Len(acts)
<1>1. acts \in Seq(ActivationType)
    BY DEF TypeInv, ActsOK
<1>2. /\ Len(acts) \in Nat /\ Len(acts) >= 1 /\ Act = acts[Len(acts)]
    BY ActTyped
<1>3. /\ Len(ViewOf(acts)) = Len(acts) /\ ViewOf(acts) # << >>
      /\ \A i \in 1 .. Len(acts) : ViewOf(acts)[i] = View(acts[i])
    BY <1>1, ViewTyped
<1>4. QED BY <1>2, <1>3 DEF Protocol!Last

(* The innermost activation goes on as a.                                   *)
LEMMA ContinueView ==
    ASSUME TypeInv, acts # << >>, NEW a \in ActivationType, Continue(a)
    PROVE  ViewOf(acts)' = [ViewOf(acts) EXCEPT ![Len(ViewOf(acts))] = View(a)]
<1>1. /\ Len(acts') = Len(acts)
      /\ \A i \in 1 .. Len(acts) - 1 : acts'[i] = acts[i]
      /\ acts'[Len(acts)] = a
    BY ReplaceLastFacts DEF Continue, TypeInv, ActsOK
<1>2. Len(acts) \in Nat /\ Len(acts) >= 1 /\ Len(ViewOf(acts)) = Len(acts)
    BY ActTyped, ViewLast
<1> DEFINE n == Len(acts)
           new == [ViewOf(acts) EXCEPT ![n] = View(a)]
<1>3. \A i \in 1 .. n : ViewOf(acts')[i] = new[i]
    <2> SUFFICES ASSUME NEW i \in 1 .. n PROVE ViewOf(acts')[i] = new[i]
        OBVIOUS
    <2>1. ViewOf(acts')[i] = View(acts'[i]) /\ ViewOf(acts)[i] = View(acts[i])
        BY <1>1 DEF ViewOf
    <2>2. CASE i = n
        <3>1. new[i] = View(a)
            BY <2>2 DEF ViewOf
        <3>2. QED BY <1>1, <2>1, <2>2, <3>1
    <2>3. CASE i # n
        <3>1. new[i] = ViewOf(acts)[i]
            BY <2>3 DEF ViewOf
        <3>2. acts'[i] = acts[i]
            BY <1>1, <1>2, <2>3
        <3>3. QED BY <2>1, <3>1, <3>2
    <2>4. QED BY <2>2, <2>3
<1>4. DOMAIN ViewOf(acts') = 1 .. n /\ DOMAIN new = 1 .. n
    BY <1>1 DEF ViewOf
<1>5. ViewOf(acts') = [i \in 1 .. n |-> ViewOf(acts')[i]]
    BY <1>1 DEF ViewOf
<1>6. new = [i \in 1 .. n |-> new[i]]
    BY DEF ViewOf
<1> HIDE DEF new
<1>7. ViewOf(acts') = new
    BY <1>3, <1>5, <1>6
<1>8. QED BY <1>2, <1>7, ViewAfter DEF new

(* What the protocol does not see of it.                                    *)
LEMMA SameView ==
    ASSUME TypeInv, acts # << >>, NEW a \in ActivationType, Continue(a),
           a.stackOnEntry = Act.stackOnEntry, a.programStack = Act.programStack,
           a.at = "code" <=> Act.at = "code"
    PROVE  ViewOf(acts)' = ViewOf(acts)
<1>1. View(a) = View(Act)
    BY DEF View
<1>2. Len(acts) \in Nat /\ Len(acts) >= 1 /\ Len(ViewOf(acts)) = Len(acts)
    BY ActTyped, ViewLast
<1>3. ViewOf(acts)[Len(acts)] = View(Act)
    BY <1>2, ViewLast DEF Protocol!Last
<1>4. ViewOf(acts)' = [ViewOf(acts) EXCEPT ![Len(acts)] = ViewOf(acts)[Len(acts)]]
    BY <1>1, <1>2, <1>3, ContinueView
<1>5. QED BY <1>4 DEF ViewOf

(* VM_CallInterpreted returns to the handler that called it, or to the host.*)
LEMMA HandBackView ==
    ASSUME TypeInv, acts # << >>, NEW how, NEW value \in Word, HandBack(how, value)
    PROVE  ViewOf(acts)' = Protocol!Front(ViewOf(acts))
<1> DEFINE callers == Front(acts)
           n == Len(callers)
           b == [callers[n] EXCEPT !.at = "handled", !.result = value]
           front == Protocol!Front(ViewOf(acts))
<1>1. Len(acts) \in Nat /\ Len(acts) >= 1 /\ Len(ViewOf(acts)) = Len(acts)
    BY ActTyped, ViewLast
<1>2. /\ callers \in Seq(ActivationType) /\ n = Len(acts) - 1
      /\ \A j \in 1 .. n : callers[j] = acts[j]
    BY <1>1, FrontFacts DEF TypeInv, ActsOK
<1>3. front = Front(ViewOf(acts))
    BY DEF Front, Protocol!Front
<1>4. /\ front \in Seq(Protocol!Activation) /\ Len(front) = n
      /\ \A j \in 1 .. n : front[j] = View(acts[j])
    <2>1. /\ ViewOf(acts) \in Seq(Protocol!Activation) /\ ViewOf(acts) # << >>
          /\ \A j \in 1 .. Len(acts) : ViewOf(acts)[j] = View(acts[j])
        BY ViewTyped, ViewLast DEF TypeInv, ActsOK
    <2>2. /\ Front(ViewOf(acts)) \in Seq(Protocol!Activation)
          /\ Len(Front(ViewOf(acts))) = Len(acts) - 1
          /\ \A j \in 1 .. Len(acts) - 1 : Front(ViewOf(acts))[j] = ViewOf(acts)[j]
        BY <1>1, <2>1, FrontFacts
    <2> HIDE DEF front, n
    <2>3. \A j \in 1 .. n : j \in 1 .. Len(acts) /\ j \in 1 .. Len(acts) - 1
        BY <1>1, <1>2
    <2>4. \A j \in 1 .. n : front[j] = View(acts[j])
        BY <1>3, <2>1, <2>2, <2>3
    <2>5. QED BY <1>2, <1>3, <2>2, <2>4
<1> HIDE DEF front
<1>5. n \in Nat
    BY <1>1, <1>2
<1>6. /\ acts' \in Seq(ActivationType) /\ Len(acts') = n
      /\ \A j \in 1 .. n : View(acts'[j]) = View(acts[j])
    <2>1. CASE callers = << >>
        <3>1. acts' = << >> /\ n = 0 /\ acts' \in Seq(ActivationType)
            BY <2>1, EmptySeq DEF HandBack
        <3>2. QED BY <3>1, EmptySeq
    <2>2. CASE callers # << >>
        <3>1. n >= 1
            BY <1>2, <1>5, <2>2, EmptySeq
        <3>2. callers[n] \in ActivationType
            BY <1>2, <1>5, <3>1, ElementOfSeq
        <3>3. acts' = [callers EXCEPT ![n] = b]
            BY <2>2 DEF HandBack
        <3>4. /\ b \in ActivationType /\ b.at = "handled"
              /\ b.stackOnEntry = callers[n].stackOnEntry
              /\ b.programStack = callers[n].programStack
            BY <3>2 DEF ActivationType
        <3> HIDE DEF b
        <3>5. /\ acts' \in Seq(ActivationType) /\ Len(acts') = n
              /\ \A i \in 1 .. n - 1 : acts'[i] = callers[i]
              /\ acts'[n] = b
            BY <1>2, <2>2, <3>3, <3>4, ReplaceLastFacts
        <3>6. acts[n].at = "nested"
            BY <1>1, <1>2, <1>5, <3>1 DEF TypeInv, ActsOK
        <3> HIDE DEF n, callers
        <3>7. ASSUME NEW j \in 1 .. n PROVE View(acts'[j]) = View(acts[j])
            <4>1. CASE j = n
                BY <1>2, <3>4, <3>5, <3>6, <4>1 DEF View
            <4>2. CASE j # n
                BY <1>2, <1>5, <3>5, <4>2
            <4>3. QED BY <4>1, <4>2
        <3>8. QED BY <3>5, <3>7
    <2>3. QED BY <2>1, <2>2
<1> HIDE DEF n
<1>9. ViewOf(acts') = front
    BY <1>4, <1>6, ViewTyped, SeqEqual
<1>10. QED BY <1>9, ViewAfter DEF front

(* VM_Call pushes an activation; that it is called from waits.              *)
LEMMA BeginView ==
    ASSUME TypeInv, acts # << >> => Act.at = "handler",
           NEW args \in [0 .. MaxVmMainArgs - 1 -> Word], BeginCall(args),
           calls' \in 0 .. MaxCalls
    PROVE  ViewOf(acts)' =
               Append(ViewOf(acts), [stackOnEntry |-> programStack,
                                     programStack |-> programStack - EntryFrame,
                                     inSyscall    |-> FALSE])
<1> DEFINE n    == Len(acts)
           pushed == [stackOnEntry |-> programStack,
                      programStack |-> programStack - EntryFrame,
                      inSyscall    |-> FALSE]
<1>1. PICK callers \in Seq(ActivationType), new \in ActivationType :
          /\ Len(callers) = n
          /\ \A i \in 1 .. n :
                /\ callers[i].at = "nested"
                /\ callers[i].stackOnEntry = acts[i].stackOnEntry
                /\ callers[i].programStack = acts[i].programStack
          /\ acts' = Append(callers, new) /\ new.at = "code"
          /\ new.stackOnEntry = programStack
          /\ new.programStack = programStack - EntryFrame
    BY BeginShape
<1>2. n \in Nat /\ acts \in Seq(ActivationType)
    BY LenProperties DEF TypeInv, ActsOK
<1>3. /\ Len(acts') = n + 1 /\ acts'[n + 1] = new
      /\ \A i \in 1 .. n : acts'[i] = callers[i]
    BY <1>1, <1>2
<1>4. \A i \in 1 .. n : acts[i].at # "code"
    <2>1. CASE acts = << >>
        BY <2>1
    <2>2. CASE acts # << >>
        BY <1>2, <2>2, ActTyped DEF TypeInv, ActsOK
    <2>3. QED BY <2>1, <2>2
<1>5. \A i \in 1 .. n : View(acts'[i]) = View(acts[i])
    BY <1>1, <1>3, <1>4 DEF View
<1>6. View(acts'[n + 1]) = pushed
    BY <1>1, <1>3 DEF View
<1> HIDE DEF pushed, n
<1>7. /\ ViewOf(acts) \in Seq(Protocol!Activation) /\ Len(ViewOf(acts)) = n
      /\ \A i \in 1 .. n : ViewOf(acts)[i] = View(acts[i])
    BY <1>2, ViewTyped DEF n
<1>8. acts' \in Seq(ActivationType)
    <2>1. new \in ActivationType
        BY <1>1
    <2>2. QED BY <1>1, AppendProperties
<1>9. /\ ViewOf(acts') \in Seq(Protocol!Activation) /\ Len(ViewOf(acts')) = n + 1
      /\ \A i \in 1 .. n + 1 : ViewOf(acts')[i] = View(acts'[i])
    BY <1>3, <1>8, ViewTyped
<1>10. pushed \in Protocol!Activation
    BY InterpreterAssumption DEF pushed, Protocol!Activation, TypeInv, TypeOK, EntryFrame
<1>11. ViewOf(acts') = Append(ViewOf(acts), pushed)
    <2> DEFINE grown == Append(ViewOf(acts), pushed)
    <2>1. /\ grown \in Seq(Protocol!Activation) /\ Len(grown) = n + 1
          /\ \A i \in 1 .. n : grown[i] = ViewOf(acts)[i]
          /\ grown[n + 1] = pushed
        BY <1>2, <1>7, <1>10, AppendProperties
    <2> HIDE DEF grown
    <2>2. \A i \in 1 .. n + 1 : ViewOf(acts')[i] = grown[i]
        <3>1. ViewOf(acts')[n + 1] = grown[n + 1]
            BY <1>2, <1>6, <1>9, <2>1
        <3>2. \A i \in 1 .. n : ViewOf(acts')[i] = grown[i]
            BY <1>2, <1>5, <1>7, <1>9, <2>1
        <3>3. QED BY <1>2, <3>1, <3>2
    <2>3. ViewOf(acts') = grown
        BY <1>9, <2>1, <2>2, SeqEqual
    <2>4. QED BY <2>3 DEF grown
<1>12. QED BY <1>11, ViewAfter DEF pushed

LEMMA Unseen ==
    ASSUME UNCHANGED << vm, faulted, reported >>, ViewOf(acts)' = ViewOf(acts)
    PROVE  UNCHANGED Protocol!vars
    BY DEF vm, Protocol!vars

LEMMA SameCodes ==
    /\ Protocol!VM_NO_ERROR = VM_NO_ERROR
    /\ Protocol!VM_PC_OUT_OF_RANGE = VM_PC_OUT_OF_RANGE
    /\ Protocol!VM_STACK_OVERFLOW = VM_STACK_OVERFLOW
    /\ Protocol!VM_STACK_ERROR = VM_STACK_ERROR
    /\ Protocol!VM_BAD_INSTRUCTION = VM_BAD_INSTRUCTION
    /\ Protocol!VM_OP_LOAD4_MISALIGNED = VM_OP_LOAD4_MISALIGNED
    /\ Protocol!VM_BLOCKCOPY_OUT_OF_RANGE = VM_BLOCKCOPY_OUT_OF_RANGE
    /\ Protocol!VM_DATA_OUT_OF_RANGE = VM_DATA_OUT_OF_RANGE
    BY DEF VM_NO_ERROR, VM_PC_OUT_OF_RANGE, VM_STACK_OVERFLOW, VM_STACK_ERROR,
           VM_BAD_INSTRUCTION, VM_OP_LOAD4_MISALIGNED, VM_BLOCKCOPY_OUT_OF_RANGE,
           VM_DATA_OUT_OF_RANGE,
           Protocol!VM_NO_ERROR, Protocol!VM_PC_OUT_OF_RANGE,
           Protocol!VM_STACK_OVERFLOW, Protocol!VM_STACK_ERROR,
           Protocol!VM_BAD_INSTRUCTION, Protocol!VM_OP_LOAD4_MISALIGNED,
           Protocol!VM_BLOCKCOPY_OUT_OF_RANGE, Protocol!VM_DATA_OUT_OF_RANGE

LEMMA ErrorMapped ==
    ASSUME TypeInv, acts # << >>, NEW level, ErrorReturn(level)
    PROVE  Protocol!ErrorReturn(level)
<1>1. -1 \in Word
    <2>1. PICK h \in Nat : W = 2 * h /\ W \div 2 = h /\ h > 0
        BY WordSize
    <2>2. QED BY <2>1 DEF Word
<1>2. HandBack("error", -1)
    BY DEF ErrorReturn
<1>3. ViewOf(acts)' = Protocol!Front(ViewOf(acts))
    BY <1>1, <1>2, HandBackView
<1>4. /\ lastError' = level /\ reported' = level /\ callLevel' = callLevel - 1
      /\ faulted' = TRUE /\ UNCHANGED << programStack, currentlyInterpreting >>
    BY DEF ErrorReturn, HandBack, Report
<1>5. QED BY <1>3, <1>4 DEF Protocol!ErrorReturn, Protocol!Report

LEMMA RunningMapped ==
    ASSUME TypeInv, Running
    PROVE  /\ Protocol!Running
           /\ Protocol!Last(ViewOf(acts)).programStack = Act.programStack
           /\ Protocol!Last(ViewOf(acts)).stackOnEntry = Act.stackOnEntry
<1>1. acts # << >> /\ Act.at = "code"
    BY DEF Running
<1>2. ViewOf(acts) # << >> /\ Protocol!Last(ViewOf(acts)) = View(Act)
    BY <1>1, ViewLast
<1>3. /\ View(Act).inSyscall = FALSE /\ View(Act).programStack = Act.programStack
      /\ View(Act).stackOnEntry = Act.stackOnEntry
    BY <1>1 DEF View
<1>4. QED BY <1>2, <1>3 DEF Protocol!Running

LEMMA WaitingMapped ==
    ASSUME TypeInv, acts # << >>, Act.at # "code"
    PROVE  /\ ViewOf(acts) # << >> /\ Protocol!Last(ViewOf(acts)).inSyscall
           /\ Protocol!HostTurn
<1>1. ViewOf(acts) # << >> /\ Protocol!Last(ViewOf(acts)) = View(Act)
    BY ViewLast
<1>2. (Act.at # "code") = TRUE
    OBVIOUS
<1>3. View(Act) = [stackOnEntry |-> Act.stackOnEntry,
                   programStack |-> Act.programStack, inSyscall |-> TRUE]
    BY <1>2, Zenon DEF View
<1>4. View(Act).inSyscall = TRUE
    BY <1>3
<1>5. QED BY <1>1, <1>4 DEF Protocol!HostTurn

(* What an instruction that was fetched passed.                             *)
LEMMA FetchedMapped ==
    ASSUME TypeInv, NEW op, Executes(op)
    PROVE  /\ Protocol!Running
           /\ Protocol!Last(ViewOf(acts)).programStack = Act.programStack
           /\ Protocol!Last(ViewOf(acts)).stackOnEntry = Act.stackOnEntry
           /\ Protocol!FetchPasses(Act.programStack)
<1>1. Running
    BY DEF Executes
<1>2. DebugVm => Act.programStack > StackBottom
    BY FetchedAbove
<1>3. QED BY <1>1, <1>2, RunningMapped
      DEF StackBottom, Protocol!FetchPasses, Protocol!StackBottom

LEMMA MovedView ==
    ASSUME TypeInv, acts # << >>, Act.at = "code", NEW a \in CodeAct, Continue(a),
           a.stackOnEntry = Act.stackOnEntry
    PROVE  ViewOf(acts)' = Protocol!MoveStack(a.programStack)
<1> DEFINE n == Len(ViewOf(acts))
<1>1. ViewOf(acts)[n] = View(Act)
    BY ViewLast DEF Protocol!Last
<1>2. [View(Act) EXCEPT !.programStack = a.programStack] = View(a)
    BY DEF View, CodeAct
<1>3. ViewOf(acts)' = [ViewOf(acts) EXCEPT ![n] = View(a)]
    BY ContinueView DEF CodeAct
<1>4. QED BY <1>1, <1>2, <1>3 DEF Protocol!MoveStack

LEMMA SwitchedView ==
    ASSUME TypeInv, acts # << >>, NEW a \in ActivationType, Continue(a),
           a.stackOnEntry = Act.stackOnEntry, a.programStack = Act.programStack
    PROVE  /\ a.at # "code" => ViewOf(acts)' = Protocol!EnterHost
           /\ a.at = "code" => ViewOf(acts)' = Protocol!LeaveHost
<1> DEFINE n == Len(ViewOf(acts))
<1>1. ViewOf(acts)[n] = View(Act)
    BY ViewLast DEF Protocol!Last
<1>2. /\ a.at # "code" => [View(Act) EXCEPT !.inSyscall = TRUE] = View(a)
      /\ a.at = "code" => [View(Act) EXCEPT !.inSyscall = FALSE] = View(a)
    <2>1. ASSUME NEW b \in BOOLEAN, (a.at # "code") = b
          PROVE  [View(Act) EXCEPT !.inSyscall = b] = View(a)
        <3>1. View(a) = [stackOnEntry |-> a.stackOnEntry,
                         programStack |-> a.programStack, inSyscall |-> b]
            BY <2>1, Zenon DEF View
        <3>2. QED BY <3>1 DEF View
    <2>2. QED BY <2>1
<1>3. ViewOf(acts)' = [ViewOf(acts) EXCEPT ![n] = View(a)]
    BY ContinueView
<1>4. QED BY <1>1, <1>2, <1>3 DEF Protocol!EnterHost, Protocol!LeaveHost

-----------------------------------------------------------------------------
(* One step per instruction, for the refinement.                            *)

(* A step of the protocol, or none.                                         *)
Mapped == Protocol!Next \/ UNCHANGED Protocol!vars

LEMMA PcFault ==
    ASSUME TypeInv, Running, ErrorReturn(VM_PC_OUT_OF_RANGE)
    PROVE  Mapped
<1>1. Protocol!Running
    BY RunningMapped
<1>2. Protocol!ErrorReturn(Protocol!VM_PC_OUT_OF_RANGE)
    BY ErrorMapped, SameCodes DEF Running
<1>3. QED BY <1>1, <1>2 DEF Mapped, Protocol!Next, Protocol!ProgramFault

LEMMA ExecutionFault ==
    ASSUME TypeInv, NEW op, Executes(op),
           \/ ErrorReturn(VM_BAD_INSTRUCTION)
           \/ DebugVm /\ ErrorReturn(VM_OP_LOAD4_MISALIGNED)
    PROVE  Mapped
<1>1. /\ Protocol!Running
      /\ Protocol!FetchPasses(Protocol!Last(ViewOf(acts)).programStack)
    BY FetchedMapped
<1>2. acts # << >>
    BY Executing
<1>3. \/ Protocol!ErrorReturn(Protocol!VM_BAD_INSTRUCTION)
      \/ DebugVm /\ Protocol!ErrorReturn(Protocol!VM_OP_LOAD4_MISALIGNED)
    BY <1>2, ErrorMapped, SameCodes
<1>4. QED BY <1>1, <1>3 DEF Mapped, Protocol!Next, Protocol!ProgramFault

LEMMA FetchErrorMapped ==
    ASSUME TypeInv, StackInv, FetchError
    PROVE  Mapped
<1>1. PICK level \in FetchErrors : ErrorReturn(level)
    BY DEF FetchError
<1>2. Running /\ acts # << >>
    BY DEF FetchError, Running
<1>3. Act.programStack % 4 = 0
    BY <1>2, ActStack DEF FramesOK
<1>4. \/ level = VM_PC_OUT_OF_RANGE
      \/ level = VM_STACK_OVERFLOW /\ DebugVm /\ Act.programStack <= StackBottom
    BY <1>1, <1>3 DEF FetchErrors
<1>5. CASE level = VM_PC_OUT_OF_RANGE
    BY <1>1, <1>2, <1>5, PcFault
<1>6. CASE level = VM_STACK_OVERFLOW /\ DebugVm /\ Act.programStack <= StackBottom
    <2>1. Act.programStack \in Int
        BY <1>2, ActStack
    <2>2. ~ Protocol!FetchPasses(Act.programStack)
        BY <1>6, <2>1, StackLayout DEF StackBottom, Protocol!FetchPasses, Protocol!StackBottom
    <2>3. /\ Protocol!Running
          /\ ~ Protocol!FetchPasses(Protocol!Last(ViewOf(acts)).programStack)
        BY <1>2, <2>2, RunningMapped
    <2>4. Protocol!ErrorReturn(Protocol!VM_STACK_OVERFLOW)
        BY <1>1, <1>2, <1>6, ErrorMapped, SameCodes
    <2>5. QED BY <2>3, <2>4 DEF Mapped, Protocol!Next, Protocol!StackOverflow
<1>7. QED BY <1>4, <1>5, <1>6

LEMMA WildMapped ==
    ASSUME OutsideCode \/ Trap \/ BelowOrBeyond \/ HostWild
    PROVE  Mapped
<1>1. UNCHANGED << vm, acts, history >>
    BY DEF OutsideCode, Trap, BelowOrBeyond, HostWild, GoWild
<1>2. UNCHANGED << vm, faulted, reported >> /\ ViewOf(acts') = ViewOf(acts)
    BY <1>1 DEF history
<1>3. QED BY <1>2, ViewAfter, Unseen DEF Mapped

LEMMA GoingView ==
    ASSUME TypeInv, NEW op, Executes(op), NEW pc, NEW a \in Going(pc), Continue(a)
    PROVE  ViewOf(acts)' = ViewOf(acts)
<1>1. acts # << >> /\ Act.at = "code"
    BY DEF Executes, Running
<1>2. a \in ActivationType /\ a.at = "code" /\ SameFrames(a, Act)
    BY DEF Going, CodeAct
<1>3. QED BY <1>1, <1>2, SameView DEF SameFrames

LEMMA QuietToMapped ==
    ASSUME TypeInv, NEW op, Executes(op), NEW pc, NEW a \in Going(pc), QuietTo(a)
    PROVE  Mapped
<1>1. Continue(a) /\ UNCHANGED << vm, faulted, reported >>
    BY DEF QuietTo, Quiet, history
<1>2. QED BY <1>1, GoingView, Unseen DEF Mapped

LEMMA QuietMapped ==
    ASSUME TypeInv,
           Nop \/ Const \/ Local \/ Push \/ Pop \/ UnaryOp \/ BinaryOp \/ Branch
           \/ Jump \/ LoadOp \/ Undef
    PROVE  Mapped
<1>1. CASE Nop \/ Const \/ Local \/ Push \/ Pop \/ UnaryOp \/ BinaryOp
    BY <1>1, QuietShape, QuietToMapped
<1>2. CASE Branch
    <2>1. PICK op \in Branches :
               /\ Executes(op)
               /\ \E a \in Going(Act.programCounter + 2) \cup Going(R2) : QuietTo(a)
        BY <1>2, BranchShape
    <2>2. QED BY <2>1, QuietToMapped
<1>3. CASE Jump
    <2>1. Executes("OP_JUMP") /\ Running
        BY <1>3, JumpShape DEF Executes
    <2>2. QED BY <1>3, <2>1, JumpShape, PcFault, QuietToMapped
<1>4. CASE LoadOp
    <2>1. PICK op \in Loads :
               /\ Executes(op)
               /\ \/ Misaligned(op) /\ ErrorReturn(VM_OP_LOAD4_MISALIGNED) /\ UNCHANGED mem
                  \/ \E a \in Going(Act.programCounter + 1) : QuietTo(a)
        BY <1>4, LoadShape
    <2>2. Misaligned(op) => DebugVm
        BY DEF Misaligned
    <2>3. QED BY <2>1, <2>2, ExecutionFault, QuietToMapped
<1>5. CASE Undef
    BY <1>5, ExecutionFault DEF Undef
<1>6. QED BY <1>1, <1>2, <1>3, <1>4, <1>5

LEMMA WriteMapped ==
    ASSUME TypeInv, StoreOp \/ Arg \/ BlockCopy
    PROVE  Mapped
<1>1. PICK op : /\ Executes(op)
                /\ UNCHANGED << programStack, currentlyInterpreting, callLevel, faulted >>
                /\ \E a \in Going(Act.programCounter + Ints(op)) : Continue(a)
    BY WriteShape
<1>2. ViewOf(acts)' = ViewOf(acts)
    BY <1>1, GoingView
<1>3. CASE UNCHANGED << lastError, reported >>
    BY <1>1, <1>2, <1>3, Unseen DEF Mapped, vm
<1>4. CASE Report(VM_BLOCKCOPY_OUT_OF_RANGE)
    <2>1. /\ Protocol!Running
          /\ Protocol!FetchPasses(Protocol!Last(ViewOf(acts)).programStack)
        BY <1>1, FetchedMapped
    <2>2. Protocol!Report(Protocol!VM_BLOCKCOPY_OUT_OF_RANGE)
        BY <1>4, SameCodes DEF Report, Protocol!Report
    <2>3. QED BY <1>1, <1>2, <2>1, <2>2 DEF Mapped, Protocol!Next, Protocol!BlockCopyError
<1>5. UNCHANGED << lastError, reported >> \/ Report(VM_BLOCKCOPY_OUT_OF_RANGE)
    BY DEF StoreOp, Arg, BlockCopy, vm, history
<1>6. QED BY <1>3, <1>4, <1>5

LEMMA EnterMapped ==
    ASSUME TypeInv, StackInv, EntersAndLeaves, Enter
    PROVE  Mapped
<1> DEFINE ps == Act.programStack - R2
<1>1. /\ Executes("OP_ENTER") /\ acts # << >> /\ Act.at = "code"
      /\ UNCHANGED << vm, history >>
    BY EnterShape DEF Executes, Running
<1>2. PICK a \in CodeAct : /\ Continue(a)
                           /\ a.stackOnEntry = Act.stackOnEntry /\ a.programStack = ps
    BY EnterShape
<1>3. ps \in Int /\ ToWord(ps) = ps /\ R2 \in FrameSizes
    BY <1>1, EnterFacts, Discipline
<1> HIDE DEF ps
<1>4. ps >= -W
    <2>1. PICK h \in Nat : W = 2 * h /\ W \div 2 = h
        BY WordSize
    <2>2. ps \in Word
        BY <1>3, ToWordFacts
    <2>3. QED BY <2>1, <2>2, <1>3 DEF Word
<1>5. ViewOf(acts)' = Protocol!MoveStack(ps)
    BY <1>1, <1>2, MovedView
<1>6. /\ Protocol!Running
      /\ Protocol!Last(ViewOf(acts)).programStack = Act.programStack
      /\ Protocol!FetchPasses(Act.programStack)
    BY <1>1, FetchedMapped
<1>7. UNCHANGED << programStack, currentlyInterpreting, callLevel,
                   << lastError, reported >>, faulted >>
    BY <1>1 DEF vm, history
<1>8. Protocol!Enter(R2)
    BY <1>4, <1>5, <1>6, <1>7 DEF Protocol!Enter, Protocol!errors, ps
<1>9. QED BY <1>3, <1>8 DEF Mapped, Protocol!Next

LEMMA LeaveMapped ==
    ASSUME TypeInv, StackInv, EntersAndLeaves, Leave
    PROVE  Mapped
<1> DEFINE ps == Act.programStack + R2
<1>1. /\ Executes("OP_LEAVE") /\ acts # << >> /\ Running /\ Act.at = "code"
      /\ WordAt(mem, ps) # -1
    BY LeaveShape DEF Executes, Running
<1>2. ps \in Int /\ ps <= Base(Act) /\ ps # Base(Act) /\ R2 \in FrameSizes
    BY <1>1, LeaveFacts, Discipline
<1>3. CASE ErrorReturn(VM_PC_OUT_OF_RANGE) /\ UNCHANGED mem
    BY <1>1, <1>3, PcFault
<1>4. ASSUME NEW a \in CodeAct, QuietTo(a), a.stackOnEntry = Act.stackOnEntry,
             a.programStack = ps
      PROVE  Mapped
    <2>1. Act.stackOnEntry \in Int
        BY <1>1, ActStack
    <2> HIDE DEF ps
    <2>2. ps < Act.stackOnEntry - EntryFrame
        BY <1>2, <2>1, StackLayout DEF Base
    <2>3. Continue(a) /\ UNCHANGED << vm, history >>
        BY <1>4 DEF QuietTo, Quiet
    <2>4. ViewOf(acts)' = Protocol!MoveStack(ps)
        BY <1>1, <1>4, <2>3, MovedView
    <2>5. /\ Protocol!Running
          /\ Protocol!Last(ViewOf(acts)).programStack = Act.programStack
          /\ Protocol!Last(ViewOf(acts)).stackOnEntry = Act.stackOnEntry
          /\ Protocol!FetchPasses(Act.programStack)
        BY <1>1, FetchedMapped
    <2>6. UNCHANGED << programStack, currentlyInterpreting, callLevel,
                       << lastError, reported >>, faulted >>
        BY <2>3 DEF vm, history
    <2>7. Protocol!Leave(R2)
        BY <2>2, <2>4, <2>5, <2>6 DEF Protocol!Leave, Protocol!errors, ps
    <2>8. QED BY <1>2, <2>7 DEF Mapped, Protocol!Next
<1>5. QED BY <1>3, <1>4, LeaveShape

LEMMA DoneMapped ==
    ASSUME TypeInv, StackInv, EntersAndLeaves, Done
    PROVE  Mapped
<1> DEFINE ps    == Act.programStack + R2
           value == Act.opStack[Act.opStackOfs]
<1>1. Executes("OP_LEAVE") /\ acts # << >> /\ Act \in CodeAct
    BY Executing DEF Done
<1>2. ToWord(ps) = ps /\ R2 \in FrameSizes /\ (WordAt(mem, ps) = -1 <=> ps = Base(Act))
    BY <1>1, LeaveFacts, Discipline
<1>3. value \in Word
    BY <1>1 DEF CodeAct, ActivationType
<1>4. /\ WordAt(mem, ToWord(ps)) = -1
      /\ currentlyInterpreting' = FALSE /\ programStack' = Act.stackOnEntry
      /\ Report(VM_STACK_ERROR) \/ UNCHANGED << lastError, reported >>
      /\ HandBack("done", value) /\ UNCHANGED faulted
    BY DEF Done
<1> HIDE DEF value
<1>5. ViewOf(acts)' = Protocol!Front(ViewOf(acts)) /\ callLevel' = callLevel - 1
    BY <1>1, <1>3, <1>4, HandBackView DEF HandBack
<1>6. ps = Act.stackOnEntry - EntryFrame
    BY <1>2, <1>4 DEF Base
<1>7. /\ Protocol!Running
      /\ Protocol!Last(ViewOf(acts)).programStack = Act.programStack
      /\ Protocol!Last(ViewOf(acts)).stackOnEntry = Act.stackOnEntry
      /\ Protocol!FetchPasses(Act.programStack)
    BY <1>1, FetchedMapped
<1>8. Protocol!Report(Protocol!VM_STACK_ERROR) \/ UNCHANGED Protocol!errors
    BY <1>4, SameCodes DEF Report, Protocol!Report, Protocol!errors
<1>9. Protocol!Done(R2)
    BY <1>4, <1>5, <1>6, <1>7, <1>8 DEF Protocol!Done
<1>10. QED BY <1>2, <1>9 DEF Mapped, Protocol!Next

LEMMA CallMapped ==
    ASSUME TypeInv, CallFunction
    PROVE  Mapped
<1>1. Executes("OP_CALL") /\ Running /\ acts # << >> /\ Act.at = "code"
    BY CallFunctionShape DEF Executes, Running
<1>2. CASE ErrorReturn(VM_PC_OUT_OF_RANGE)
    BY <1>1, <1>2, PcFault
<1>3. ASSUME NEW a \in CodeAct, Continue(a), Calling(a), UNCHANGED << vm, history >>
      PROVE  Mapped
    <2>1. ViewOf(acts)' = ViewOf(acts)
        BY <1>1, <1>3, SameView DEF CodeAct, Calling
    <2>2. QED BY <1>3, <2>1, Unseen DEF Mapped, history
<1>4. QED BY <1>2, <1>3, CallFunctionShape

LEMMA SystemCallMapped ==
    ASSUME TypeInv, SystemCall
    PROVE  Mapped
<1>1. /\ Executes("OP_CALL") /\ acts # << >>
      /\ programStack' = Act.programStack - 4
      /\ UNCHANGED << currentlyInterpreting, callLevel, lastError, history >>
    BY SystemCallShape
<1>2. PICK a \in ActivationType : Continue(a) /\ Calling(a) /\ a.at = "handler"
    BY SystemCallShape
<1>3. ViewOf(acts)' = Protocol!EnterHost
    BY <1>1, <1>2, SwitchedView DEF Calling
<1>4. /\ Protocol!Running
      /\ Protocol!Last(ViewOf(acts)).programStack = Act.programStack
      /\ Protocol!FetchPasses(Act.programStack)
    BY <1>1, FetchedMapped
<1>5. UNCHANGED << currentlyInterpreting, callLevel, << lastError, reported >>, faulted >>
    BY <1>1 DEF history
<1>6. Protocol!SystemCall
    BY <1>1, <1>3, <1>4, <1>5 DEF Protocol!SystemCall, Protocol!errors
<1>7. QED BY <1>6 DEF Mapped, Protocol!Next

LEMMA SystemReturnMapped ==
    ASSUME TypeInv, SystemReturn
    PROVE  Mapped
<1>1. acts # << >> /\ Act.at = "handled" /\ UNCHANGED << vm, history >>
    BY SystemReturnShape
<1>2. PICK a \in CodeAct : /\ Continue(a)
                           /\ a.stackOnEntry = Act.stackOnEntry
                           /\ a.programStack = Act.programStack
    BY SystemReturnShape
<1>3. ViewOf(acts)' = Protocol!LeaveHost
    BY <1>1, <1>2, SwitchedView DEF CodeAct
<1>4. ViewOf(acts) # << >> /\ Protocol!Last(ViewOf(acts)).inSyscall
    BY <1>1, WaitingMapped
<1>5. UNCHANGED << programStack, currentlyInterpreting, callLevel,
                   << lastError, reported >>, faulted >>
    BY <1>1 DEF vm, history
<1>6. Protocol!SystemReturn
    BY <1>3, <1>4, <1>5 DEF Protocol!SystemReturn, Protocol!errors
<1>7. QED BY <1>6 DEF Mapped, Protocol!Next

-----------------------------------------------------------------------------
(* The host's steps, for the refinement.                                    *)

LEMMA HandlerView ==
    ASSUME TypeInv, Handling, NEW value \in Word, HandlerReturns(value)
    PROVE  /\ ViewOf(acts)' = ViewOf(acts)
           /\ ViewOf(acts) # << >> /\ Protocol!HostTurn
<1>1. acts # << >> /\ Act.at = "handler"
    BY DEF Handling
<1>2. PICK a \in ActivationType :
          /\ Continue(a) /\ a.at = "handled"
          /\ a.stackOnEntry = Act.stackOnEntry /\ a.programStack = Act.programStack
    BY HandlerShape
<1>3. ViewOf(acts)' = ViewOf(acts)
    BY <1>1, <1>2, SameView
<1>4. ViewOf(acts) # << >> /\ Protocol!HostTurn
    BY <1>1, WaitingMapped
<1>5. QED BY <1>3, <1>4

LEMMA HandlersMapped ==
    ASSUME TypeInv, HostPrint \/ HostUnknown \/ HostMemset \/ HostMemcpy
    PROVE  Mapped
<1>1. PICK value \in Word : Handling /\ HandlerReturns(value)
    <2>1. CASE HostPrint
        BY <2>1, UnspecifiedWords DEF HostPrint
    <2>2. CASE HostUnknown
        BY <2>2, SmallWords DEF HostUnknown
    <2>3. CASE HostMemset \/ HostMemcpy
        BY <2>3, HandlingTyped DEF HostMemset, HostMemcpy
    <2>4. QED BY <2>1, <2>2, <2>3
<1>2. HostQuiet /\ (UNCHANGED reported \/ reported' = VM_DATA_OUT_OF_RANGE)
    BY DEF HostPrint, HostUnknown, HostMemset, HostMemcpy
<1>3. /\ ViewOf(acts)' = ViewOf(acts)
      /\ ViewOf(acts) # << >> /\ Protocol!HostTurn
    BY <1>1, HandlerView
<1>4. CASE UNCHANGED reported
    BY <1>2, <1>3, <1>4, Unseen DEF Mapped, HostQuiet
<1>5. CASE reported' = VM_DATA_OUT_OF_RANGE
    <2>1. UNCHANGED << programStack, currentlyInterpreting, callLevel, lastError, faulted >>
        BY <1>2 DEF HostQuiet, vm
    <2>2. QED BY <1>3, <1>5, <2>1, SameCodes
              DEF Mapped, Protocol!Next, Protocol!RangeRejected
<1>6. QED BY <1>2, <1>4, <1>5

LEMMA CallsMapped ==
    ASSUME TypeInv, HostCall \/ HostRecursive
    PROVE  Mapped
<1>1. /\ acts # << >> => Act.at = "handler"
      /\ calls' \in 0 .. MaxCalls
    BY Beginning
<1>2. PICK args \in [0 .. MaxVmMainArgs - 1 -> Word] : BeginCall(args)
    BY Beginning
<1>3. ViewOf(acts)' = Append(ViewOf(acts),
                             [stackOnEntry |-> programStack,
                              programStack |-> programStack - EntryFrame,
                              inSyscall    |-> FALSE])
    BY <1>1, <1>2, BeginView
<1>4. /\ callLevel' = callLevel + 1 /\ currentlyInterpreting' = TRUE
      /\ UNCHANGED << programStack, << lastError, reported >>, faulted >>
      /\ programStack - EntryFrame >= 0
    BY <1>2 DEF BeginCall, InImage
<1>5. programStack - EntryFrame >= -W
    <2>1. programStack - EntryFrame \in Int
        BY StackLayout DEF TypeInv, TypeOK
    <2>2. W \in Nat
        BY WordSize
    <2>3. QED BY <1>4, <2>1, <2>2
<1>6. callLevel < MaxLevel
    <2>1. CASE HostRecursive
        BY <2>1 DEF HostRecursive
    <2>2. CASE HostCall
        <3>1. callLevel = 0
            BY <2>2, EmptySeq DEF HostCall, TypeInv, ActsOK
        <3>2. QED BY <3>1, DisciplineAssumption, InterpreterAssumption
    <2>3. QED BY <2>1, <2>2
<1>7. Protocol!HostTurn
    <2>1. CASE acts = << >>
        <3>1. acts \in Seq(ActivationType)
            BY DEF TypeInv, ActsOK
        <3>2. ViewOf(acts) = << >>
            BY <2>1, <3>1, ViewTyped
        <3>3. QED BY <3>2 DEF Protocol!HostTurn
    <2>2. CASE acts # << >>
        BY <1>1, <2>2, WaitingMapped
    <2>3. QED BY <2>1, <2>2
<1>8. Protocol!VM_Call
    BY <1>3, <1>4, <1>5, <1>6, <1>7 DEF Protocol!VM_Call, Protocol!errors
<1>9. QED BY <1>8 DEF Mapped, Protocol!Next

-----------------------------------------------------------------------------

LEMMA InitMapped == Init => Protocol!Init
<1> SUFFICES ASSUME Init PROVE Protocol!Init
    OBVIOUS
<1>1. acts = << >> /\ acts \in Seq(ActivationType)
    BY EmptySeq DEF Init
<1>2. ViewOf(acts) = << >>
    BY <1>1, ViewTyped
<1>3. QED BY <1>2, SameCodes DEF Init, Protocol!Init

LEMMA NextMapped ==
    ASSUME TypeInv, StackInv, Disciplined, [Next]_vars
    PROVE  [Protocol!Next]_(Protocol!vars)
<1>1. EntersAndLeaves
    BY DEF Disciplined
<1>2. CASE Instructions
    BY <1>1, <1>2, FetchErrorMapped, WildMapped, QuietMapped, WriteMapped, EnterMapped,
       LeaveMapped, DoneMapped, CallMapped, SystemCallMapped DEF Instructions, Mapped
<1>3. CASE Handlers \/ HostCall
    BY <1>3, HandlersMapped, CallsMapped, WildMapped DEF Handlers, Mapped
<1>4. CASE SystemReturn
    BY <1>4, SystemReturnMapped DEF Mapped
<1>5. CASE UNCHANGED vars
    <2>1. UNCHANGED << vm, faulted, reported >> /\ ViewOf(acts') = ViewOf(acts)
        BY <1>5 DEF vars, history
    <2>2. QED BY <2>1, ViewAfter, Unseen
<1>6. QED BY <1>2, <1>3, <1>4, <1>5 DEF Next, Machine

(* Executing any program that keeps the discipline, under any host, is a    *)
(* behaviour of CallProtocol: every instruction, system call, nested VM_Call *)
(* and error does to the vm_t, to the stack pointers and to who has control *)
(* what the protocol says, or nothing.                                      *)
THEOREM InterpreterRefines == Spec /\ []Disciplined => ImplementsProtocol
<1>1. TypeInv /\ StackInv /\ Disciplined /\ [Next]_vars
      => [Protocol!Next]_(Protocol!vars)
    BY NextMapped
<1>2. QED
    BY <1>1, InitMapped, TypeInvariance, StackInvariance, PTL
    DEF Spec, ImplementsProtocol, Protocol!Spec

-----------------------------------------------------------------------------
(* What CallProtocol assumes of its constants is so, and its main property  *)
(* holds of programs.                                                       *)

LEMMA ProtocolAssumptions ==
    /\ StackTop \in Nat /\ StackSize \in Nat /\ EntryFrame \in Nat
    /\ DebugVm \in BOOLEAN /\ MaxLevel \in Nat /\ -W \in Int
    /\ MaxFrame \in Nat /\ FrameSizes \subseteq 1 .. MaxFrame
    /\ EntryFrame + 4 <= MaxFrame /\ MaxFrame <= StackTop - StackSize
<1>1. W \in Nat
    BY WordSize
<1>2. QED
    BY <1>1, MaskAssumption, InterpreterAssumption, DisciplineAssumption
    DEF StackTop, StackBottom, EntryFrame

(* A VM_Call from a handler works strictly below the frames of all the       *)
(* activations that wait, whatever failed before it, for every program that  *)
(* keeps the discipline: so do the arguments it pushes, which nothing checks. *)
THEOREM NestedCallsBelow == Spec /\ []Disciplined => []Protocol!NestedBelow
<1>1. ASSUME TypeInv, StackInv PROVE Protocol!NestedBelow
    <2>1. /\ Len(acts) \in Nat /\ Len(ViewOf(acts)) = Len(acts)
          /\ ViewOf(acts) = << >> <=> acts = << >>
          /\ \A i \in 1 .. Len(acts) :
                /\ ViewOf(acts)[i].stackOnEntry = acts[i].stackOnEntry
                /\ ViewOf(acts)[i].programStack = acts[i].programStack
        <3>1. acts \in Seq(ActivationType)
            BY <1>1 DEF TypeInv, ActsOK
        <3>2. /\ Len(acts) \in Nat /\ Len(ViewOf(acts)) = Len(acts)
              /\ ViewOf(acts) = << >> <=> acts = << >>
              /\ \A i \in 1 .. Len(acts) : ViewOf(acts)[i] = View(acts[i])
            BY <3>1, ViewTyped
        <3>3. ASSUME NEW i \in 1 .. Len(acts)
              PROVE  /\ View(acts[i]).stackOnEntry = acts[i].stackOnEntry
                     /\ View(acts[i]).programStack = acts[i].programStack
            BY DEF View
        <3>4. QED BY <3>2, <3>3
    <2>2. \A i \in 1 .. Len(acts) :
              acts[i].programStack <= acts[i].stackOnEntry - EntryFrame
        BY <1>1 DEF StackInv, FramesOK, Base
    <2>3. \A i \in 1 .. Len(acts) - 1 :
              acts[i + 1].stackOnEntry <= acts[i].programStack - 4
        BY <1>1, <2>1 DEF StackInv, Nested
    <2>4. ASSUME ViewOf(acts) # << >>, Protocol!Last(ViewOf(acts)).inSyscall
          PROVE  programStack <= Protocol!Last(ViewOf(acts)).programStack - 4
        <3>1. acts # << >> /\ Protocol!Last(ViewOf(acts)) = View(Act)
            BY <1>1, <2>1, <2>4, ViewLast
        <3>2. View(Act).inSyscall = (Act.at # "code")
              /\ View(Act).programStack = Act.programStack
            BY DEF View
        <3>3. Act.at # "code"
            BY <2>4, <3>1, <3>2, Zenon
        <3>4. QED BY <1>1, <3>1, <3>2, <3>3 DEF StackInv
    <2>5. /\ \A i \in 1 .. Len(ViewOf(acts)) :
                ViewOf(acts)[i].programStack <= ViewOf(acts)[i].stackOnEntry - EntryFrame
          /\ \A i \in 1 .. Len(ViewOf(acts)) - 1 :
                ViewOf(acts)[i + 1].stackOnEntry <= ViewOf(acts)[i].programStack - 4
        BY <2>1, <2>2, <2>3
    <2>6. QED BY <2>4, <2>5 DEF Protocol!NestedBelow
<1>2. QED BY <1>1, TypeInvariance, StackInvariance, PTL
=============================================================================
