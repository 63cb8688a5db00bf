----------------------------- MODULE LoaderProofs ------------------------------
(***************************************************************************)
(* Proofs about Loader, for all the files that satisfy FilesAssumption: the *)
(* loops of VM_PrepareInterpreter stay within what they were given but for  *)
(* one entry, every branch of a loaded program lands on an instruction, the *)
(* image holds the variables and the stack, the loader implements the life  *)
(* cycle of a vm_t, and what it makes of a file of q3asm is what the file    *)
(* was assembled from.                                                      *)
(***************************************************************************)
EXTENDS Loader, WordLemmas

-----------------------------------------------------------------------------
(* 1 << i.  The function is defined by recursion: that there is one is       *)
(* proved from the finite tables Upto describes.                             *)

Upto(table, n) ==
    /\ table \in [0 .. n -> Nat]
    /\ table[0] = 1
    /\ \A i \in 1 .. n : table[i] = 2 * table[i - 1]

Table(n) == CHOOSE table : Upto(table, n)

LEMMA TableExists == \A n \in Nat : Upto(Table(n), n)
<1> DEFINE S == {n \in Nat : \E table : Upto(table, n)}
<1>1. 0 \in S
    <2>1. Upto([i \in 0 .. 0 |-> 1], 0)
        BY DEF Upto
    <2>2. QED BY <2>1
<1>2. ASSUME NEW n \in S PROVE n + 1 \in S
    <2>1. PICK table : Upto(table, n)
        OBVIOUS
    <2> DEFINE longer ==
            [i \in 0 .. n + 1 |-> IF i = n + 1 THEN 2 * table[n] ELSE table[i]]
    <2>2. /\ longer[n + 1] = 2 * table[n]
          /\ \A i \in 0 .. n : longer[i] = table[i]
        OBVIOUS
    <2>3. longer \in [0 .. n + 1 -> Nat]
        <3>1. \A i \in 0 .. n : table[i] \in Nat
            BY <2>1 DEF Upto
        <3>2. QED BY <3>1
    <2> HIDE DEF longer
    <2>4. ASSUME NEW i \in 1 .. n + 1 PROVE longer[i] = 2 * longer[i - 1]
        <3>1. n \in Nat /\ i - 1 \in 0 .. n
            OBVIOUS
        <3>2. CASE i = n + 1
            BY <2>2, <3>1, <3>2
        <3>3. CASE i # n + 1
            <4>1. i \in 1 .. n /\ i \in 0 .. n
                BY <3>1, <3>3
            <4>2. QED BY <2>1, <2>2, <3>1, <4>1 DEF Upto
        <3>4. QED BY <3>2, <3>3
    <2>5. longer[0] = 1
        BY <2>1, <2>2 DEF Upto
    <2>6. Upto(longer, n + 1)
        BY <2>3, <2>4, <2>5 DEF Upto
    <2>7. QED BY <2>6
<1>3. S = Nat
    <2> HIDE DEF S
    <2>1. S \in SUBSET Nat
        BY DEF S
    <2>2. QED BY <1>1, <1>2, <2>1, SetInduction
<1>4. QED BY <1>3 DEF Table

LEMMA TablesAgree ==
    ASSUME NEW m \in Nat, NEW k \in Nat, NEW f, NEW g, Upto(f, m), Upto(g, k)
    PROVE  \A n \in Nat : n <= m /\ n <= k => f[n] = g[n]
<1> DEFINE S == {n \in Nat : n <= m /\ n <= k => f[n] = g[n]}
<1>1. 0 \in S
    BY DEF Upto
<1>2. ASSUME NEW n \in S PROVE n + 1 \in S
    <2> SUFFICES ASSUME n + 1 <= m, n + 1 <= k PROVE f[n + 1] = g[n + 1]
        OBVIOUS
    <2>1. f[n] = g[n]
        OBVIOUS
    <2>2. QED BY <2>1 DEF Upto
<1>3. S = Nat
    <2> HIDE DEF S
    <2>1. S \in SUBSET Nat
        BY DEF S
    <2>2. QED BY <1>1, <1>2, <2>1, SetInduction
<1>4. QED BY <1>3

LEMMA ShiftedOneDef ==
    ShiftedOne = [i \in Nat |-> IF i = 0 THEN 1 ELSE 2 * ShiftedOne[i - 1]]
<1> DEFINE F == [i \in Nat |-> Table(i)[i]]
<1>1. F = [i \in Nat |-> IF i = 0 THEN 1 ELSE 2 * F[i - 1]]
    <2>1. ASSUME NEW i \in Nat PROVE F[i] = IF i = 0 THEN 1 ELSE 2 * F[i - 1]
        <3>1. CASE i = 0
            BY TableExists, <3>1 DEF Upto
        <3>2. CASE i # 0
            <4>1. i - 1 \in Nat
                BY <3>2
            <4>2. Table(i - 1)[i - 1] = Table(i)[i - 1]
                BY TableExists, <4>1, TablesAgree
            <4>3. Table(i)[i] = 2 * Table(i)[i - 1]
                BY TableExists, <3>2 DEF Upto
            <4>4. QED BY <4>1, <4>2, <4>3, <3>2
        <3>3. QED BY <3>1, <3>2
    <2>2. QED BY <2>1
<1>2. QED BY <1>1 DEF ShiftedOne

LEMMA ShiftedOneStep ==
    /\ ShiftedOne[0] = 1
    /\ \A i \in Nat : ShiftedOne[i + 1] = 2 * ShiftedOne[i]
<1>1. ShiftedOne[0] = 1
    BY ShiftedOneDef
<1>2. ASSUME NEW i \in Nat PROVE ShiftedOne[i + 1] = 2 * ShiftedOne[i]
    <2>1. i + 1 \in Nat /\ i + 1 # 0 /\ i + 1 - 1 = i
        OBVIOUS
    <2>2. QED BY <2>1, ShiftedOneDef
<1>3. QED BY <1>1, <1>2

(* A shifted one is positive.                                               *)
LEMMA ShiftedOnePositive == \A i \in Nat : ShiftedOne[i] \in Nat /\ ShiftedOne[i] > 0
<1> DEFINE S == {i \in Nat : ShiftedOne[i] \in Nat /\ ShiftedOne[i] > 0}
<1>1. 0 \in S
    BY ShiftedOneStep
<1>2. ASSUME NEW n \in S PROVE n + 1 \in S
    BY ShiftedOneStep
<1>3. S = Nat
    <2> HIDE DEF S
    <2>1. S \in SUBSET Nat
        BY DEF S
    <2>2. QED BY <1>1, <1>2, <2>1, SetInduction
<1>4. QED BY <1>3

(* A shift by more is more, and by one more at least twice as much.          *)
LEMMA ShiftedOneMonotone ==
    \A i, j \in Nat : i < j => 2 * ShiftedOne[i] <= ShiftedOne[j]
<1> SUFFICES ASSUME NEW i \in Nat
             PROVE  \A j \in Nat : i < j => 2 * ShiftedOne[i] <= ShiftedOne[j]
    OBVIOUS
<1> DEFINE S == {n \in Nat : 2 * ShiftedOne[i] <= ShiftedOne[i + 1 + n]}
<1>1. 0 \in S
    BY ShiftedOneStep, ShiftedOnePositive
<1>2. ASSUME NEW n \in S PROVE n + 1 \in S
    <2> DEFINE m == i + 1 + n
    <2>1. m \in Nat /\ i + 1 + (n + 1) = m + 1
        OBVIOUS
    <2>2. ShiftedOne[m + 1] = 2 * ShiftedOne[m] /\ ShiftedOne[m] \in Nat
        BY <2>1, ShiftedOneStep, ShiftedOnePositive
    <2>3. QED BY <2>1, <2>2, ShiftedOnePositive
<1>3. S = Nat
    <2> HIDE DEF S
    <2>1. S \in SUBSET Nat
        BY DEF S
    <2>2. QED BY <1>1, <1>2, <2>1, SetInduction
<1>4. ASSUME NEW j \in Nat, i < j PROVE 2 * ShiftedOne[i] <= ShiftedOne[j]
    <2> DEFINE n == j - (i + 1)
    <2>1. n \in Nat /\ i + 1 + n = j
        BY <1>4
    <2>2. \A k \in Nat : 2 * ShiftedOne[i] <= ShiftedOne[i + 1 + k]
        BY <1>3
    <2> HIDE DEF n
    <2>3. 2 * ShiftedOne[i] <= ShiftedOne[i + 1 + n]
        BY <2>1, <2>2
    <2>4. QED BY <2>1, <2>3
<1>5. QED BY <1>4

(* The loop that rounds the length of the image up finds the least power of *)
(* two that holds it.                                                       *)
LEMMA RoundedUpFacts ==
    ASSUME NEW n \in Int, n <= ShiftedOne[WordBits], WordBits \in Nat
    PROVE  \E k \in 0 .. WordBits :
              /\ RoundedUp(n) = ShiftedOne[k]
              /\ ShiftedOne[k] >= n
              /\ \A j \in 0 .. k - 1 : ShiftedOne[j] < n
<1> DEFINE S == {k \in 0 .. WordBits : ShiftedOne[k] >= n}
<1>1. WordBits \in S
    BY ShiftedOnePositive
<1>2. PICK k \in S : \A j \in S : k <= j
    <2>1. S \in SUBSET Nat /\ S # {}
        BY <1>1
    <2> HIDE DEF S
    <2>2. QED BY <2>1, LeastNumber
<1>3. \A j \in 0 .. k - 1 : ShiftedOne[j] < n
    <2> SUFFICES ASSUME NEW j \in 0 .. k - 1, ShiftedOne[j] >= n PROVE FALSE
        BY ShiftedOnePositive
    <2>1. QED BY <1>2
<1>4. k \in 0 .. WordBits /\ ShiftedOne[k] >= n
    OBVIOUS
<1> HIDE DEF S
<1>5. QED BY <1>3, <1>4 DEF RoundedUp

-----------------------------------------------------------------------------
(* The invariant.                                                           *)

HeaderAccepted ==
    creating \in {"pointers", "prepare", "translate"} \/ Loaded

CodeTaken == creating \in {"prepare", "translate"} \/ Loaded

TablesEmpty ==
    \/ creating \in {"load", "pointers", "prepare"}
    \/ creating = "no" /\ codeLength = 0

(* What VM_Create has taken from the header so far, and where the image and *)
(* the stack stand.                                                         *)
HeaderFollowed ==
    /\ HeaderAccepted =>
          /\ GoodHeader(header, file.length)
          /\ dataMask = RoundedUp(DataLength(header)) - 1
    /\ CodeTaken => /\ codeLength = header.codeLength
                    /\ instructionCount = header.instructionCount
    /\ creating \in {"load", "pointers"} => codeLength = 0
    /\ programStack = IF Loaded THEN dataMask + 1 ELSE 0

(* The blocks handed out are the ones the vm_t has, and each phase of        *)
(* VM_Create has a certain set of them.                                     *)
BlocksByPhase ==
    /\ live = owned
    /\ creating = "load" \/ (creating = "no" /\ codeLength = 0) => owned = {}
    /\ creating = "pointers" => owned = {"VM_ALLOC_DATA_SEC"}
    /\ creating = "prepare" =>
          owned = {"VM_ALLOC_DATA_SEC", "VM_ALLOC_INSTRUCTION_POINTERS"}
    /\ creating = "translate" \/ Loaded => owned = AllocTypes

(* The ints of codeBase that the k-th instruction takes.                    *)
Size(k) == IF OperandBytes(codeBase[instructionPointers[k]]) > 0 THEN 2 ELSE 1

(* The first n instructions lie one after the other in codeBase, from its   *)
(* start, with their operands; Ends says where they end.                    *)
Laid(n) ==
    /\ \A k \in 0 .. n - 1 :
          /\ instructionPointers[k] \in DOMAIN codeBase
          /\ Size(k) = 2 => instructionPointers[k] + 1 \in DOMAIN codeBase
    /\ \A j, k \in 0 .. n - 1 :
          j < k => instructionPointers[j] + Size(j) <= instructionPointers[k]
    /\ \A k \in 0 .. n - 2 :
          instructionPointers[k + 1] = instructionPointers[k] + Size(k)
    /\ n > 0 => instructionPointers[0] = 0

Ends(n, place) ==
    /\ n = 0 => place = 0
    /\ n > 0 => place = instructionPointers[n - 1] + Size(n - 1)
    /\ \A k \in 0 .. n - 1 : instructionPointers[k] + Size(k) <= place

Starts == {instructionPointers[k] : k \in 0 .. instructionCount - 1}

(* The branches among the first n instructions lead to instructions.         *)
Resolved(n) ==
    \A k \in 0 .. n - 1 :
        Name(codeBase[instructionPointers[k]]) \in Branches =>
            codeBase[instructionPointers[k] + 1] \in Starts

(* Where the two loops stand.                                               *)
Progress ==
    /\ creating = "translate" /\ loop.pass = "expand" =>
          /\ loop.instruction <= instructionCount
          /\ DOMAIN instructionPointers = 0 .. loop.instruction - 1
          /\ Laid(loop.instruction)
          /\ Ends(loop.instruction, loop.intPc)
    /\ creating = "translate" /\ loop.pass = "resolve" =>
          /\ loop.instruction <= instructionCount
          /\ loop.instruction < instructionCount =>
                loop.intPc = instructionPointers[loop.instruction]
          /\ Resolved(loop.instruction)
    /\ (creating = "translate" /\ loop.pass = "resolve") \/ Loaded =>
          /\ DOMAIN instructionPointers = 0 .. instructionCount - 1
          /\ Laid(instructionCount)
    /\ Loaded => Resolved(instructionCount)
    /\ TablesEmpty => instructionPointers = << >> /\ codeBase = << >>
    /\ \A k \in DOMAIN instructionPointers :
          instructionPointers[k] \in 0 .. codeLength - 1

(* The inductive invariant.                                                 *)
LoaderInv ==
    /\ LoaderTypeOK
    /\ HeaderFollowed
    /\ BlocksByPhase
    /\ Progress
    /\ WalkBounded
    /\ LookupBounded

-----------------------------------------------------------------------------
(* What FilesAssumption says of one file.                                   *)

LEMMA Fields ==
    ASSUME NEW f \in Files
    PROVE  /\ f.length \in Int
           /\ f.header.instructionCount \in Word
           /\ f.header.codeOffset \in Word /\ f.header.codeLength \in Word
           /\ f.header.dataOffset \in Word /\ f.header.dataLength \in Word
           /\ f.header.litLength \in Word /\ f.header.bssLength \in Word
           /\ \A x \in DOMAIN f.bytes : f.bytes[x] \in Byte
    BY FilesAssumption DEF Header

(* A header that was accepted: the counts are positive, the code is there.   *)
LEMMA Accepted ==
    ASSUME NEW f \in Files, GoodHeader(f.header, f.length)
    PROVE  /\ f.header.codeLength \in Nat /\ f.header.codeLength > 0
           /\ f.header.instructionCount \in Nat /\ f.header.instructionCount > 0
           /\ f.header.codeOffset \in Nat
           /\ \A k \in 0 .. f.header.codeLength - 1 :
                 f.bytes[f.header.codeOffset + k] \in Byte
<1>1. \A w \in Word : w \in Int
    BY WordIsInt
<1>2. QED BY <1>1, Fields, FilesAssumption DEF GoodHeader, GoodFields

LEMMA WordBitsNat == WordBits \in Nat
    BY ByteAssumption DEF WordBits

(* The image of an accepted header is the least power of two that holds its *)
(* segments.                                                                *)
LEMMA ImageSize ==
    ASSUME NEW f \in Files, GoodHeader(f.header, f.length)
    PROVE  /\ DataLength(f.header) \in Nat
           /\ \E k \in 0 .. WordBits :
                 /\ RoundedUp(DataLength(f.header)) = ShiftedOne[k]
                 /\ ShiftedOne[k] \in Nat /\ ShiftedOne[k] > 0
                 /\ ShiftedOne[k] >= DataLength(f.header)
                 /\ \A j \in 0 .. k - 1 : ShiftedOne[j] < DataLength(f.header)
<1>1. \A w \in Word : w \in Int
    BY WordIsInt
<1>2. /\ DataLength(f.header) \in Nat
      /\ DataLength(f.header) <= MaxImage + MaxBss
    BY <1>1, Fields, FileAssumption
    DEF GoodHeader, GoodFields, DataEnd, DataLength
<1>3. ShiftedOne[WordBits] \in Nat
    BY WordBitsNat, ShiftedOnePositive
<1>4. DataLength(f.header) <= ShiftedOne[WordBits]
    BY <1>2, <1>3, LoaderAssumption, FileAssumption
<1>5. \A k \in 0 .. WordBits : ShiftedOne[k] \in Nat /\ ShiftedOne[k] > 0
    BY ShiftedOnePositive, WordBitsNat
<1>6. QED BY <1>2, <1>4, <1>5, WordBitsNat, RoundedUpFacts

LEMMA NoEntries == DOMAIN << >> = {}
    OBVIOUS

LEMMA OperandBytesFacts ==
    /\ \A op : OperandBytes(op) \in {0, 1, 4}
    /\ \A op : Name(op) \in Branches => OperandBytes(op) = 4
    BY DEF OperandBytes, WordOperand

LEMMA SizeIs == \A k : Size(k) \in {1, 2}
    BY DEF Size

LEMMA ErrorCodes ==
    {VM_NO_ERROR, VM_FAILED_TO_LOAD_BYTECODE, VM_MALLOC_FAILED, VM_PC_OUT_OF_RANGE,
     VM_BAD_INSTRUCTION, VM_JUMP_TO_INVALID_INSTRUCTION} \subseteq vmErrorCode_t
    BY DEF vmErrorCode_t, VM_NO_ERROR, VM_FAILED_TO_LOAD_BYTECODE,
           VM_MALLOC_FAILED, VM_PC_OUT_OF_RANGE, VM_BAD_INSTRUCTION,
           VM_JUMP_TO_INVALID_INSTRUCTION

(* The second loop goes on by one instruction.                              *)
LEMMA LoopGoesOn ==
    ASSUME NEW r \in [pass : {"expand", "resolve"}, bytePc : Nat, intPc : Nat,
                      instruction : Nat],
           NEW j \in Nat, NEW s,
           s = [r EXCEPT !.instruction = @ + 1, !.intPc = @ + j]
    PROVE  /\ s.instruction = r.instruction + 1 /\ s.intPc = r.intPc + j
           /\ s.pass = r.pass
           /\ s \in [pass : {"expand", "resolve"}, bytePc : Nat, intPc : Nat,
                     instruction : Nat]
<1>1. r = [pass |-> r.pass, bytePc |-> r.bytePc, intPc |-> r.intPc,
           instruction |-> r.instruction]
    OBVIOUS
<1>2. s = [pass |-> r.pass, bytePc |-> r.bytePc, intPc |-> r.intPc + j,
           instruction |-> r.instruction + 1]
    BY <1>1
<1>3. r.intPc + j \in Nat /\ r.instruction + 1 \in Nat
    OBVIOUS
<1>4. QED BY <1>2, <1>3

LEMMA StartIs ==
    ASSUME NEW pass \in {"expand", "resolve"}
    PROVE  /\ Start(pass) \in [pass : {"expand", "resolve"}, bytePc : Nat,
                               intPc : Nat, instruction : Nat]
           /\ Start(pass).pass = pass /\ Start(pass).bytePc = 0
           /\ Start(pass).intPc = 0 /\ Start(pass).instruction = 0
    BY DEF Start

-----------------------------------------------------------------------------

LEMMA LoaderInitInv == Init => LoaderInv
<1> SUFFICES ASSUME Init PROVE LoaderInv
    OBVIOUS
<1>1. LoaderTypeOK
    <2>1. DOMAIN instructionPointers = {} /\ DOMAIN codeBase = {}
        BY NoEntries DEF Init
    <2>2. lastError \in vmErrorCode_t /\ reported \in vmErrorCode_t
        BY ErrorCodes DEF Init
    <2>3. QED BY <2>1, <2>2, StartIs DEF Init, LoaderTypeOK
<1>2. HeaderFollowed /\ BlocksByPhase
    BY DEF Init, HeaderFollowed, BlocksByPhase, HeaderAccepted, CodeTaken, Loaded
<1>3. Progress
    BY NoEntries DEF Init, Progress, Loaded
<1>4. WalkBounded /\ LookupBounded
    BY StartIs DEF Init, WalkBounded, LookupBounded
<1>5. QED BY <1>1, <1>2, <1>3, <1>4 DEF LoaderInv

(* What the invariant says of creating and codeLength.                      *)
LEMMA NotLoaded ==
    ASSUME LoaderInv, creating # "no" \/ codeLength = 0
    PROVE  ~ Loaded /\ programStack = 0
    BY DEF LoaderInv, HeaderFollowed, Loaded

(* A step of VM_Create that fails: whatever it wrote stays typed and nothing *)
(* else is said of a vm_t about to be freed.                                *)
LEMMA FailStep ==
    ASSUME LoaderInv, Fails, creating # "no", LoaderTypeOK',
           UNCHANGED loop,
           \A k \in DOMAIN instructionPointers' :
              instructionPointers'[k] \in 0 .. codeLength' - 1
    PROVE  LoaderInv'
<1>1. creating' = "failed" /\ UNCHANGED << file, live, owned, programStack, mode >>
    BY DEF Fails, blocks
<1>2. HeaderFollowed'
    BY <1>1, NotLoaded DEF HeaderFollowed, HeaderAccepted, CodeTaken, Loaded
<1>3. BlocksByPhase'
    BY <1>1 DEF LoaderInv, BlocksByPhase, Loaded
<1>4. Progress'
    BY <1>1 DEF Progress, Loaded, TablesEmpty
<1>5. WalkBounded' /\ LookupBounded'
    BY <1>1 DEF LoaderInv, WalkBounded, LookupBounded
<1>6. QED BY <1>2, <1>3, <1>4, <1>5 DEF LoaderInv

(* VM_Free leaves the zeroed vm_t that VM_Create begins with.                *)
LEMMA FreeStep ==
    ASSUME LoaderInv, FreeAll, creating' = "no", UNCHANGED << file, reported, loop, mode >>
    PROVE  LoaderInv'
<1>1. LoaderTypeOK'
    <2>1. DOMAIN instructionPointers' = {} /\ DOMAIN codeBase' = {}
        BY NoEntries DEF FreeAll
    <2>2. lastError' \in vmErrorCode_t
        BY ErrorCodes DEF FreeAll
    <2>3. live' \subseteq AllocTypes /\ owned' \subseteq AllocTypes
        BY DEF FreeAll, LoaderInv, LoaderTypeOK
    <2>4. QED BY <2>1, <2>2, <2>3 DEF FreeAll, LoaderInv, LoaderTypeOK
<1>2. live' = {} /\ owned' = {}
    BY DEF FreeAll, LoaderInv, BlocksByPhase
<1>3. HeaderFollowed' /\ BlocksByPhase'
    BY <1>2 DEF FreeAll, HeaderFollowed, BlocksByPhase, HeaderAccepted, CodeTaken, Loaded
<1>4. Progress'
    BY NoEntries DEF FreeAll, Progress, Loaded
<1>5. WalkBounded' /\ LookupBounded'
    BY DEF LoaderInv, WalkBounded, LookupBounded
<1>6. QED BY <1>1, <1>3, <1>4, <1>5 DEF LoaderInv

LEMMA CreateBeginStep == LoaderInv /\ CreateBegin => LoaderInv'
<1> SUFFICES ASSUME LoaderInv, CreateBegin PROVE LoaderInv'
    OBVIOUS
<1>1. /\ creating = "no" /\ codeLength = 0 /\ creating' = "load"
      /\ UNCHANGED << reported, live, codeLength, instructionPointers, codeBase,
                      programStack, loop, mode >>
      /\ owned' = {} /\ mode = "ok"
    BY DEF CreateBegin, Going
<1>2. instructionPointers = << >> /\ codeBase = << >>
    BY <1>1 DEF LoaderInv, Progress, TablesEmpty
<1>3. DOMAIN instructionPointers = {} /\ DOMAIN codeBase = {}
    BY <1>2, NoEntries
<1>4. LoaderTypeOK'
    <2>1. lastError' \in vmErrorCode_t
        BY ErrorCodes DEF CreateBegin
    <2>2. DOMAIN instructionPointers' = {} /\ DOMAIN codeBase' = {}
        BY <1>1, <1>3
    <2>3. file' \in Files /\ instructionCount' = 0 /\ dataMask' = 0 /\ dataAlloc' = 0
        BY DEF CreateBegin
    <2>4. QED BY <1>1, <2>1, <2>2, <2>3 DEF LoaderInv, LoaderTypeOK
<1>5. HeaderFollowed'
    BY <1>1, NotLoaded DEF HeaderFollowed, HeaderAccepted, CodeTaken, Loaded
<1>6. BlocksByPhase'
    BY <1>1 DEF LoaderInv, BlocksByPhase, Loaded
<1>7. Progress'
    BY <1>1, <1>2, <1>3 DEF Progress, Loaded
<1>8. WalkBounded' /\ LookupBounded'
    BY <1>1 DEF LoaderInv, WalkBounded, LookupBounded
<1>9. QED BY <1>4, <1>5, <1>6, <1>7, <1>8 DEF LoaderInv

-----------------------------------------------------------------------------
(* VM_LoadQVM and the allocations.                                          *)

LEMMA BadHeaderStep == LoaderInv /\ BadHeader => LoaderInv'
<1> SUFFICES ASSUME LoaderInv, BadHeader PROVE LoaderInv'
    OBVIOUS
<1>1. /\ Fails /\ creating = "load"
      /\ UNCHANGED << code, data, loop >>
    BY DEF BadHeader, FailStoring, Going
<1>2. lastError' \in vmErrorCode_t /\ reported' \in vmErrorCode_t
    BY ErrorCodes DEF BadHeader, FailStoring
<1>3. LoaderTypeOK'
    BY <1>1, <1>2 DEF LoaderInv, LoaderTypeOK, Fails, code, data, blocks
<1>4. \A k \in DOMAIN instructionPointers' :
         instructionPointers'[k] \in 0 .. codeLength' - 1
    BY <1>1 DEF LoaderInv, Progress, code
<1>5. QED BY <1>1, <1>3, <1>4, FailStep

LEMMA LoadDataStep == LoaderInv /\ LoadData => LoaderInv'
<1> SUFFICES ASSUME LoaderInv, LoadData PROVE LoaderInv'
    OBVIOUS
<1>1. /\ creating = "load" /\ GoodHeader(header, file.length)
      /\ dataMask' = RoundedUp(DataLength(header)) - 1
      /\ dataAlloc' = RoundedUp(DataLength(header)) + 4
      /\ UNCHANGED << code, loop >>
      /\ file \in Files
    BY DEF LoadData, Going, LoaderInv, LoaderTypeOK
<1>2. dataMask' \in Nat /\ dataAlloc' \in Nat
    BY <1>1, ImageSize DEF header
<1>3. UNCHANGED << codeLength, instructionCount, instructionPointers, codeBase >>
    BY <1>1 DEF code
<1>4. ASSUME Take("VM_ALLOC_DATA_SEC"), creating' = "pointers",
             UNCHANGED << file, errors, programStack, mode >>
      PROVE  LoaderInv'
    <2>1. owned = {} /\ live = {}
        BY <1>1 DEF LoaderInv, BlocksByPhase
    <2>2. owned' = {"VM_ALLOC_DATA_SEC"} /\ live' = {"VM_ALLOC_DATA_SEC"}
        BY <1>4, <2>1 DEF Take
    <2>3. LoaderTypeOK'
        BY <1>1, <1>2, <1>3, <1>4, <2>2
        DEF LoaderInv, LoaderTypeOK, errors, AllocTypes
    <2>4. HeaderFollowed'
        BY <1>1, <1>3, <1>4, NotLoaded
        DEF LoaderInv, HeaderFollowed, HeaderAccepted, CodeTaken, Loaded, header
    <2>5. BlocksByPhase'
        BY <1>4, <2>2 DEF BlocksByPhase, Loaded
    <2>6. Progress'
        BY <1>1, <1>3, <1>4 DEF LoaderInv, Progress, Loaded, TablesEmpty
    <2>7. WalkBounded' /\ LookupBounded'
        BY <1>1, <1>4 DEF LoaderInv, WalkBounded, LookupBounded
    <2>8. QED BY <2>3, <2>4, <2>5, <2>6, <2>7 DEF LoaderInv
<1>5. CASE FailStoring(VM_FAILED_TO_LOAD_BYTECODE)
    <2>1. Fails /\ lastError' \in vmErrorCode_t /\ reported' \in vmErrorCode_t
        BY <1>5, ErrorCodes DEF FailStoring
    <2>2. LoaderTypeOK'
        BY <1>1, <1>2, <1>3, <2>1 DEF LoaderInv, LoaderTypeOK, Fails, blocks
    <2>3. \A k \in DOMAIN instructionPointers' :
             instructionPointers'[k] \in 0 .. codeLength' - 1
        BY <1>3 DEF LoaderInv, Progress
    <2>4. QED BY <1>1, <2>1, <2>2, <2>3, FailStep
<1>6. QED BY <1>4, <1>5 DEF LoadData

LEMMA AllocatePointersStep == LoaderInv /\ AllocatePointers => LoaderInv'
<1> SUFFICES ASSUME LoaderInv, AllocatePointers PROVE LoaderInv'
    OBVIOUS
<1>1. /\ creating = "pointers" /\ instructionCount' = header.instructionCount
      /\ UNCHANGED << instructionPointers, codeBase, data, loop >>
      /\ codeLength = 0
    BY DEF AllocatePointers, Going, LoaderInv, HeaderFollowed
<1>2. instructionPointers = << >> /\ codeBase = << >>
    BY <1>1 DEF LoaderInv, Progress, TablesEmpty
<1>3. DOMAIN instructionPointers' = {} /\ DOMAIN codeBase' = {}
    BY <1>1, <1>2, NoEntries
<1>4. /\ file \in Files /\ GoodHeader(header, file.length)
      /\ dataMask = RoundedUp(DataLength(header)) - 1
    BY <1>1 DEF LoaderInv, LoaderTypeOK, HeaderFollowed, HeaderAccepted
<1>5. /\ header.codeLength \in Nat /\ header.codeLength > 0
      /\ header.instructionCount \in Nat
    BY <1>4, Accepted DEF header
<1>6. ASSUME Take("VM_ALLOC_INSTRUCTION_POINTERS"), codeLength' = header.codeLength,
             creating' = "prepare", UNCHANGED << file, errors, programStack, mode >>
      PROVE  LoaderInv'
    <2>1. owned = {"VM_ALLOC_DATA_SEC"} /\ live = {"VM_ALLOC_DATA_SEC"}
        BY <1>1 DEF LoaderInv, BlocksByPhase
    <2>2. /\ owned' = {"VM_ALLOC_DATA_SEC", "VM_ALLOC_INSTRUCTION_POINTERS"}
          /\ live' = owned'
        BY <1>6, <2>1 DEF Take
    <2>3. LoaderTypeOK'
        BY <1>1, <1>3, <1>5, <1>6, <2>2
        DEF LoaderInv, LoaderTypeOK, errors, AllocTypes, data
    <2>4. HeaderFollowed'
        BY <1>1, <1>4, <1>6, NotLoaded
        DEF LoaderInv, HeaderFollowed, HeaderAccepted, CodeTaken, Loaded, header, data
    <2>5. BlocksByPhase'
        BY <1>6, <2>2 DEF BlocksByPhase, Loaded
    <2>6. Progress'
        BY <1>1, <1>2, <1>3, <1>6 DEF Progress, Loaded, TablesEmpty
    <2>7. WalkBounded' /\ LookupBounded'
        BY <1>1, <1>6 DEF LoaderInv, WalkBounded, LookupBounded
    <2>8. QED BY <2>3, <2>4, <2>5, <2>6, <2>7 DEF LoaderInv
<1>7. CASE FailStoring(VM_MALLOC_FAILED) /\ UNCHANGED codeLength
    <2>1. Fails /\ lastError' \in vmErrorCode_t /\ reported' \in vmErrorCode_t
        BY <1>7, ErrorCodes DEF FailStoring
    <2>2. LoaderTypeOK'
        BY <1>1, <1>3, <1>5, <1>7, <2>1
        DEF LoaderInv, LoaderTypeOK, Fails, blocks, data
    <2>3. \A k \in DOMAIN instructionPointers' :
             instructionPointers'[k] \in 0 .. codeLength' - 1
        BY <1>3
    <2>4. QED BY <1>1, <2>1, <2>2, <2>3, FailStep
<1>8. QED BY <1>6, <1>7 DEF AllocatePointers

(* The bytes copied to codeBase are words.                                  *)
LEMMA CopyIsWords ==
    ASSUME NEW f \in Files, GoodHeader(f.header, f.length),
           NEW n \in 0 .. (f.header.codeLength \div 4) - 1
    PROVE  /\ WordAt(f.bytes, f.header.codeOffset + 4 * n) \in Word
           /\ n < f.header.codeLength
<1> DEFINE len == f.header.codeLength
           at == f.header.codeOffset + 4 * n
<1>1. len \in Nat /\ f.header.codeOffset \in Nat
      /\ \A k \in 0 .. len - 1 : f.bytes[f.header.codeOffset + k] \in Byte
    BY Accepted
<1>2. n \in Nat /\ 4 * n + 3 <= len - 1
    BY <1>1
<1>3. /\ f.bytes[f.header.codeOffset + (4 * n)] \in Byte
      /\ f.bytes[f.header.codeOffset + (4 * n + 1)] \in Byte
      /\ f.bytes[f.header.codeOffset + (4 * n + 2)] \in Byte
      /\ f.bytes[f.header.codeOffset + (4 * n + 3)] \in Byte
    BY <1>1, <1>2
<1>4. at \in Int /\ f.header.codeOffset + (4 * n) = at
      /\ f.header.codeOffset + (4 * n + 1) = at + 1
      /\ f.header.codeOffset + (4 * n + 2) = at + 2
      /\ f.header.codeOffset + (4 * n + 3) = at + 3
    BY <1>1, <1>2
<1>5. f.bytes[at] \in Byte /\ f.bytes[at + 1] \in Byte /\ f.bytes[at + 2] \in Byte
      /\ f.bytes[at + 3] \in Byte
    BY <1>3, <1>4
<1>6. WordAt(f.bytes, at) \in Word
    <2> HIDE DEF at
    <2>1. QED BY <1>4, <1>5, WordAtFacts
<1>7. QED BY <1>1, <1>2, <1>6

LEMMA AllocateCodeStep == LoaderInv /\ AllocateCode => LoaderInv'
<1> SUFFICES ASSUME LoaderInv, AllocateCode PROVE LoaderInv'
    OBVIOUS
<1>1. /\ creating = "prepare"
      /\ UNCHANGED << codeLength, instructionCount, instructionPointers, data >>
    BY DEF AllocateCode, Going
<1>2. instructionPointers = << >> /\ codeBase = << >>
    BY <1>1 DEF LoaderInv, Progress, TablesEmpty
<1>3. DOMAIN instructionPointers' = {} /\ DOMAIN codeBase = {}
    BY <1>1, <1>2, NoEntries
<1>4. /\ file \in Files /\ GoodHeader(header, file.length)
      /\ dataMask = RoundedUp(DataLength(header)) - 1
      /\ codeLength = header.codeLength /\ instructionCount = header.instructionCount
    BY <1>1
    DEF LoaderInv, LoaderTypeOK, HeaderFollowed, HeaderAccepted, CodeTaken
<1>5. instructionCount \in Nat /\ instructionCount > 0
    BY <1>4, Accepted DEF header
<1>6. ASSUME Take("VM_ALLOC_CODE_SEC"), loop' = Start("expand"),
             codeBase' = [n \in 0 .. (codeLength \div 4) - 1 |->
                             WordAt(file.bytes, CodeAt(4 * n))],
             creating' = "translate", UNCHANGED << file, errors, programStack, mode >>
      PROVE  LoaderInv'
    <2>1. /\ live' = owned' /\ owned' = AllocTypes
        BY <1>1, <1>6 DEF LoaderInv, BlocksByPhase, Take, AllocTypes
    <2>2. DOMAIN codeBase' \subseteq 0 .. codeLength - 1
        <3>1. codeLength \in Nat
            BY <1>4, Accepted DEF header
        <3>2. 0 .. (codeLength \div 4) - 1 \subseteq 0 .. codeLength - 1
            BY <3>1
        <3>3. QED BY <1>6, <3>2
    <2>3. \A n \in DOMAIN codeBase' : codeBase'[n] \in Word
        BY <1>4, <1>6, CopyIsWords DEF header, CodeAt
    <2>4. LoaderTypeOK'
        BY <1>1, <1>3, <1>6, <2>1, <2>2, <2>3, StartIs
        DEF LoaderInv, LoaderTypeOK, errors, data
    <2>5. HeaderFollowed'
        BY <1>1, <1>4, <1>6, NotLoaded
        DEF HeaderFollowed, HeaderAccepted, CodeTaken, Loaded, header, data
    <2>6. BlocksByPhase'
        BY <1>6, <2>1 DEF BlocksByPhase, Loaded
    <2>7. loop'.instruction = 0 /\ loop'.intPc = 0 /\ loop'.bytePc = 0
          /\ loop'.pass = "expand"
        BY <1>6, StartIs
    <2>8. DOMAIN instructionPointers' = 0 .. loop'.instruction - 1
        BY <1>3, <2>7
    <2>9. Laid(loop.instruction)' /\ Ends(loop.instruction, loop.intPc)'
        BY <2>7 DEF Laid, Ends
    <2>10. Progress'
        BY <1>1, <1>3, <1>5, <1>6, <2>7, <2>8, <2>9 DEF Progress, Loaded, TablesEmpty
    <2>11. WalkBounded' /\ LookupBounded'
        BY <1>1, <1>6, <2>7 DEF LoaderInv, LoaderTypeOK, WalkBounded, LookupBounded
    <2>12. QED BY <2>4, <2>5, <2>6, <2>10, <2>11 DEF LoaderInv
<1>7. CASE /\ Fails /\ reported' = VM_MALLOC_FAILED
           /\ UNCHANGED << lastError, codeBase, loop >>
    <2>1. reported' \in vmErrorCode_t
        BY <1>7, ErrorCodes
    <2>2. LoaderTypeOK'
        BY <1>1, <1>3, <1>7, <2>1 DEF LoaderInv, LoaderTypeOK, Fails, blocks, data
    <2>3. QED BY <1>1, <1>3, <1>7, <2>2, FailStep
<1>8. QED BY <1>6, <1>7 DEF AllocateCode

-----------------------------------------------------------------------------
(* The first loop.                                                          *)

(* What the invariant says where the first loop stands.                     *)
LEMMA Expanding ==
    ASSUME LoaderInv, creating = "translate", loop.pass = "expand"
    PROVE  /\ file \in Files /\ GoodHeader(header, file.length)
           /\ dataMask = RoundedUp(DataLength(header)) - 1
           /\ codeLength = header.codeLength
           /\ instructionCount = header.instructionCount
           /\ codeLength \in Nat /\ instructionCount \in Nat /\ instructionCount > 0
           /\ loop.instruction \in Nat /\ loop.instruction <= instructionCount
           /\ loop.intPc \in Nat /\ loop.bytePc \in Nat
           /\ DOMAIN instructionPointers = 0 .. loop.instruction - 1
           /\ Laid(loop.instruction) /\ Ends(loop.instruction, loop.intPc)
           /\ \A k \in DOMAIN instructionPointers :
                 instructionPointers[k] \in 0 .. codeLength - 1
           /\ DOMAIN codeBase \subseteq 0 .. codeLength - 1
           /\ \A n \in DOMAIN codeBase : codeBase[n] \in Word
           /\ ~ Loaded
           /\ live = owned /\ owned = AllocTypes
<1>1. /\ file \in Files /\ GoodHeader(header, file.length)
      /\ dataMask = RoundedUp(DataLength(header)) - 1
      /\ codeLength = header.codeLength /\ instructionCount = header.instructionCount
    BY DEF LoaderInv, LoaderTypeOK, HeaderFollowed, HeaderAccepted, CodeTaken
<1>2. codeLength \in Nat /\ instructionCount \in Nat /\ instructionCount > 0
    BY <1>1, Accepted DEF header
<1>3. loop.instruction \in Nat /\ loop.intPc \in Nat /\ loop.bytePc \in Nat
    BY DEF LoaderInv, LoaderTypeOK
<1>4. QED
    BY <1>1, <1>2, <1>3
    DEF LoaderInv, LoaderTypeOK, Progress, BlocksByPhase, Loaded

(* The entry, the opcode and the operand of one more instruction, as the    *)
(* loop writes them.                                                        *)
LEMMA OneMoreLaid ==
    ASSUME LoaderInv, creating = "translate", loop.pass = "expand",
           NEW op, NEW n, n = OperandBytes(op), NEW operand,
           instructionPointers' =
               Stored(instructionPointers, loop.instruction, loop.intPc),
           codeBase' =
               IF n = 0 THEN Stored(codeBase, loop.intPc, op)
               ELSE Stored(Stored(codeBase, loop.intPc, op), loop.intPc + 1, operand),
           loop'.instruction = loop.instruction + 1,
           loop'.intPc = loop.intPc + IF n = 0 THEN 1 ELSE 2
    PROVE  /\ DOMAIN instructionPointers' = 0 .. loop'.instruction - 1
           /\ Laid(loop.instruction)' /\ Ends(loop.instruction, loop.intPc)'
<1>0. PICK i \in Nat, pc \in Nat : i = loop.instruction /\ pc = loop.intPc
    BY Expanding
<1>1. /\ DOMAIN instructionPointers = 0 .. i - 1
      /\ Laid(i) /\ Ends(i, pc)
      /\ \A k \in 0 .. i - 1 : instructionPointers[k] \in Nat
    BY <1>0, Expanding
<1>2. /\ DOMAIN instructionPointers' = 0 .. i
      /\ instructionPointers'[i] = pc
      /\ \A k \in 0 .. i - 1 : instructionPointers'[k] = instructionPointers[k]
    <2>1. /\ DOMAIN instructionPointers' = (0 .. i - 1) \cup {i}
          /\ instructionPointers'[i] = pc
          /\ \A k \in 0 .. i - 1 : k # i => instructionPointers'[k] = instructionPointers[k]
        BY <1>0, <1>1 DEF Stored
    <2>2. (0 .. i - 1) \cup {i} = 0 .. i
        BY <1>1
    <2>3. QED BY <1>1, <2>1, <2>2
<1>3. n \in {0, 1, 4}
    BY OperandBytesFacts
<1>4. /\ DOMAIN codeBase \subseteq DOMAIN codeBase' /\ pc \in DOMAIN codeBase'
      /\ codeBase'[pc] = op
      /\ n # 0 => pc + 1 \in DOMAIN codeBase'
      /\ \A x \in DOMAIN codeBase : x < pc => codeBase'[x] = codeBase[x]
    <2> DEFINE one == Stored(codeBase, pc, op)
    <2>0. codeBase' = IF n = 0 THEN one ELSE Stored(one, pc + 1, operand)
        BY <1>0
    <2>1. /\ DOMAIN one = DOMAIN codeBase \cup {pc}
          /\ one[pc] = op
          /\ \A x \in DOMAIN codeBase : x # pc => one[x] = codeBase[x]
        BY DEF Stored
    <2>2. CASE n = 0
        BY <1>1, <2>0, <2>1, <2>2
    <2>3. CASE n # 0
        <3> HIDE DEF one
        <3>1. /\ DOMAIN codeBase' = DOMAIN one \cup {pc + 1}
              /\ \A x \in DOMAIN one : x # pc + 1 => codeBase'[x] = one[x]
            BY <2>0, <2>3 DEF Stored
        <3>2. pc # pc + 1 /\ \A x \in DOMAIN codeBase : x < pc => x # pc + 1
            BY <1>1
        <3>3. QED BY <1>1, <2>1, <3>1, <3>2
    <2>4. QED BY <2>2, <2>3
<1>5. Size(i)' = IF n = 0 THEN 1 ELSE 2
    BY <1>2, <1>3, <1>4 DEF Size
<1>6. ASSUME NEW k \in 0 .. i - 1
      PROVE  /\ instructionPointers'[k] = instructionPointers[k]
             /\ instructionPointers[k] \in DOMAIN codeBase'
             /\ Size(k)' = Size(k)
             /\ Size(k) = 2 => instructionPointers[k] + 1 \in DOMAIN codeBase'
             /\ instructionPointers[k] + Size(k) <= pc
             /\ Size(k) \in {1, 2}
    <2>1. instructionPointers[k] + Size(k) <= pc /\ Size(k) \in {1, 2}
          /\ instructionPointers[k] \in DOMAIN codeBase
        BY <1>1, SizeIs DEF Ends, Laid
    <2>2. instructionPointers[k] < pc
        BY <1>1, <2>1
    <2>3. Size(k)' = Size(k)
        BY <1>2, <1>4, <2>1, <2>2 DEF Size
    <2>4. QED BY <1>1, <1>2, <1>4, <2>1, <2>3 DEF Laid
<1>7. \A k \in 0 .. i : k = i \/ k \in 0 .. i - 1
    BY <1>1
<1>8. Laid(i + 1)'
    <2>1. ASSUME NEW k \in 0 .. i
          PROVE  /\ instructionPointers'[k] \in DOMAIN codeBase'
                 /\ Size(k)' = 2 => instructionPointers'[k] + 1 \in DOMAIN codeBase'
        BY <1>2, <1>4, <1>5, <1>6, <1>7
    <2>2. ASSUME NEW j \in 0 .. i, NEW k \in 0 .. i, j < k
          PROVE  instructionPointers'[j] + Size(j)' <= instructionPointers'[k]
        <3>1. j \in 0 .. i - 1
            BY <1>1, <2>2
        <3>2. CASE k = i
            BY <1>2, <1>6, <3>1, <3>2
        <3>3. CASE k # i
            <4>1. k \in 0 .. i - 1
                BY <1>7, <3>3
            <4>2. instructionPointers[j] + Size(j) <= instructionPointers[k]
                BY <1>1, <2>2, <3>1, <4>1 DEF Laid
            <4>3. QED BY <1>6, <3>1, <4>1, <4>2
        <3>4. QED BY <3>2, <3>3
    <2>3. ASSUME NEW k \in 0 .. i - 1
          PROVE  instructionPointers'[k + 1] = instructionPointers'[k] + Size(k)'
        <3>1. CASE k = i - 1
            <4>1. pc = instructionPointers[i - 1] + Size(i - 1)
                BY <1>1 DEF Ends
            <4>2. k + 1 = i
                BY <1>1, <3>1
            <4>3. QED BY <1>2, <1>6, <3>1, <4>1, <4>2
        <3>2. CASE k # i - 1
            <4>1. k \in 0 .. i - 2 /\ k + 1 \in 0 .. i - 1
                BY <1>1, <3>2
            <4>2. instructionPointers[k + 1] = instructionPointers[k] + Size(k)
                BY <1>1, <4>1 DEF Laid
            <4>3. QED BY <1>2, <1>6, <4>1, <4>2
        <3>3. QED BY <3>1, <3>2
    <2>4. instructionPointers'[0] = 0
        <3>1. CASE i = 0
            BY <1>1, <1>2, <3>1 DEF Ends
        <3>2. CASE i # 0
            BY <1>1, <1>2, <3>2 DEF Laid
        <3>3. QED BY <3>1, <3>2
    <2>5. i + 1 - 1 = i /\ i + 1 - 2 = i - 1
        BY <1>1
    <2>6. QED BY <2>1, <2>2, <2>3, <2>4, <2>5 DEF Laid
<1>9. Ends(i + 1, pc + IF n = 0 THEN 1 ELSE 2)'
    <2>1. ASSUME NEW k \in 0 .. i
          PROVE  instructionPointers'[k] + Size(k)' <= pc + IF n = 0 THEN 1 ELSE 2
        <3>1. CASE k = i
            BY <1>1, <1>2, <1>5, <3>1
        <3>2. CASE k # i
            <4>1. k \in 0 .. i - 1
                BY <1>7, <3>2
            <4>2. instructionPointers[k] \in Nat /\ Size(k) \in {1, 2}
                  /\ instructionPointers[k] + Size(k) <= pc
                BY <1>1, <1>6, <4>1
            <4>3. instructionPointers'[k] + Size(k)' <= pc
                BY <1>6, <4>1
            <4>4. instructionPointers'[k] + Size(k)' \in Int
                BY <1>6, <4>1, <4>2
            <4>5. QED BY <4>3, <4>4
        <3>3. QED BY <3>1, <3>2
    <2>2. i + 1 - 1 = i /\ i + 1 # 0
        BY <1>1
    <2>3. QED BY <1>2, <1>5, <2>1, <2>2 DEF Ends
<1>10. QED
    <2>1. loop'.instruction = i + 1 /\ loop'.intPc = pc + IF n = 0 THEN 1 ELSE 2
        BY <1>0
    <2>2. 0 .. i = 0 .. loop'.instruction - 1
        BY <1>1, <2>1
    <2>3. QED BY <1>2, <1>8, <1>9, <2>1, <2>2 DEF Laid, Ends

(* A byte of the file that can be read is a byte, an operand a word.         *)
LEMMA ReadByte ==
    ASSUME file \in Files, header.codeOffset \in Nat, NEW pc \in Nat, NEW n \in Nat,
           CanRead(pc, n), NEW k \in 0 .. n - 1
    PROVE  file.bytes[CodeAt(pc) + k] \in Byte
<1>1. header.codeOffset + (pc + k) \in DOMAIN file.bytes
    BY DEF CanRead, CodeAt
<1>2. header.codeOffset + (pc + k) = CodeAt(pc) + k
    BY DEF CodeAt
<1>3. CodeAt(pc) + k \in DOMAIN file.bytes
    BY <1>1, <1>2
<1>4. QED BY <1>3, Fields

LEMMA OperandIsWord ==
    ASSUME file \in Files, header.codeOffset \in Nat, loop.bytePc \in Nat,
           NEW n \in {1, 4}, CanRead(loop.bytePc + 1, n)
    PROVE  Operand(n) \in Word
<1> DEFINE a == CodeAt(loop.bytePc + 1)
<1>1. loop.bytePc + 1 \in Nat /\ a \in Int
    BY DEF CodeAt
<1>2. ASSUME NEW k \in 0 .. n - 1 PROVE file.bytes[a + k] \in Byte
    BY <1>1, ReadByte
<1>3. file.bytes[a] \in Byte
    <2>1. 0 \in 0 .. n - 1 /\ a + 0 = a
        BY <1>1
    <2>2. file.bytes[a + 0] \in Byte
        BY <1>2, <2>1
    <2>3. QED BY <2>1, <2>2
<1>4. CASE n = 1
    <2>1. Operand(n) = file.bytes[a]
        BY <1>4 DEF Operand
    <2>2. QED BY <1>3, <2>1, SmallWords
<1>5. CASE n = 4
    <2>1. 1 \in 0 .. n - 1 /\ 2 \in 0 .. n - 1 /\ 3 \in 0 .. n - 1
        BY <1>5
    <2>2. /\ file.bytes[a + 1] \in Byte /\ file.bytes[a + 2] \in Byte
          /\ file.bytes[a + 3] \in Byte
        BY <1>2, <2>1
    <2> HIDE DEF a
    <2>3. WordAt(file.bytes, a) \in Word
        BY <1>1, <1>3, <2>2, WordAtFacts
    <2>4. QED BY <1>5, <2>3 DEF Operand, a
<1>6. QED BY <1>4, <1>5

LEMMA ExpandStep == LoaderInv /\ Expand => LoaderInv'
<1> SUFFICES ASSUME LoaderInv, Expand PROVE LoaderInv'
    OBVIOUS
<1> DEFINE pc  == loop.bytePc
           op  == file.bytes[CodeAt(pc)]
           n   == OperandBytes(op)
           one == Stored(codeBase, loop.intPc, op)
<1>1. /\ creating = "translate" /\ loop.pass = "expand"
      /\ loop.instruction < instructionCount
      /\ CanRead(pc, 1) /\ CanWrite(loop.intPc)
      /\ instructionPointers' =
             Stored(instructionPointers, loop.instruction, loop.intPc)
      /\ UNCHANGED << codeLength, instructionCount, data >>
    BY DEF Expand, InLoop, Going
<1>2. /\ file \in Files /\ GoodHeader(header, file.length)
      /\ codeLength = header.codeLength
      /\ codeLength \in Nat /\ instructionCount \in Nat
      /\ loop.instruction \in Nat /\ loop.intPc \in Nat /\ pc \in Nat
      /\ DOMAIN instructionPointers = 0 .. loop.instruction - 1
      /\ DOMAIN codeBase \subseteq 0 .. codeLength - 1
      /\ \A k \in DOMAIN codeBase : codeBase[k] \in Word
      /\ \A k \in DOMAIN instructionPointers :
            instructionPointers[k] \in 0 .. codeLength - 1
    BY <1>1, Expanding
<1>3. header.codeOffset \in Nat
    BY <1>2, Accepted DEF header
<1>4. op \in Word
    <2>1. 0 \in 0 .. 1 - 1 /\ CodeAt(pc) + 0 = CodeAt(pc)
        BY <1>2, <1>3 DEF CodeAt
    <2>2. file.bytes[CodeAt(pc) + 0] \in Byte
        BY <1>1, <1>2, <1>3, <2>1, ReadByte
    <2>3. QED BY <2>1, <2>2, SmallWords
<1>5. /\ DOMAIN one \subseteq 0 .. codeLength - 1
      /\ \A k \in DOMAIN one : one[k] \in Word
    BY <1>1, <1>2, <1>4 DEF Stored, CanWrite
<1>6. /\ DOMAIN instructionPointers' \subseteq 0 .. instructionCount - 1
      /\ \A k \in DOMAIN instructionPointers' :
            instructionPointers'[k] \in 0 .. codeLength - 1
    <2>1. loop.intPc \in 0 .. codeLength - 1
        BY <1>1, <1>2 DEF CanWrite
    <2>2. QED BY <1>1, <1>2, <2>1 DEF Stored
<1>7. n \in {0, 1, 4}
    BY OperandBytesFacts
<1>8. ASSUME Fails, codeBase' = one, lastError' \in vmErrorCode_t,
             reported' \in vmErrorCode_t, UNCHANGED loop
      PROVE  LoaderInv'
    <2>1. LoaderTypeOK'
        BY <1>1, <1>5, <1>6, <1>8 DEF LoaderInv, LoaderTypeOK, Fails, blocks, data
    <2>2. QED BY <1>1, <1>6, <1>8, <2>1, FailStep
<1>9. ASSUME n > 0 => CanRead(pc + 1, n) /\ CanWrite(loop.intPc + 1),
             InsideCode(pc),
             codeBase' = IF n = 0 THEN one
                         ELSE Stored(one, loop.intPc + 1, Operand(n)),
             loop' = [loop EXCEPT !.instruction = @ + 1,
                                  !.bytePc = @ + 1 + n,
                                  !.intPc  = @ + IF n = 0 THEN 1 ELSE 2],
             UNCHANGED << file, creating, errors, blocks, programStack, mode >>
      PROVE  LoaderInv'
    <2>1. /\ DOMAIN codeBase' \subseteq 0 .. codeLength - 1
          /\ \A k \in DOMAIN codeBase' : codeBase'[k] \in Word
        <3>1. CASE n = 0
            BY <1>5, <1>9, <3>1
        <3>2. CASE n # 0
            <4>1. Operand(n) \in Word /\ CanWrite(loop.intPc + 1)
                BY <1>2, <1>3, <1>7, <1>9, <3>2, OperandIsWord
            <4>2. loop.intPc + 1 \in 0 .. codeLength - 1
                BY <1>2, <4>1 DEF CanWrite
            <4>3. codeBase' = Stored(one, loop.intPc + 1, Operand(n))
                BY <1>9, <3>2
            <4> HIDE DEF one, n
            <4>4. QED BY <1>5, <4>1, <4>2, <4>3 DEF Stored
        <3>3. QED BY <3>1, <3>2
    <2>2. /\ loop'.instruction = loop.instruction + 1
          /\ loop'.bytePc = loop.bytePc + 1 + n
          /\ loop'.intPc = loop.intPc + IF n = 0 THEN 1 ELSE 2
          /\ loop'.pass = "expand"
          /\ loop' \in [pass : {"expand", "resolve"}, bytePc : Nat, intPc : Nat,
                        instruction : Nat]
        <3>1. loop \in [pass : {"expand", "resolve"}, bytePc : Nat, intPc : Nat,
                        instruction : Nat]
            BY DEF LoaderInv, LoaderTypeOK
        <3> DEFINE ints == IF n = 0 THEN 1 ELSE 2
        <3>2. ints \in Nat /\ n \in Nat
            BY <1>7
        <3>3. loop' = [loop EXCEPT !.instruction = @ + 1,
                                   !.bytePc = @ + 1 + n, !.intPc = @ + ints]
            BY <1>9
        <3> HIDE DEF n, ints
        <3>4. /\ loop'.instruction = loop.instruction + 1
              /\ loop'.bytePc = loop.bytePc + 1 + n
              /\ loop'.intPc = loop.intPc + ints
              /\ loop'.pass = loop.pass
              /\ loop' \in [pass : {"expand", "resolve"}, bytePc : Nat, intPc : Nat,
                            instruction : Nat]
            <4>1. loop = [pass |-> loop.pass, bytePc |-> loop.bytePc,
                          intPc |-> loop.intPc, instruction |-> loop.instruction]
                BY <3>1
            <4>2. loop' = [pass |-> loop.pass, bytePc |-> loop.bytePc + 1 + n,
                           intPc |-> loop.intPc + ints,
                           instruction |-> loop.instruction + 1]
                BY <3>3, <4>1
            <4>3. /\ loop.bytePc + 1 + n \in Nat /\ loop.intPc + ints \in Nat
                  /\ loop.instruction + 1 \in Nat
                BY <3>1, <3>2
            <4>4. QED BY <3>1, <4>2, <4>3
        <3>5. QED BY <1>1, <3>4 DEF ints
    <2>3. LoaderTypeOK'
        BY <1>1, <1>6, <1>9, <2>1, <2>2
        DEF LoaderInv, LoaderTypeOK, errors, blocks, data
    <2>4. HeaderFollowed' /\ BlocksByPhase'
        BY <1>1, <1>9
        DEF LoaderInv, HeaderFollowed, BlocksByPhase, HeaderAccepted, CodeTaken,
            Loaded, header, data, blocks
    <2>5. Progress'
        <3>1. /\ DOMAIN instructionPointers' = 0 .. loop'.instruction - 1
              /\ Laid(loop.instruction)' /\ Ends(loop.instruction, loop.intPc)'
            BY <1>1, <1>9, <2>2, OneMoreLaid
        <3>2. loop'.instruction <= instructionCount'
            BY <1>1, <1>2, <2>2
        <3>3. QED BY <1>1, <1>6, <1>9, <2>2, <3>1, <3>2 DEF Progress, Loaded, TablesEmpty
    <2>6. WalkBounded'
        <3>1. loop.intPc <= pc /\ pc <= codeLength
            BY <1>1, <1>2, <1>9 DEF LoaderInv, WalkBounded, InsideCode
        <3>2. loop'.intPc <= loop'.bytePc /\ loop'.bytePc <= codeLength' + 5
            <4>1. codeLength' = codeLength /\ codeLength \in Nat
                BY <1>1, <1>2
            <4> HIDE DEF n
            <4>2. CASE n = 0
                BY <1>2, <2>2, <3>1, <4>1, <4>2
            <4>3. CASE n \in {1, 4}
                <5>1. /\ loop'.bytePc = pc + 1 + n /\ loop'.intPc = loop.intPc + 2
                      /\ n \in Nat /\ 1 <= n /\ n <= 4
                    BY <2>2, <4>3
                <5>2. pc \in Nat /\ loop.intPc \in Nat
                    BY <1>2
                <5>3. QED BY <3>1, <4>1, <5>1, <5>2
            <4>4. QED BY <1>7, <4>2, <4>3
        <3>3. QED BY <3>2 DEF WalkBounded
    <2>7. LookupBounded'
        BY <2>2 DEF LookupBounded
    <2>8. QED BY <2>3, <2>4, <2>5, <2>6, <2>7 DEF LoaderInv
<1>10. {VM_PC_OUT_OF_RANGE, VM_BAD_INSTRUCTION} \subseteq vmErrorCode_t
    BY ErrorCodes
<1>11. QED BY <1>8, <1>9, <1>10 DEF Expand, FailStoring

(* The first loop is done: every instruction has its entry.                 *)
LEMMA ExpandedStep == LoaderInv /\ Expanded => LoaderInv'
<1> SUFFICES ASSUME LoaderInv, Expanded PROVE LoaderInv'
    OBVIOUS
<1>1. /\ creating = "translate" /\ loop.pass = "expand"
      /\ loop.instruction = instructionCount /\ loop' = Start("resolve")
      /\ UNCHANGED << file, creating, errors, blocks, code, data, programStack, mode >>
    BY DEF Expanded, InLoop, Going
<1>2. UNCHANGED << codeLength, instructionCount, instructionPointers, codeBase >>
    BY <1>1 DEF code
<1>3. /\ loop'.instruction = 0 /\ loop'.intPc = 0 /\ loop'.pass = "resolve"
      /\ loop' \in [pass : {"expand", "resolve"}, bytePc : Nat, intPc : Nat,
                    instruction : Nat]
    BY <1>1, StartIs
<1>4. LoaderTypeOK'
    BY <1>1, <1>2, <1>3 DEF LoaderInv, LoaderTypeOK, errors, blocks, data
<1>5. HeaderFollowed' /\ BlocksByPhase'
    BY <1>1, <1>2
    DEF LoaderInv, HeaderFollowed, BlocksByPhase, HeaderAccepted, CodeTaken,
        Loaded, header, data, blocks
<1>6. Progress'
    <2>1. /\ instructionCount \in Nat /\ instructionCount > 0
          /\ DOMAIN instructionPointers = 0 .. instructionCount - 1
          /\ Laid(instructionCount)
          /\ \A k \in DOMAIN instructionPointers :
                instructionPointers[k] \in 0 .. codeLength - 1
        BY <1>1, Expanding
    <2>2. Laid(instructionCount)' /\ loop'.intPc = instructionPointers'[loop'.instruction]
        BY <1>2, <1>3, <2>1 DEF Laid, Size
    <2>3. Resolved(loop.instruction)'
        BY <1>3 DEF Resolved
    <2>4. QED BY <1>1, <1>2, <1>3, <2>1, <2>2, <2>3 DEF Progress, Loaded, TablesEmpty
<1>7. WalkBounded' /\ LookupBounded'
    <2>1. mode' = "ok"
        BY DEF Expanded, InLoop, Going
    <2>2. QED BY <1>3, <2>1 DEF WalkBounded, LookupBounded
<1>8. QED BY <1>4, <1>5, <1>6, <1>7 DEF LoaderInv

-----------------------------------------------------------------------------
(* The second loop.                                                         *)

LEMMA Resolving ==
    ASSUME LoaderInv, creating = "translate", loop.pass = "resolve"
    PROVE  /\ file \in Files /\ GoodHeader(header, file.length)
           /\ codeLength \in Nat /\ instructionCount \in Nat /\ instructionCount > 0
           /\ codeLength < W \div 2
           /\ loop.instruction \in Nat /\ loop.instruction <= instructionCount
           /\ DOMAIN instructionPointers = 0 .. instructionCount - 1
           /\ Laid(instructionCount) /\ Resolved(loop.instruction)
           /\ loop.instruction < instructionCount =>
                 loop.intPc = instructionPointers[loop.instruction]
           /\ \A k \in DOMAIN instructionPointers :
                 instructionPointers[k] \in 0 .. codeLength - 1
           /\ \A n \in DOMAIN codeBase : codeBase[n] \in Word
           /\ ~ Loaded
<1>1. /\ file \in Files /\ GoodHeader(header, file.length)
      /\ codeLength = header.codeLength /\ instructionCount = header.instructionCount
    BY DEF LoaderInv, LoaderTypeOK, HeaderFollowed, HeaderAccepted, CodeTaken
<1>2. codeLength \in Nat /\ instructionCount \in Nat /\ instructionCount > 0
    BY <1>1, Accepted DEF header
<1>3. codeLength \in Word
    BY <1>1, Fields DEF header
<1>4. codeLength < W \div 2
    BY <1>2, <1>3, WordIsInt DEF Word
<1>5. loop.instruction \in Nat
    BY DEF LoaderInv, LoaderTypeOK
<1>6. QED
    BY <1>1, <1>2, <1>4, <1>5 DEF LoaderInv, LoaderTypeOK, Progress, Loaded

(* The entries of the table that was filled are the starts.                 *)
LEMMA EntriesAreStarts ==
    ASSUME DOMAIN instructionPointers = 0 .. instructionCount - 1,
           NEW k \in DOMAIN instructionPointers
    PROVE  instructionPointers[k] \in Starts
    BY DEF Starts

(* No start is the operand of an instruction with an operand, and no two     *)
(* instructions share their operand.                                        *)
LEMMA OperandApart ==
    ASSUME NEW n \in Nat, Laid(n),
           \A k \in 0 .. n - 1 : instructionPointers[k] \in Nat,
           NEW i \in 0 .. n - 1, Size(i) = 2, NEW k \in 0 .. n - 1
    PROVE  /\ instructionPointers[k] # instructionPointers[i] + 1
           /\ k # i => instructionPointers[k] + 1 # instructionPointers[i] + 1
<1>1. Size(k) \in {1, 2}
    BY SizeIs
<1>2. CASE k = i
    BY <1>2
<1>3. CASE k < i
    <2>1. instructionPointers[k] + Size(k) <= instructionPointers[i]
        BY <1>3 DEF Laid
    <2>2. QED BY <1>1, <2>1
<1>4. CASE i < k
    <2>1. instructionPointers[i] + Size(i) <= instructionPointers[k]
        BY <1>4 DEF Laid
    <2>2. QED BY <2>1
<1>5. QED BY <1>2, <1>3, <1>4

(* The next instruction begins where the loop steps to.                     *)
LEMMA NextPlace ==
    ASSUME NEW n \in Nat, Laid(n), NEW i \in 0 .. n - 1, i + 1 < n
    PROVE  instructionPointers[i + 1] = instructionPointers[i] + Size(i)
    BY DEF Laid

(* An iteration of the second loop leaves everything but the operand of the *)
(* branch as it is.                                                         *)
LEMMA ResolvedOneMore ==
    ASSUME LoaderInv, creating = "translate", loop.pass = "resolve", mode' = "ok",
           loop.instruction < instructionCount,
           loop' = [loop EXCEPT
                       !.instruction = @ + 1,
                       !.intPc = @ + IF OperandBytes(codeBase[loop.intPc]) > 0
                                     THEN 2 ELSE 1],
           UNCHANGED << file, creating, errors, blocks, programStack, codeLength,
                        instructionCount, instructionPointers, data >>,
           DOMAIN codeBase' = DOMAIN codeBase,
           \A x \in DOMAIN codeBase' : codeBase'[x] \in Word,
           \A x \in DOMAIN codeBase :
              codeBase'[x] = codeBase[x]
              \/ (x = loop.intPc + 1 /\ Name(codeBase[loop.intPc]) \in Branches),
           Name(codeBase[loop.intPc]) \in Branches =>
              codeBase'[loop.intPc + 1] \in Starts
    PROVE  LoaderInv'
<1>0. PICK i \in Nat, pc \in Nat, n \in Nat :
         i = loop.instruction /\ pc = loop.intPc /\ n = instructionCount
    BY Resolving DEF LoaderInv, LoaderTypeOK
<1>1. /\ i \in 0 .. n - 1 /\ instructionPointers[i] = pc
      /\ Laid(n) /\ Resolved(i)
      /\ DOMAIN instructionPointers = 0 .. n - 1
      /\ \A k \in 0 .. n - 1 : instructionPointers[k] \in Nat
                               /\ instructionPointers[k] \in DOMAIN codeBase
      /\ UNCHANGED << instructionPointers, instructionCount, codeLength >>
    BY <1>0, Resolving DEF Laid
<1>2. Size(i) = IF OperandBytes(codeBase[pc]) > 0 THEN 2 ELSE 1
    BY <1>1 DEF Size
<1>3. /\ loop'.instruction = i + 1 /\ loop'.intPc = pc + Size(i)
      /\ loop'.pass = "resolve"
      /\ loop' \in [pass : {"expand", "resolve"}, bytePc : Nat, intPc : Nat,
                    instruction : Nat]
    <2>1. loop \in [pass : {"expand", "resolve"}, bytePc : Nat, intPc : Nat,
                    instruction : Nat]
        BY DEF LoaderInv, LoaderTypeOK
    <2>2. loop' = [loop EXCEPT !.instruction = @ + 1, !.intPc = @ + Size(i)]
        BY <1>0, <1>2
    <2>3. Size(i) \in Nat
        BY SizeIs
    <2>4. /\ loop'.instruction = loop.instruction + 1
          /\ loop'.intPc = loop.intPc + Size(i) /\ loop'.pass = loop.pass
          /\ loop' \in [pass : {"expand", "resolve"}, bytePc : Nat, intPc : Nat,
                        instruction : Nat]
        BY <2>1, <2>2, <2>3, LoopGoesOn
    <2>5. QED BY <1>0, <2>4
<1>4. Name(codeBase[pc]) \in Branches => Size(i) = 2
    BY <1>2, OperandBytesFacts
<1>5. ASSUME NEW k \in 0 .. n - 1
      PROVE  /\ codeBase'[instructionPointers'[k]] = codeBase[instructionPointers[k]]
             /\ Size(k)' = Size(k)
             /\ k # i /\ instructionPointers[k] + 1 \in DOMAIN codeBase =>
                   codeBase'[instructionPointers'[k] + 1]
                      = codeBase[instructionPointers[k] + 1]
    <2>1. instructionPointers'[k] = instructionPointers[k]
          /\ instructionPointers[k] \in DOMAIN codeBase
        BY <1>1
    <2>2. Size(i) = 2 => /\ instructionPointers[k] # pc + 1
                         /\ k # i => instructionPointers[k] + 1 # pc + 1
        BY <1>1, OperandApart
    <2>3. codeBase'[instructionPointers'[k]] = codeBase[instructionPointers[k]]
        BY <1>0, <1>4, <2>1, <2>2
    <2>4. k # i /\ instructionPointers[k] + 1 \in DOMAIN codeBase =>
             codeBase'[instructionPointers'[k] + 1]
                = codeBase[instructionPointers[k] + 1]
        BY <1>0, <1>4, <2>1, <2>2
    <2>5. QED BY <2>3, <2>4 DEF Size
<1>6. Laid(n)'
    BY <1>1, <1>5 DEF Laid
<1>7. Starts' = Starts
    BY <1>1 DEF Starts
<1>8. Resolved(i + 1)'
    <2> SUFFICES ASSUME NEW k \in 0 .. i,
                        Name(codeBase'[instructionPointers'[k]]) \in Branches
                 PROVE  codeBase'[instructionPointers'[k] + 1] \in Starts
        BY <1>7 DEF Resolved
    <2>1. k \in 0 .. n - 1 /\ instructionPointers'[k] = instructionPointers[k]
        BY <1>1
    <2>2. Name(codeBase[instructionPointers[k]]) \in Branches
        BY <1>5, <2>1
    <2>3. CASE k = i
        BY <1>0, <1>1, <2>1, <2>2, <2>3
    <2>4. CASE k # i
        <3>1. k \in 0 .. i - 1
            BY <2>4
        <3>2. codeBase[instructionPointers[k] + 1] \in Starts
            BY <1>1, <2>2, <3>1 DEF Resolved
        <3>3. Size(k) = 2
            BY <2>2, OperandBytesFacts DEF Size
        <3>4. instructionPointers[k] + 1 \in DOMAIN codeBase
            BY <1>1, <2>1, <3>3 DEF Laid
        <3>5. QED BY <1>5, <2>1, <2>4, <3>2, <3>4
    <2>5. QED BY <2>3, <2>4
<1>9. Progress'
    <2>1. loop'.instruction <= instructionCount'
        BY <1>0, <1>1, <1>3
    <2>2. loop'.instruction < instructionCount' =>
             loop'.intPc = instructionPointers'[loop'.instruction]
        BY <1>0, <1>1, <1>3, NextPlace
    <2>3. Laid(instructionCount)' /\ Resolved(loop.instruction)'
        <3>1. instructionCount' = n /\ loop'.instruction = i + 1
            BY <1>0, <1>1, <1>3
        <3>2. QED BY <1>6, <1>8, <3>1 DEF Laid, Resolved
    <2>4. \A k \in DOMAIN instructionPointers' :
             instructionPointers'[k] \in 0 .. codeLength' - 1
        BY <1>1 DEF LoaderInv, Progress
    <2>5. DOMAIN instructionPointers' = 0 .. instructionCount' - 1
        BY <1>0, <1>1
    <2>6. creating' = "translate"
        OBVIOUS
    <2>7. QED
        BY <1>3, <2>1, <2>2, <2>3, <2>4, <2>5, <2>6 DEF Progress, Loaded, TablesEmpty
<1>10. LoaderTypeOK'
    BY <1>1, <1>3 DEF LoaderInv, LoaderTypeOK, errors, blocks, data
<1>11. HeaderFollowed' /\ BlocksByPhase'
    BY <1>1
    DEF LoaderInv, HeaderFollowed, BlocksByPhase, HeaderAccepted, CodeTaken,
        Loaded, header, data, blocks
<1>12. WalkBounded' /\ LookupBounded'
    BY <1>3 DEF WalkBounded, LookupBounded
<1>13. QED BY <1>9, <1>10, <1>11, <1>12 DEF LoaderInv

LEMMA ResolveStep == LoaderInv /\ Resolve => LoaderInv'
<1> SUFFICES ASSUME LoaderInv, Resolve PROVE LoaderInv'
    OBVIOUS
<1> DEFINE op     == codeBase[loop.intPc]
           target == codeBase[loop.intPc + 1]
           next   == [loop EXCEPT
                         !.instruction = @ + 1,
                         !.intPc = @ + IF OperandBytes(op) > 0 THEN 2 ELSE 1]
<1>1. /\ creating = "translate" /\ loop.pass = "resolve" /\ mode = "ok"
      /\ loop.instruction < instructionCount
      /\ UNCHANGED << codeLength, instructionCount, instructionPointers, data >>
    BY DEF Resolve, InLoop, Going
<1>2. /\ DOMAIN instructionPointers = 0 .. instructionCount - 1
      /\ \A k \in DOMAIN instructionPointers :
            instructionPointers[k] \in 0 .. codeLength - 1
      /\ \A x \in DOMAIN codeBase : codeBase[x] \in Word
      /\ codeLength \in Nat /\ codeLength < W \div 2
    BY <1>1, Resolving
<1>3. ASSUME Name(op) \notin Branches, loop' = next,
             UNCHANGED << file, creating, errors, blocks, codeBase, programStack,
                          mode >>
      PROVE  LoaderInv'
    BY <1>1, <1>2, <1>3, ResolvedOneMore
<1>4. ASSUME FailStoring(VM_JUMP_TO_INVALID_INSTRUCTION),
             UNCHANGED << codeBase, loop >>
      PROVE  LoaderInv'
    <2>1. Fails /\ lastError' \in vmErrorCode_t /\ reported' \in vmErrorCode_t
        BY <1>4, ErrorCodes DEF FailStoring
    <2>2. LoaderTypeOK'
        BY <1>1, <1>4, <2>1 DEF LoaderInv, LoaderTypeOK, Fails, blocks, data
    <2>3. QED BY <1>1, <1>2, <1>4, <2>1, <2>2, FailStep
<1>5. ASSUME Name(op) \in Branches, target \in DOMAIN instructionPointers,
             codeBase' = [codeBase EXCEPT ![loop.intPc + 1] = PlaceOf(target)],
             loop' = next,
             UNCHANGED << file, creating, errors, blocks, programStack, mode >>
      PROVE  LoaderInv'
    <2>1. PlaceOf(target) \in Starts /\ PlaceOf(target) \in 0 .. codeLength - 1
        BY <1>2, <1>5, EntriesAreStarts DEF PlaceOf
    <2>2. PlaceOf(target) \in Word
        BY <1>2, <2>1, WordIsInt DEF Word
    <2>3. loop.intPc + 1 \in DOMAIN codeBase
        <3>1. /\ loop.intPc = instructionPointers[loop.instruction]
              /\ loop.instruction \in 0 .. instructionCount - 1
              /\ Laid(instructionCount)
            BY <1>1, Resolving
        <3>2. Size(loop.instruction) = 2
            BY <1>5, <3>1, OperandBytesFacts DEF Size
        <3>3. QED BY <3>1, <3>2 DEF Laid
    <2>4. DOMAIN codeBase' = DOMAIN codeBase
        BY <1>5
    <2>5. \A x \in DOMAIN codeBase : codeBase'[x] =
             IF x = loop.intPc + 1 THEN PlaceOf(target) ELSE codeBase[x]
        BY <1>5
    <2> HIDE DEF target
    <2>6. /\ \A x \in DOMAIN codeBase' : codeBase'[x] \in Word
          /\ \A x \in DOMAIN codeBase :
                codeBase'[x] = codeBase[x]
                \/ (x = loop.intPc + 1 /\ Name(codeBase[loop.intPc]) \in Branches)
          /\ codeBase'[loop.intPc + 1] \in Starts
        BY <1>2, <1>5, <2>1, <2>2, <2>3, <2>4, <2>5
    <2>7. loop' = [loop EXCEPT
                      !.instruction = @ + 1,
                      !.intPc = @ + IF OperandBytes(codeBase[loop.intPc]) > 0
                                    THEN 2 ELSE 1]
          /\ mode' = "ok"
        BY <1>1, <1>5
    <2>8. QED BY <1>1, <1>5, <2>4, <2>6, <2>7, ResolvedOneMore
<1>6. QED BY <1>3, <1>4, <1>5 DEF Resolve

(* VM_Create is done.                                                       *)
LEMMA CreatedStep == LoaderInv /\ Created => LoaderInv'
<1> SUFFICES ASSUME LoaderInv, Created PROVE LoaderInv'
    OBVIOUS
<1>1. /\ creating = "translate" /\ loop.pass = "resolve"
      /\ loop.instruction = instructionCount
      /\ creating' = "no" /\ programStack' = dataMask + 1
      /\ UNCHANGED << file, errors, blocks, code, data, loop, mode >>
    BY DEF Created, InLoop, Going
<1>2. UNCHANGED << codeLength, instructionCount, instructionPointers, codeBase,
                   dataMask, live, owned >>
    BY <1>1 DEF code, data, blocks
<1>3. codeLength > 0 /\ codeLength = header.codeLength
    <2>1. /\ file \in Files /\ GoodHeader(header, file.length)
          /\ codeLength = header.codeLength
        BY <1>1 DEF LoaderInv, LoaderTypeOK, HeaderFollowed, HeaderAccepted, CodeTaken
    <2>2. QED BY <2>1, Accepted DEF header
<1>4. LoaderTypeOK'
    BY <1>1, <1>2 DEF LoaderInv, LoaderTypeOK, errors, data
<1>5. Loaded'
    BY <1>1, <1>2, <1>3 DEF Loaded
<1>6. HeaderFollowed' /\ BlocksByPhase'
    BY <1>1, <1>2, <1>3, <1>5
    DEF LoaderInv, HeaderFollowed, BlocksByPhase, HeaderAccepted, CodeTaken,
        Loaded, header
<1>7. Progress'
    <2>1. /\ DOMAIN instructionPointers = 0 .. instructionCount - 1
          /\ Laid(instructionCount) /\ Resolved(instructionCount)
          /\ \A k \in DOMAIN instructionPointers :
                instructionPointers[k] \in 0 .. codeLength - 1
        BY <1>1, Resolving
    <2>2. Laid(instructionCount)' /\ Resolved(instructionCount)'
        BY <1>2, <2>1 DEF Laid, Size, Resolved, Starts
    <2>3. codeLength' # 0
        BY <1>2, <1>3
    <2>4. QED BY <1>1, <1>2, <2>1, <2>2, <2>3 DEF Progress, TablesEmpty
<1>8. WalkBounded' /\ LookupBounded'
    BY <1>1 DEF WalkBounded, LookupBounded
<1>9. QED BY <1>4, <1>6, <1>7, <1>8 DEF LoaderInv

-----------------------------------------------------------------------------

(* What is not defined is reached from a defined step, and changes nothing  *)
(* of what is said of the vm_t.                                             *)
LEMMA WildStep ==
    ASSUME LoaderInv, GoWild,
           creating = "translate" /\ loop.pass = "resolve" =>
              codeBase[loop.intPc + 1] = instructionCount
    PROVE  LoaderInv'
<1>1. UNCHANGED << file, creating, lastError, reported, live, owned, codeLength,
                   instructionCount, instructionPointers, codeBase, dataMask,
                   dataAlloc, programStack, loop >> /\ mode' = "wild"
    BY DEF GoWild, errors, blocks, code, data
<1>2. LoaderTypeOK'
    BY <1>1 DEF LoaderInv, LoaderTypeOK
<1>3. HeaderFollowed' /\ BlocksByPhase'
    BY <1>1
    DEF LoaderInv, HeaderFollowed, BlocksByPhase, HeaderAccepted, CodeTaken,
        Loaded, header
<1>4. Progress'
    BY <1>1
    DEF LoaderInv, Progress, Loaded, TablesEmpty, Laid, Ends, Size, Resolved, Starts
<1>5. WalkBounded' /\ LookupBounded'
    BY <1>1 DEF LoaderInv, WalkBounded, LookupBounded
<1>6. QED BY <1>2, <1>3, <1>4, <1>5 DEF LoaderInv

LEMMA LookupOnePast ==
    ASSUME LoaderInv, ResolveWild
    PROVE  codeBase[loop.intPc + 1] = instructionCount
<1>1. /\ creating = "translate" /\ loop.pass = "resolve"
      /\ loop.instruction < instructionCount
      /\ Name(codeBase[loop.intPc]) \in Branches
      /\ ~ TargetRefused(codeBase[loop.intPc + 1])
      /\ codeBase[loop.intPc + 1] \notin DOMAIN instructionPointers
    BY DEF ResolveWild, InLoop, Going
<1>2. /\ loop.intPc = instructionPointers[loop.instruction]
      /\ loop.instruction \in 0 .. instructionCount - 1
      /\ Laid(instructionCount) /\ instructionCount \in Nat
      /\ DOMAIN instructionPointers = 0 .. instructionCount - 1
      /\ \A x \in DOMAIN codeBase : codeBase[x] \in Word
    BY <1>1, Resolving
<1>3. Size(loop.instruction) = 2
    BY <1>1, <1>2, OperandBytesFacts DEF Size
<1>4. loop.intPc + 1 \in DOMAIN codeBase
    BY <1>2, <1>3 DEF Laid
<1>5. codeBase[loop.intPc + 1] \in Int
    BY <1>2, <1>4, WordIsInt
<1>6. QED BY <1>1, <1>2, <1>5 DEF TargetRefused

(* Every step keeps the inductive invariant.                                *)
LEMMA LoaderNextInv == LoaderInv /\ [Next]_vars => LoaderInv'
<1> SUFFICES ASSUME LoaderInv, [Next]_vars PROVE LoaderInv'
    OBVIOUS
<1>1. CASE BadHeaderWild
    BY <1>1, WildStep DEF BadHeaderWild, Going
<1>2. CASE ExpandWild
    BY <1>2, WildStep DEF ExpandWild, InLoop, Going
<1>3. CASE ResolveWild
    BY <1>3, LookupOnePast, WildStep DEF ResolveWild
<1>4. CASE CreateFails
    BY <1>4, FreeStep DEF CreateFails
<1>5. CASE VM_Free
    BY <1>5, FreeStep DEF VM_Free, Going
<1>6. CASE UNCHANGED vars
    <2>1. UNCHANGED << file, creating, lastError, reported, live, owned, codeLength,
                       instructionCount, instructionPointers, codeBase, dataMask,
                       dataAlloc, programStack, loop, mode >>
        BY <1>6 DEF vars, errors, blocks, code, data
    <2>2. LoaderTypeOK'
        BY <2>1 DEF LoaderInv, LoaderTypeOK
    <2>3. HeaderFollowed' /\ BlocksByPhase'
        BY <2>1
        DEF LoaderInv, HeaderFollowed, BlocksByPhase, HeaderAccepted, CodeTaken,
            Loaded, header
    <2>4. Progress'
        BY <2>1
        DEF LoaderInv, Progress, Loaded, TablesEmpty, Laid, Ends, Size, Resolved,
            Starts
    <2>5. WalkBounded' /\ LookupBounded'
        BY <2>1 DEF LoaderInv, WalkBounded, LookupBounded
    <2>6. QED BY <2>2, <2>3, <2>4, <2>5 DEF LoaderInv
<1>7. QED
    BY <1>1, <1>2, <1>3, <1>4, <1>5, <1>6, CreateBeginStep, BadHeaderStep,
       LoadDataStep, AllocatePointersStep, AllocateCodeStep, ExpandStep,
       ExpandedStep, ResolveStep, CreatedStep
    DEF Next

(* The inductive invariant holds.                                           *)
THEOREM LoaderInvariance == Spec => []LoaderInv
    BY LoaderInitInv, LoaderNextInv, PTL DEF Spec

(* For any file, however its header lies about the code behind it: the first *)
(* loop passes the end of the code by one instruction at most, the table of *)
(* instructions is read at one entry past its end at most, and all branches *)
(* of an accepted program lead to opcodes.                                  *)
THEOREM LoopsContained == Spec => []TargetsChecked
<1>1. LoaderInv => BranchesLand
    <2> SUFFICES ASSUME LoaderInv, Loaded,
                        NEW k \in 0 .. instructionCount - 1,
                        Name(codeBase[instructionPointers[k]]) \in Branches
                 PROVE  codeBase[instructionPointers[k] + 1] \in Starts
        BY DEF BranchesLand, Starts
    <2>1. QED BY DEF LoaderInv, Progress, Resolved
<1>2. LoaderInv => TargetsChecked
    BY <1>1 DEF LoaderInv, TargetsChecked
<1>3. QED BY <1>2, LoaderInvariance, PTL

(* The image of an accepted file is a power of two that holds its segments, *)
(* and above the variables of a program of q3asm there is as much memory     *)
(* below the stack as the stack itself takes.                               *)
THEOREM ImageHoldsStack == Spec => []ImageSized
<1>1. LoaderInv => StackClear
    <2> SUFFICES ASSUME LoaderInv, Loaded
                 PROVE  /\ \E k \in 0 .. WordBits : dataMask + 1 = ShiftedOne[k]
                        /\ DataLength(header) <= programStack
                        /\ Assembled => programStack - StackSize >= StackSize
        BY DEF StackClear
    <2>1. /\ file \in Files /\ GoodHeader(header, file.length)
          /\ dataMask = RoundedUp(DataLength(header)) - 1
          /\ programStack = dataMask + 1
        BY DEF LoaderInv, LoaderTypeOK, HeaderFollowed, HeaderAccepted
    <2>2. PICK k \in 0 .. WordBits :
             /\ RoundedUp(DataLength(header)) = ShiftedOne[k]
             /\ ShiftedOne[k] \in Nat /\ ShiftedOne[k] >= DataLength(header)
        BY <2>1, ImageSize DEF header
    <2>3. dataMask + 1 = ShiftedOne[k] /\ programStack = ShiftedOne[k]
        BY <2>1, <2>2
    <2>4. ASSUME Assembled PROVE programStack - StackSize >= StackSize
        <3>1. DataLength(header) > StackSize /\ DataLength(header) \in Nat
            BY <2>1, <2>4, FilesAssumption, ImageSize DEF Assembled, header, HoldsSource
        <3>2. PICK m \in 0 .. WordBits : StackSize = ShiftedOne[m]
            BY LoaderAssumption
        <3>3. k \in Nat /\ m \in Nat /\ StackSize \in Nat
            BY <3>2, WordBitsNat, ShiftedOnePositive
        <3>4. ~ (k < m) /\ k # m
            BY <2>2, <3>1, <3>2, <3>3, ShiftedOneMonotone
        <3>5. 2 * ShiftedOne[m] <= ShiftedOne[k]
            BY <3>3, <3>4, ShiftedOneMonotone
        <3>6. QED BY <2>2, <2>3, <3>2, <3>3, <3>5
    <2>5. QED BY <2>2, <2>3, <2>4
<1>2. LoaderInv => ImageSized
    BY <1>1 DEF LoaderInv, ImageSized
<1>3. QED BY <1>2, LoaderInvariance, PTL

-----------------------------------------------------------------------------
(* The loader implements the life cycle of a vm_t.                           *)

(* The blocks of a set of types, one of each, as VmLifecycle counts them.     *)
LEMMA CountFacts ==
    /\ Lifecycle!AllocTypes = AllocTypes \cup {"VM_ALLOC_DEBUG"}
    /\ Count({}) = Lifecycle!Nothing
    /\ \A types \in SUBSET AllocTypes : \A t \in AllocTypes \ types :
          Count(types \cup {t}) = [Count(types) EXCEPT ![t] = @ + 1]
<1>1. Lifecycle!AllocTypes = AllocTypes \cup {"VM_ALLOC_DEBUG"}
    BY DEF Lifecycle!AllocTypes, AllocTypes
<1>2. Count({}) = Lifecycle!Nothing
    BY <1>1 DEF Count, Lifecycle!Nothing
<1>3. ASSUME NEW types \in SUBSET AllocTypes, NEW t \in AllocTypes \ types
      PROVE  Count(types \cup {t}) = [Count(types) EXCEPT ![t] = @ + 1]
    <2> DEFINE D == AllocTypes \cup {"VM_ALLOC_DEBUG"}
    <2>1. t \in D /\ t \notin types
        OBVIOUS
    <2> HIDE DEF D
    <2>2. Count(types) = [x \in D |-> IF x \in types THEN 1 ELSE 0]
        BY DEF Count, D
    <2>3. Count(types)[t] = 0
        BY <2>1, <2>2
    <2>4. [Count(types) EXCEPT ![t] = @ + 1] =
             [x \in D |-> IF x = t THEN 1 ELSE IF x \in types THEN 1 ELSE 0]
        BY <2>1, <2>2, <2>3
    <2>5. Count(types \cup {t}) = [x \in D |-> IF x \in types \cup {t} THEN 1 ELSE 0]
        BY DEF Count, D
    <2>6. QED BY <2>4, <2>5
<1>4. QED BY <1>1, <1>2, <1>3

(* Both modules have the error codes from VmErrors.                          *)
LEMMA SameErrors ==
    /\ Lifecycle!VM_NO_ERROR = VM_NO_ERROR
    /\ Lifecycle!VM_FAILED_TO_LOAD_BYTECODE = VM_FAILED_TO_LOAD_BYTECODE
    /\ Lifecycle!VM_MALLOC_FAILED = VM_MALLOC_FAILED
    /\ Lifecycle!VM_PC_OUT_OF_RANGE = VM_PC_OUT_OF_RANGE
    /\ Lifecycle!VM_BAD_INSTRUCTION = VM_BAD_INSTRUCTION
    /\ Lifecycle!VM_JUMP_TO_INVALID_INSTRUCTION = VM_JUMP_TO_INVALID_INSTRUCTION
    BY DEF VM_NO_ERROR, VM_FAILED_TO_LOAD_BYTECODE, VM_MALLOC_FAILED,
           VM_PC_OUT_OF_RANGE, VM_BAD_INSTRUCTION, VM_JUMP_TO_INVALID_INSTRUCTION,
           Lifecycle!VM_NO_ERROR, Lifecycle!VM_FAILED_TO_LOAD_BYTECODE,
           Lifecycle!VM_MALLOC_FAILED, Lifecycle!VM_PC_OUT_OF_RANGE,
           Lifecycle!VM_BAD_INSTRUCTION, Lifecycle!VM_JUMP_TO_INVALID_INSTRUCTION

(* Com_malloc hands out a block of a type the vm_t does not have yet.         *)
LEMMA TakeAllocates ==
    ASSUME LoaderInv, NEW t \in AllocTypes, t \notin owned, Take(t)
    PROVE  Lifecycle!Allocate(t)
<1>1. live \in SUBSET AllocTypes /\ owned \in SUBSET AllocTypes /\ t \notin live
    BY DEF LoaderInv, LoaderTypeOK, BlocksByPhase
<1>2. live' = live \cup {t} /\ owned' = owned \cup {t}
    BY DEF Take
<1>3. /\ Count(live \cup {t}) = [Count(live) EXCEPT ![t] = @ + 1]
      /\ Count(owned \cup {t}) = [Count(owned) EXCEPT ![t] = @ + 1]
    BY <1>1, CountFacts
<1>4. QED BY <1>2, <1>3 DEF Lifecycle!Allocate

(* The step that fails leaves the blocks to VM_Free.                         *)
LEMMA FailsMapped ==
    ASSUME Fails, UNCHANGED codeLength
    PROVE  Lifecycle!Failed
    BY DEF Fails, blocks, Lifecycle!Failed

LEMMA FailStoringMapped ==
    ASSUME NEW level, FailStoring(level), UNCHANGED codeLength
    PROVE  Lifecycle!FailStoring(level)
    BY FailsMapped DEF FailStoring, Lifecycle!FailStoring, Lifecycle!Report

(* The variables that VmLifecycle has beside those of VM_Create.              *)
LEMMA ProtocolUnchanged ==
    ASSUME UNCHANGED << errors, programStack >>
    PROVE  UNCHANGED Lifecycle!vars
    BY DEF errors, Lifecycle!vars

LEMMA HostFreeMapped ==
    ASSUME creating = "no"
    PROVE  Lifecycle!HostFree
    BY DEF Lifecycle!HostFree, Lifecycle!HostTurn

LEMMA CreateBeginMapped == LoaderInv /\ CreateBegin => Lifecycle!CreateBegin
<1> SUFFICES ASSUME LoaderInv, CreateBegin PROVE Lifecycle!CreateBegin
    OBVIOUS
<1>1. /\ creating = "no" /\ codeLength = 0 /\ programStack = 0
      /\ creating' = "load" /\ lastError' = VM_NO_ERROR /\ owned' = {}
      /\ UNCHANGED << reported, live, codeLength, programStack >>
    BY NotLoaded DEF CreateBegin, Going
<1>2. Lifecycle!HostFree /\ Count(owned') = Lifecycle!Nothing
    BY <1>1, HostFreeMapped, CountFacts
<1>3. (IF programStack > 0 THEN 2 * StackSize ELSE 0)' = 0
    BY <1>1
<1>4. ~ (codeLength > 0) /\ UNCHANGED << reported, Count(live), codeLength > 0 >>
    BY <1>1
<1>5. Count(owned)' = Lifecycle!Nothing /\ lastError' = Lifecycle!VM_NO_ERROR
    BY <1>1, <1>2, SameErrors
<1>6. QED BY <1>1, <1>2, <1>3, <1>4, <1>5 DEF Lifecycle!CreateBegin

LEMMA LoadQVMMapped == LoaderInv /\ (BadHeader \/ LoadData) => Lifecycle!LoadQVM
<1> SUFFICES ASSUME LoaderInv, BadHeader \/ LoadData PROVE Lifecycle!LoadQVM
    OBVIOUS
<1>1. creating = "load" /\ UNCHANGED codeLength /\ owned = {}
    BY DEF BadHeader, LoadData, Going, code, LoaderInv, BlocksByPhase
<1>2. CASE FailStoring(VM_FAILED_TO_LOAD_BYTECODE)
    BY <1>1, <1>2, FailStoringMapped, SameErrors DEF Lifecycle!LoadQVM
<1>3. ASSUME Take("VM_ALLOC_DATA_SEC"), creating' = "pointers",
             UNCHANGED << errors, programStack >>
      PROVE  Lifecycle!LoadQVM
    <2>1. Lifecycle!Allocate("VM_ALLOC_DATA_SEC")
        BY <1>1, <1>3, TakeAllocates DEF AllocTypes
    <2>2. QED BY <1>1, <1>3, <2>1, ProtocolUnchanged DEF Lifecycle!LoadQVM
<1>4. QED BY <1>2, <1>3 DEF BadHeader, LoadData

LEMMA AllocatePointersMapped ==
    LoaderInv /\ AllocatePointers => Lifecycle!AllocatePointers
<1> SUFFICES ASSUME LoaderInv, AllocatePointers PROVE Lifecycle!AllocatePointers
    OBVIOUS
<1>1. /\ creating = "pointers" /\ owned = {"VM_ALLOC_DATA_SEC"}
      /\ header.codeLength > 0
    <2>1. creating = "pointers" /\ file \in Files /\ GoodHeader(header, file.length)
        BY DEF AllocatePointers, Going, LoaderInv, LoaderTypeOK, HeaderFollowed,
               HeaderAccepted
    <2>2. QED BY <2>1, Accepted DEF header, LoaderInv, BlocksByPhase
<1>2. CASE FailStoring(VM_MALLOC_FAILED) /\ UNCHANGED codeLength
    BY <1>1, <1>2, FailStoringMapped, SameErrors DEF Lifecycle!AllocatePointers
<1>3. ASSUME Take("VM_ALLOC_INSTRUCTION_POINTERS"), creating' = "prepare",
             codeLength' = header.codeLength, UNCHANGED << errors, programStack >>
      PROVE  Lifecycle!AllocatePointers
    <2>1. Lifecycle!Allocate("VM_ALLOC_INSTRUCTION_POINTERS")
        BY <1>1, <1>3, TakeAllocates DEF AllocTypes
    <2>2. QED BY <1>1, <1>3, <2>1, ProtocolUnchanged DEF Lifecycle!AllocatePointers
<1>4. QED BY <1>2, <1>3 DEF AllocatePointers

LEMMA AllocateCodeMapped == LoaderInv /\ AllocateCode => Lifecycle!AllocateCode
<1> SUFFICES ASSUME LoaderInv, AllocateCode PROVE Lifecycle!AllocateCode
    OBVIOUS
<1>1. /\ creating = "prepare" /\ UNCHANGED codeLength
      /\ owned = {"VM_ALLOC_DATA_SEC", "VM_ALLOC_INSTRUCTION_POINTERS"}
    BY DEF AllocateCode, Going, LoaderInv, BlocksByPhase
<1>2. CASE Fails /\ reported' = VM_MALLOC_FAILED /\ UNCHANGED lastError
    <2>1. Lifecycle!Failed
        BY <1>1, <1>2, FailsMapped
    <2>2. QED
        BY <1>1, <1>2, <2>1, SameErrors
        DEF Lifecycle!AllocateCode, Lifecycle!FailReporting
<1>3. ASSUME Take("VM_ALLOC_CODE_SEC"), creating' = "translate",
             UNCHANGED << errors, programStack >>
      PROVE  Lifecycle!AllocateCode
    <2>1. Lifecycle!Allocate("VM_ALLOC_CODE_SEC")
        BY <1>1, <1>3, TakeAllocates DEF AllocTypes
    <2>2. QED BY <1>1, <1>3, <2>1, ProtocolUnchanged DEF Lifecycle!AllocateCode
<1>4. QED BY <1>2, <1>3 DEF AllocateCode

(* An iteration of a loop is no step of VmLifecycle, unless it finds the      *)
(* code invalid: then it is the failing Translate.                          *)
LEMMA LoopMapped ==
    LoaderInv /\ (Expand \/ Resolve) => Lifecycle!Translate \/ UNCHANGED Lifecycle!allVars
<1> SUFFICES ASSUME LoaderInv, Expand \/ Resolve
             PROVE  Lifecycle!Translate \/ UNCHANGED Lifecycle!allVars
    OBVIOUS
<1>1. creating = "translate" /\ UNCHANGED codeLength
    BY DEF Expand, Resolve, InLoop, Going
<1>2. ASSUME NEW level \in {VM_PC_OUT_OF_RANGE, VM_BAD_INSTRUCTION,
                            VM_JUMP_TO_INVALID_INSTRUCTION},
             FailStoring(level)
      PROVE  Lifecycle!Translate
    <2>1. Lifecycle!FailStoring(level)
        BY <1>1, <1>2, FailStoringMapped
    <2>2. QED BY <1>1, <2>1, SameErrors DEF Lifecycle!Translate
<1>3. CASE UNCHANGED << creating, errors, blocks, programStack >>
    <2>1. UNCHANGED Lifecycle!vars
        BY <1>3, ProtocolUnchanged
    <2>2. UNCHANGED Lifecycle!lifecycle
        BY <1>1, <1>3 DEF blocks, Lifecycle!lifecycle
    <2>3. QED BY <2>1, <2>2 DEF Lifecycle!allVars
<1>4. \/ \E level \in {VM_PC_OUT_OF_RANGE, VM_BAD_INSTRUCTION,
                       VM_JUMP_TO_INVALID_INSTRUCTION} : FailStoring(level)
      \/ UNCHANGED << creating, errors, blocks, programStack >>
    BY DEF Expand, Resolve
<1>5. QED BY <1>2, <1>3, <1>4

LEMMA CreatedMapped == LoaderInv /\ Created => Lifecycle!Translate
<1> SUFFICES ASSUME LoaderInv, Created PROVE Lifecycle!Translate
    OBVIOUS
<1>1. /\ creating = "translate" /\ creating' = "no"
      /\ programStack' = dataMask + 1 /\ dataMask \in Nat
      /\ UNCHANGED << errors, blocks, codeLength >>
    BY DEF Created, InLoop, Going, code, LoaderInv, LoaderTypeOK
<1>2. Lifecycle!Created
    BY <1>1 DEF Lifecycle!Created, errors
<1>3. QED BY <1>1, <1>2 DEF Lifecycle!Translate, errors, blocks

(* VM_Free gives back the blocks one by one and counts none.                 *)
LEMMA FreeAllMapped == LoaderInv /\ FreeAll => Lifecycle!FreeAll
<1> SUFFICES ASSUME LoaderInv, FreeAll PROVE Lifecycle!FreeAll
    OBVIOUS
<1>1. /\ live = owned /\ live' = {} /\ owned' = {}
      /\ codeLength' = 0 /\ programStack' = 0 /\ lastError' = VM_NO_ERROR
    BY DEF FreeAll, LoaderInv, BlocksByPhase
<1>2. Count(live') = [t \in Lifecycle!AllocTypes |-> Count(live)[t] - Count(owned)[t]]
    <2>1. \A t \in Lifecycle!AllocTypes : Count(live)[t] - Count(owned)[t] = 0
        BY <1>1, CountFacts DEF Count
    <2>2. Count(live') = Lifecycle!Nothing
        BY <1>1, CountFacts
    <2>3. QED BY <2>1, <2>2 DEF Lifecycle!Nothing
<1>3. /\ Count(live)' = [t \in Lifecycle!AllocTypes |-> Count(live)[t] - Count(owned)[t]]
      /\ Count(owned)' = Lifecycle!Nothing /\ lastError' = Lifecycle!VM_NO_ERROR
    BY <1>1, <1>2, CountFacts, SameErrors
<1>4. (codeLength > 0)' = FALSE
    BY <1>1
<1>5. (IF programStack > 0 THEN 2 * StackSize ELSE 0)' = 0
    BY <1>1
<1>6. QED BY <1>3, <1>4, <1>5 DEF Lifecycle!FreeAll

LEMMA FreeMapped ==
    LoaderInv /\ (CreateFails \/ VM_Free) => Lifecycle!CreateFails \/ Lifecycle!VM_Free
<1> SUFFICES ASSUME LoaderInv, CreateFails \/ VM_Free
             PROVE  Lifecycle!CreateFails \/ Lifecycle!VM_Free
    OBVIOUS
<1>1. Lifecycle!FreeAll /\ UNCHANGED reported
    BY FreeAllMapped DEF CreateFails, VM_Free
<1>2. CASE CreateFails
    BY <1>1, <1>2 DEF CreateFails, Going, Lifecycle!CreateFails
<1>3. CASE VM_Free
    <2>1. creating = "no" /\ creating' = "no"
        BY <1>3 DEF VM_Free, Going
    <2>2. QED BY <1>1, <2>1, HostFreeMapped DEF Lifecycle!VM_Free
<1>4. QED BY <1>2, <1>3

(* Steps that VmLifecycle does not see: the turn from one loop to the other, *)
(* and what is not defined.                                                 *)
LEMMA HiddenMapped ==
    Expanded \/ BadHeaderWild \/ ExpandWild \/ ResolveWild \/ UNCHANGED vars
        => UNCHANGED Lifecycle!allVars
<1> SUFFICES ASSUME Expanded \/ GoWild \/ UNCHANGED vars
             PROVE  UNCHANGED Lifecycle!allVars
    BY DEF BadHeaderWild, ExpandWild, ResolveWild
<1>1. UNCHANGED << creating, errors, blocks, code, programStack >>
    BY DEF Expanded, GoWild, vars
<1>2. UNCHANGED << live, owned, codeLength >>
    BY <1>1 DEF blocks, code
<1>3. QED
    BY <1>1, <1>2, ProtocolUnchanged DEF Lifecycle!allVars, Lifecycle!lifecycle

LEMMA InitMapped == Init => Lifecycle!LifecycleInit
<1> SUFFICES ASSUME Init PROVE Lifecycle!LifecycleInit
    OBVIOUS
<1>1. /\ creating = "no" /\ lastError = Lifecycle!VM_NO_ERROR
      /\ reported = Lifecycle!VM_NO_ERROR
    BY SameErrors DEF Init
<1>2. Count(live) = Lifecycle!Nothing /\ Count(owned) = Lifecycle!Nothing
    BY CountFacts DEF Init
<1>3. (codeLength > 0) = FALSE
    BY DEF Init
<1>4. (IF programStack > 0 THEN 2 * StackSize ELSE 0) = 0
    BY DEF Init
<1>5. QED BY <1>1, <1>2, <1>3, <1>4 DEF Lifecycle!LifecycleInit

(* Every step is one of VmLifecycle or hidden.                               *)
LEMMA NextMapped ==
    LoaderInv /\ [Next]_vars => [Lifecycle!LifecycleNext]_(Lifecycle!allVars)
<1> SUFFICES ASSUME LoaderInv, [Next]_vars
             PROVE  Lifecycle!LifecycleNext \/ UNCHANGED Lifecycle!allVars
    OBVIOUS
<1>1. QED
    BY CreateBeginMapped, LoadQVMMapped, AllocatePointersMapped, AllocateCodeMapped,
       LoopMapped, CreatedMapped, FreeMapped, HiddenMapped
    DEF Next, Lifecycle!LifecycleNext

(* The loader implements VmLifecycle: each path through the checks and the    *)
(* loops, of whatever file, takes, gives back and reports what that module    *)
(* says, so that what is proved of it, that no block is lost among others,    *)
(* holds of the loader.                                                     *)
THEOREM LoaderRefines == Spec => ImplementsLifecycle
    BY LoaderInvariance, InitMapped, NextMapped, PTL
    DEF Spec, ImplementsLifecycle, Lifecycle!LifecycleSpec

-----------------------------------------------------------------------------
(* Loader follows QvmProgram: what VM_PrepareInterpreter makes of a file     *)
(* that holds a program, of any length and any instructions, is that        *)
(* program with its branches resolved, and the file is not refused.         *)
(* The invariant, of an assembled file.                                     *)

Source   == file.source
Pointers == InstructionPointers(file.source)
Offsets  == FileOffsets(file.source)

(* The first m instructions are in the table, and where it says their        *)
(* opcodes and operands are in the code, the branches among the first r      *)
(* resolved.                                                                *)
Placed(m) == \A k \in 0 .. m - 1 : instructionPointers[k] = Pointers[k]

Holds(c, src, m, r) ==
    LET P == InstructionPointers(src)
    IN  \A k \in 0 .. m - 1 :
           /\ c[P[k]] = Code(src[k + 1].op)
           /\ CodeInts(src[k + 1]) = 2 =>
                 c[P[k] + 1] = IF k < r THEN ResolvedOperand(src[k + 1], P)
                                        ELSE src[k + 1].operand

(* The bytes that were copied to codeBase and are not expanded yet.          *)
Ints(m) == 0 .. m - 1
IsTable(f) == f = [x \in DOMAIN f |-> f[x]]

Unpacked ==
    /\ loop.bytePc = Offsets[loop.instruction]
    /\ loop.intPc = Pointers[loop.instruction]
    /\ DOMAIN codeBase = Ints(codeLength \div 4) \cup Ints(loop.intPc)
    /\ IsTable(codeBase)
    /\ loop.instruction > 0 => IsTable(instructionPointers)
    /\ Placed(loop.instruction) /\ Holds(codeBase, Source, loop.instruction, 0)

Whole(r) ==
    /\ DOMAIN codeBase = Ints(Pointers[instructionCount])
    /\ IsTable(codeBase) /\ IsTable(instructionPointers)
    /\ Placed(instructionCount) /\ Holds(codeBase, Source, instructionCount, r)

NoRefusal ==
    /\ mode = "ok"
    /\ creating \in {"load", "pointers", "prepare", "translate"} =>
          lastError = VM_NO_ERROR
    /\ creating \in {"pointers", "prepare", "translate", "failed"} => dataAlloc > 0
    /\ creating = "failed" =>
          lastError \notin {VM_PC_OUT_OF_RANGE, VM_BAD_INSTRUCTION,
                            VM_JUMP_TO_INVALID_INSTRUCTION}

(* The inductive invariant, beside LoaderInv.                               *)
Follows ==
    Assembled =>
        /\ NoRefusal
        /\ creating = "translate" /\ loop.pass = "expand" => Unpacked
        /\ creating = "translate" /\ loop.pass = "resolve" => Whole(loop.instruction)
        /\ Loaded => Whole(instructionCount)

-----------------------------------------------------------------------------
(* Where instructions begin: the sums of what stands before them.            *)

SumOf(s, n, g) == s = [k \in 0 .. n |-> IF k = 0 THEN 0 ELSE s[k - 1] + g[k]]

LEMMA SumExists ==
    ASSUME NEW n \in Nat, NEW g
    PROVE  \E s : SumOf(s, n, g)
<1> DEFINE Upwards(m, s) == /\ s[0] = 0
                            /\ \A k \in 1 .. m : s[k] = s[k - 1] + g[k]
           S == {m \in 0 .. n : \E s : Upwards(m, s)}
<1>1. 0 \in S
    <2>1. Upwards(0, [k \in {0} |-> 0])
        OBVIOUS
    <2>2. \E s : Upwards(0, s)
        BY <2>1
    <2>3. 0 \in 0 .. n
        OBVIOUS
    <2> HIDE DEF Upwards
    <2>4. QED BY <2>2, <2>3
<1>2. ASSUME NEW m \in S, m < n PROVE m + 1 \in S
    <2>1. PICK s : Upwards(m, s)
        OBVIOUS
    <2> DEFINE t == [k \in 0 .. m + 1 |-> IF k = m + 1 THEN s[m] + g[m + 1] ELSE s[k]]
    <2>2. m \in Nat /\ m + 1 \in 0 .. n
        BY <1>2
    <2>3. t[0] = 0
        BY <2>1, <2>2
    <2>4. ASSUME NEW k \in 1 .. m + 1 PROVE t[k] = t[k - 1] + g[k]
        <3>1. CASE k = m + 1
            BY <2>2, <3>1
        <3>2. CASE k # m + 1
            <4>1. k \in 1 .. m /\ k - 1 \in 0 .. m
                BY <2>2, <3>2
            <4>2. t[k] = s[k] /\ t[k - 1] = s[k - 1]
                BY <2>2, <4>1
            <4>3. QED BY <2>1, <4>1, <4>2
        <3>3. QED BY <3>1, <3>2
    <2> HIDE DEF t
    <2>5. QED BY <2>2, <2>3, <2>4
<1>3. S = 0 .. n
    <2>1. S \in SUBSET (0 .. n)
        OBVIOUS
    <2> HIDE DEF S
    <2>2. QED BY <1>1, <1>2, <2>1, BoundedInduction
<1>4. PICK s : Upwards(n, s)
    BY <1>3
<1> DEFINE t == [k \in 0 .. n |-> s[k]]
<1>5. SumOf(t, n, g)
    <2>1. ASSUME NEW k \in 0 .. n
          PROVE  t[k] = IF k = 0 THEN 0 ELSE t[k - 1] + g[k]
        <3>1. CASE k = 0
            BY <1>4, <3>1
        <3>2. CASE k # 0
            <4>1. k \in 1 .. n /\ k - 1 \in 0 .. n
                BY <3>2
            <4>2. QED BY <1>4, <4>1
        <3>3. QED BY <3>1, <3>2
    <2>2. QED BY <2>1 DEF SumOf
<1>6. QED BY <1>5

LEMMA SumFacts ==
    ASSUME NEW n \in Nat, NEW g, \A k \in 1 .. n : g[k] \in Nat, NEW s, SumOf(s, n, g)
    PROVE  /\ s[0] = 0
           /\ \A k \in 0 .. n : s[k] \in Nat
           /\ \A k \in 0 .. n - 1 : s[k + 1] = s[k] + g[k + 1]
<1>1. s[0] = 0 /\ \A k \in 0 .. n - 1 : s[k + 1] = s[k] + g[k + 1]
    BY DEF SumOf
<1> DEFINE S == {k \in 0 .. n : s[k] \in Nat}
<1>2. 0 \in S
    BY <1>1
<1>3. ASSUME NEW k \in S, k < n PROVE k + 1 \in S
    BY <1>1, <1>3
<1>4. S = 0 .. n
    <2>1. S \in SUBSET (0 .. n)
        OBVIOUS
    <2> HIDE DEF S
    <2>2. QED BY <1>2, <1>3, <2>1, BoundedInduction
<1>5. QED BY <1>1, <1>4

(* The two tables of a program.                                             *)
LEMMA LengthFacts ==
    ASSUME NEW i
    PROVE  /\ FileLength(i) \in {1, 2, 5} /\ CodeInts(i) \in {1, 2}
           /\ CodeInts(i) <= FileLength(i) /\ FileLength(i) + 3 <= 4 * CodeInts(i)
           /\ CodeInts(i) = 2 <=> FileLength(i) > 1
           /\ FileLength(i) = 5 <=> i.op \in WordOperand
           /\ i.op \notin WordOperand => (FileLength(i) = 2 <=> i.op \in ByteOperand)
<1>1. i.op \in ByteOperand => i.op \notin WordOperand
    BY DEF ByteOperand, WordOperand, Branches, IntBranches, FloatBranches
<1>2. CASE i.op \in WordOperand
    <2>1. FileLength(i) = 5 /\ CodeInts(i) = 2
        BY <1>1, <1>2 DEF FileLength, CodeInts
    <2>2. QED BY <1>2, <2>1
<1>3. CASE i.op \in ByteOperand
    <2>1. FileLength(i) = 2 /\ CodeInts(i) = 2
        BY <1>1, <1>3 DEF FileLength, CodeInts
    <2>2. QED BY <1>1, <1>3, <2>1
<1>4. CASE i.op \notin WordOperand /\ i.op \notin ByteOperand
    <2>1. FileLength(i) = 1 /\ CodeInts(i) = 1
        BY <1>4 DEF FileLength, CodeInts
    <2>2. QED BY <1>4, <2>1
<1>5. QED BY <1>2, <1>3, <1>4

LEMMA TablesOf ==
    ASSUME NEW src, Len(src) \in Nat
    PROVE  /\ FileOffsets(src)[0] = 0 /\ InstructionPointers(src)[0] = 0
           /\ \A k \in 0 .. Len(src) : /\ FileOffsets(src)[k] \in Nat
                                       /\ InstructionPointers(src)[k] \in Nat
           /\ \A k \in 0 .. Len(src) - 1 :
                 /\ FileOffsets(src)[k + 1] = FileOffsets(src)[k] + FileLength(src[k + 1])
                 /\ InstructionPointers(src)[k + 1] =
                       InstructionPointers(src)[k] + CodeInts(src[k + 1])
<1> DEFINE n == Len(src)
           f == [k \in 1 .. n |-> FileLength(src[k])]
           c == [k \in 1 .. n |-> CodeInts(src[k])]
<1>1. \A k \in 1 .. n : f[k] \in Nat /\ c[k] \in Nat
    BY LengthFacts
<1>2. SumOf(FileOffsets(src), n, f)
    <2>1. \E s : SumOf(s, n, f)
        BY SumExists
    <2>2. \A s : SumOf(s, n, f) <=>
             s = [k \in 0 .. n |-> IF k = 0 THEN 0 ELSE s[k - 1] + FileLength(src[k])]
        BY DEF SumOf
    <2> HIDE DEF f
    <2>3. QED BY <2>1, <2>2 DEF FileOffsets
<1>3. SumOf(InstructionPointers(src), n, c)
    <2>1. \E s : SumOf(s, n, c)
        BY SumExists
    <2>2. \A s : SumOf(s, n, c) <=>
             s = [k \in 0 .. n |-> IF k = 0 THEN 0 ELSE s[k - 1] + CodeInts(src[k])]
        BY DEF SumOf
    <2> HIDE DEF c
    <2>3. QED BY <2>1, <2>2 DEF InstructionPointers
<1>4. /\ FileOffsets(src)[0] = 0 /\ \A k \in 0 .. n : FileOffsets(src)[k] \in Nat
      /\ \A k \in 0 .. n - 1 : FileOffsets(src)[k + 1] = FileOffsets(src)[k] + f[k + 1]
    <2> HIDE DEF f, n
    <2>1. n \in Nat /\ \A k \in 1 .. n : f[k] \in Nat
        BY <1>1 DEF n
    <2>2. QED BY <1>2, <2>1, SumFacts
<1>5. /\ InstructionPointers(src)[0] = 0
      /\ \A k \in 0 .. n : InstructionPointers(src)[k] \in Nat
      /\ \A k \in 0 .. n - 1 :
            InstructionPointers(src)[k + 1] = InstructionPointers(src)[k] + c[k + 1]
    <2> HIDE DEF c, n
    <2>1. n \in Nat /\ \A k \in 1 .. n : c[k] \in Nat
        BY <1>1 DEF n
    <2>2. QED BY <1>3, <2>1, SumFacts
<1>6. ASSUME NEW k \in 0 .. n - 1
      PROVE  f[k + 1] = FileLength(src[k + 1]) /\ c[k + 1] = CodeInts(src[k + 1])
    <2>1. k + 1 \in 1 .. n
        OBVIOUS
    <2> HIDE DEF n
    <2>2. QED BY <2>1
<1> HIDE DEF f, c
<1>7. QED BY <1>4, <1>5, <1>6

(* A table that ascends from 0 covers what is below its last entry.          *)
LEMMA Ascending ==
    ASSUME NEW n \in Nat, NEW s, \A k \in 0 .. n : s[k] \in Nat,
           \A k \in 0 .. n - 1 : s[k] <= s[k + 1]
    PROVE  \A j, k \in 0 .. n : j <= k => s[j] <= s[k]
<1> SUFFICES ASSUME NEW j \in 0 .. n PROVE \A k \in 0 .. n : j <= k => s[j] <= s[k]
    OBVIOUS
<1> DEFINE S == {k \in 0 .. n : j <= k => s[j] <= s[k]}
<1>1. 0 \in S
    <2>1. 0 \in 0 .. n /\ (j <= 0 => j = 0)
        OBVIOUS
    <2>2. QED BY <2>1
<1>2. ASSUME NEW k \in S, k < n PROVE k + 1 \in S
    <2>1. k \in 0 .. n - 1 /\ k + 1 \in 0 .. n
        BY <1>2
    <2>2. s[k] <= s[k + 1] /\ s[k] \in Nat /\ s[k + 1] \in Nat
        BY <2>1
    <2>3. CASE j <= k
        BY <2>1, <2>2, <2>3
    <2>4. CASE j > k
        <3>1. j <= k + 1 => j = k + 1
            BY <2>1, <2>4
        <3>2. QED BY <2>1, <2>2, <3>1
    <2>5. QED BY <2>1, <2>3, <2>4
<1>3. S = 0 .. n
    <2>1. S \in SUBSET (0 .. n)
        OBVIOUS
    <2> HIDE DEF S
    <2>2. QED BY <1>1, <1>2, <2>1, BoundedInduction
<1>4. QED BY <1>3

LEMMA Covered ==
    ASSUME NEW n \in Nat, NEW s, \A k \in 0 .. n : s[k] \in Nat, s[0] = 0,
           NEW x \in Nat, x < s[n]
    PROVE  \E j \in 0 .. n - 1 : s[j] <= x /\ x < s[j + 1]
<1> DEFINE S == {k \in 0 .. n : s[k] <= x}
<1> SUFFICES ASSUME \A j \in 0 .. n - 1 : s[j] <= x => ~ (x < s[j + 1])
             PROVE  FALSE
    OBVIOUS
<1>1. 0 \in S
    OBVIOUS
<1>2. ASSUME NEW k \in S, k < n PROVE k + 1 \in S
    <2>1. k \in 0 .. n - 1 /\ k + 1 \in 0 .. n /\ s[k] <= x
        BY <1>2
    <2>2. s[k + 1] \in Nat /\ ~ (x < s[k + 1])
        BY <2>1
    <2>3. QED BY <2>1, <2>2
<1>3. S = 0 .. n
    <2>1. S \in SUBSET (0 .. n)
        OBVIOUS
    <2> HIDE DEF S
    <2>2. QED BY <1>1, <1>2, <2>1, BoundedInduction
<1>4. n \in S
    BY <1>3
<1>5. QED BY <1>4

(* Both tables ascend, every int of codeBase belongs to an instruction, and  *)
(* the ints take no more room than the bytes, nor a quarter of it.          *)
LEMMA LayoutOf ==
    ASSUME NEW src, Len(src) \in Nat
    PROVE  /\ \A k \in 0 .. Len(src) :
                 /\ InstructionPointers(src)[k] <= FileOffsets(src)[k]
                 /\ FileOffsets(src)[k] + 3 * k <= 4 * InstructionPointers(src)[k]
           /\ \A j, k \in 0 .. Len(src) :
                 j <= k => /\ FileOffsets(src)[j] <= FileOffsets(src)[k]
                           /\ InstructionPointers(src)[j] <= InstructionPointers(src)[k]
           /\ \A x \in Nat :
                 x < InstructionPointers(src)[Len(src)] =>
                    \E j \in 0 .. Len(src) - 1 :
                       /\ InstructionPointers(src)[j] <= x
                       /\ x < InstructionPointers(src)[j + 1]
<1> DEFINE n == Len(src)
           F == FileOffsets(src)
           P == InstructionPointers(src)
<1>1. /\ F[0] = 0 /\ P[0] = 0 /\ n \in Nat
      /\ \A k \in 0 .. n : F[k] \in Nat /\ P[k] \in Nat
    BY TablesOf
<1>2. ASSUME NEW k \in 0 .. n - 1
      PROVE  \E b \in {1, 2, 5}, i \in {1, 2} :
                /\ F[k + 1] = F[k] + b /\ P[k + 1] = P[k] + i
                /\ i <= b /\ b + 3 <= 4 * i
    <2>1. F[k + 1] = F[k] + FileLength(src[k + 1])
          /\ P[k + 1] = P[k] + CodeInts(src[k + 1])
        BY TablesOf
    <2>2. QED BY <2>1, LengthFacts
<1> HIDE DEF n, F, P
<1> DEFINE S == {k \in 0 .. n : P[k] <= F[k] /\ F[k] + 3 * k <= 4 * P[k]}
<1>3. 0 \in S
    BY <1>1
<1>4. ASSUME NEW k \in S, k < n PROVE k + 1 \in S
    <2>1. k \in 0 .. n - 1 /\ k + 1 \in 0 .. n
        BY <1>1, <1>4
    <2>2. PICK b \in {1, 2, 5}, i \in {1, 2} :
                /\ F[k + 1] = F[k] + b /\ P[k + 1] = P[k] + i
                /\ i <= b /\ b + 3 <= 4 * i
        BY <1>2, <2>1
    <2>3. F[k] \in Nat /\ P[k] \in Nat /\ P[k] <= F[k] /\ F[k] + 3 * k <= 4 * P[k]
        BY <1>1, <2>1
    <2>4. P[k + 1] <= F[k + 1] /\ F[k + 1] + 3 * (k + 1) <= 4 * P[k + 1]
        <3>1. PICK x \in Nat, y \in Nat : x = F[k] /\ y = P[k]
            BY <2>3
        <3>2. y <= x /\ x + 3 * k <= 4 * y /\ k \in Nat
            BY <2>1, <2>3, <3>1
        <3>3. b \in Int /\ i \in Int /\ i <= b /\ b + 3 <= 4 * i
            BY <2>2
        <3> HIDE DEF S
        <3>4. y + i <= x + b
            BY <3>2, <3>3
        <3>5. (x + b) + 3 * (k + 1) <= 4 * (y + i)
            BY <3>2, <3>3
        <3>6. QED BY <2>2, <3>1, <3>4, <3>5
    <2>5. QED BY <2>1, <2>4
<1>5. S = 0 .. n
    <2>1. S \in SUBSET (0 .. n)
        OBVIOUS
    <2> HIDE DEF S
    <2>2. QED BY <1>1, <1>3, <1>4, <2>1, BoundedInduction
<1>6. \A k \in 0 .. n : P[k] <= F[k] /\ F[k] + 3 * k <= 4 * P[k]
    BY <1>5
<1>7. \A k \in 0 .. n - 1 : F[k] <= F[k + 1] /\ P[k] <= P[k + 1]
    <2> SUFFICES ASSUME NEW k \in 0 .. n - 1
                 PROVE  F[k] <= F[k + 1] /\ P[k] <= P[k + 1]
        OBVIOUS
    <2>1. k \in 0 .. n
        BY <1>1
    <2>2. F[k] \in Nat /\ P[k] \in Nat
        BY <1>1, <2>1
    <2>3. QED BY <1>2, <2>2
<1>8. \A j, k \in 0 .. n : j <= k => F[j] <= F[k]
    <2>1. \A k \in 0 .. n - 1 : F[k] <= F[k + 1]
        BY <1>7
    <2>2. QED BY <1>1, <2>1, Ascending
<1>9. \A j, k \in 0 .. n : j <= k => P[j] <= P[k]
    <2>1. \A k \in 0 .. n - 1 : P[k] <= P[k + 1]
        BY <1>7
    <2>2. QED BY <1>1, <2>1, Ascending
<1>10. \A x \in Nat : x < P[n] => \E j \in 0 .. n - 1 : P[j] <= x /\ x < P[j + 1]
    BY <1>1, Covered
<1>11. QED BY <1>6, <1>8, <1>9, <1>10 DEF n, F, P

-----------------------------------------------------------------------------
(* The opcodes and the bytes of an instruction.                              *)

LEMMA OpcodeFacts ==
    ASSUME NEW op \in OpcodeNames
    PROVE  /\ Code(op) \in 0 .. OP_MAX - 1 /\ Name(Code(op)) = op
           /\ OperandBytes(Code(op)) =
                 IF op \in WordOperand THEN 4 ELSE IF op \in ByteOperand THEN 1 ELSE 0
<1>1. \E n \in OP_UNDEF .. OP_MAX - 1 : Name(n) = op
    BY DEF OpcodeNames, OP_UNDEF, OP_MAX
<1>2. Code(op) \in OP_UNDEF .. OP_MAX - 1 /\ Name(Code(op)) = op
    <2> HIDE DEF Name
    <2>1. QED BY <1>1 DEF Code
<1>3. Code(op) \in 0 .. OP_MAX - 1
    BY <1>2 DEF OP_UNDEF
<1>4. QED BY <1>2, <1>3 DEF OperandBytes

LEMMA EncodedFacts ==
    ASSUME NEW i
    PROVE  /\ Encoded(i)[1] = Code(i.op)
           /\ i.op \in WordOperand =>
                 /\ Encoded(i)[2] = ByteOf(i.operand, 0)
                 /\ Encoded(i)[3] = ByteOf(i.operand, 1)
                 /\ Encoded(i)[4] = ByteOf(i.operand, 2)
                 /\ Encoded(i)[5] = ByteOf(i.operand, 3)
           /\ i.op \in ByteOperand => Encoded(i)[2] = i.operand
<1>1. i.op \in ByteOperand => i.op \notin WordOperand
    BY DEF ByteOperand, WordOperand, Branches, IntBranches, FloatBranches
<1>2. CASE i.op \in WordOperand
    <2> DEFINE c == << Code(i.op) >>
               b == Bytes(i.operand)
               A == {Code(i.op)} \cup {ByteOf(i.operand, k) : k \in 0 .. 3}
    <2>1. Encoded(i) = c \o b
        BY <1>1, <1>2 DEF Encoded
    <2>2. c \in Seq(A) /\ Len(c) = 1 /\ c[1] = Code(i.op)
        OBVIOUS
    <2>3. b \in Seq(A) /\ Len(b) = 4
        BY DEF Bytes
    <2>4. /\ b[1] = ByteOf(i.operand, 0) /\ b[2] = ByteOf(i.operand, 1)
          /\ b[3] = ByteOf(i.operand, 2) /\ b[4] = ByteOf(i.operand, 3)
        BY DEF Bytes
    <2> HIDE DEF c, b, A
    <2>5. \A k \in 1 .. Len(c) + Len(b) :
             (c \o b)[k] = IF k <= Len(c) THEN c[k] ELSE b[k - Len(c)]
        BY <2>2, <2>3, ConcatProperties
    <2>6. \A k \in 1 .. 5 : (c \o b)[k] = IF k <= 1 THEN c[k] ELSE b[k - 1]
        <3>1. Len(c) = 1 /\ Len(b) = 4 /\ Len(c) + Len(b) = 5
            BY <2>2, <2>3
        <3>2. QED BY <2>5, <3>1
    <2>7. /\ (c \o b)[1] = c[1] /\ (c \o b)[2] = b[1] /\ (c \o b)[3] = b[2]
          /\ (c \o b)[4] = b[3] /\ (c \o b)[5] = b[4]
        <3>1. (c \o b)[1] = c[1] /\ (c \o b)[2] = b[2 - 1] /\ (c \o b)[3] = b[3 - 1]
              /\ (c \o b)[4] = b[4 - 1] /\ (c \o b)[5] = b[5 - 1]
            <4> DEFINE d == c \o b
            <4>1. \A k \in 1 .. 5 : d[k] = IF k <= 1 THEN c[k] ELSE b[k - 1]
                BY <2>6
            <4> HIDE DEF d
            <4>2. d[1] = c[1] /\ d[2] = b[2 - 1] /\ d[3] = b[3 - 1]
                  /\ d[4] = b[4 - 1] /\ d[5] = b[5 - 1]
                BY <4>1
            <4>3. QED BY <4>2 DEF d
        <3>2. QED BY <3>1
    <2>8. QED BY <1>1, <1>2, <2>1, <2>2, <2>4, <2>7
<1>3. CASE i.op \in ByteOperand
    <2>1. Encoded(i) = << Code(i.op) >> \o << i.operand >>
        BY <1>1, <1>3 DEF Encoded
    <2>2. QED BY <1>1, <1>3, <2>1
<1>4. CASE i.op \notin WordOperand /\ i.op \notin ByteOperand
    <2>1. Encoded(i) = << Code(i.op) >> \o << >>
        BY <1>4 DEF Encoded
    <2>2. QED BY <1>4, <2>1
<1>5. QED BY <1>2, <1>3, <1>4

-----------------------------------------------------------------------------
(* What the file of a program is, for the two loops.                         *)

LEMMA SourceFacts ==
    ASSUME NEW f \in Files, f.source # << >>
    PROVE  /\ Writable(f.source) /\ GoodHeader(f.header, f.length)
           /\ Len(f.source) \in Nat /\ Len(f.source) > 0
           /\ f.header.instructionCount = Len(f.source)
           /\ f.header.codeLength \in Nat /\ f.header.codeOffset \in Nat
           /\ f.header.codeLength = Aligned(FileOffsets(f.source)[Len(f.source)])
           /\ \A x \in 0 .. f.header.codeLength - 1 :
                 f.header.codeOffset + x \in DOMAIN f.bytes
<1>1. HoldsSource(f)
    BY FilesAssumption
<1>2. /\ Writable(f.source) /\ GoodHeader(f.header, f.length)
      /\ f.header.instructionCount = Len(f.source)
      /\ f.header.codeLength = Aligned(FileOffsets(f.source)[Len(f.source)])
    BY <1>1 DEF HoldsSource
<1>3. Len(f.source) \in Nat /\ Len(f.source) > 0
    <2>1. f.source \in Seq([op : OpcodeNames, operand : Int])
        BY <1>2 DEF Writable
    <2>2. QED BY <2>1, EmptySeq, LenProperties
<1>4. QED BY <1>2, <1>3, Accepted, FilesAssumption

LEMMA InstructionFacts ==
    ASSUME NEW f \in Files, f.source # << >>, NEW k \in 1 .. Len(f.source)
    PROVE  /\ f.source[k].op \in OpcodeNames
           /\ f.source[k].op \in WordOperand => f.source[k].operand \in Word
           /\ f.source[k].op \in Branches =>
                 f.source[k].operand \in 0 .. Len(f.source) - 1
<1>1. Writable(f.source)
    BY SourceFacts
<1>2. f.source[k] \in [op : OpcodeNames, operand : Int]
    BY <1>1, ElementOfSeq DEF Writable
<1>3. QED BY <1>1, <1>2 DEF Writable

(* The bytes of an instruction are read as the instruction.                  *)
LEMMA SourceRead ==
    ASSUME NEW f \in Files, f.source # << >>, NEW i \in 0 .. Len(f.source) - 1,
           NEW pc, pc = FileOffsets(f.source)[i]
    PROVE  /\ f.bytes[f.header.codeOffset + pc] = Code(f.source[i + 1].op)
           /\ f.source[i + 1].op \in WordOperand =>
                 WordAt(f.bytes, f.header.codeOffset + (pc + 1)) =
                    f.source[i + 1].operand
           /\ f.source[i + 1].op \in ByteOperand =>
                 f.bytes[f.header.codeOffset + (pc + 1)] = f.source[i + 1].operand
<1> DEFINE co  == f.header.codeOffset
           ins == f.source[i + 1]
<1>1. Len(f.source) \in Nat /\ co \in Nat
    BY SourceFacts
<1>2. i + 1 \in 1 .. Len(f.source) /\ i + 1 - 1 = i /\ pc \in Nat
    BY <1>1, TablesOf
<1>3. \A x \in 1 .. FileLength(ins) : f.bytes[co + pc + (x - 1)] = Encoded(ins)[x]
    <2>1. HoldsSource(f)
        BY FilesAssumption
    <2>2. \A k \in 1 .. Len(f.source) :
              \A x \in 1 .. FileLength(f.source[k]) :
                 f.bytes[f.header.codeOffset + FileOffsets(f.source)[k - 1] + (x - 1)] =
                    Encoded(f.source[k])[x]
        BY <2>1 DEF HoldsSource
    <2>3. QED BY <1>2, <2>2
<1>4. FileLength(ins) \in {1, 2, 5}
      /\ (FileLength(ins) = 5 <=> ins.op \in WordOperand)
      /\ (ins.op \notin WordOperand => (FileLength(ins) = 2 <=> ins.op \in ByteOperand))
    BY LengthFacts
<1>5. ins.op \in ByteOperand => ins.op \notin WordOperand
    BY DEF ByteOperand, WordOperand, Branches, IntBranches, FloatBranches
<1>6. ins.op \in WordOperand => ins.operand \in Word
    BY <1>2, InstructionFacts
<1> HIDE DEF co, ins
<1>7. f.bytes[co + pc] = Code(ins.op)
    <2>1. 1 \in 1 .. FileLength(ins) /\ co + pc + (1 - 1) = co + pc
        BY <1>1, <1>2, <1>4
    <2>2. f.bytes[co + pc + (1 - 1)] = Encoded(ins)[1]
        BY <1>3, <2>1
    <2>3. QED BY <2>1, <2>2, EncodedFacts
<1>8. ASSUME ins.op \in WordOperand
      PROVE  WordAt(f.bytes, co + (pc + 1)) = ins.operand
    <2> DEFINE a == co + (pc + 1)
    <2>1. a \in Int /\ ins.operand \in Word
        BY <1>1, <1>2, <1>6, <1>8
    <2>2. /\ co + pc + (2 - 1) = a /\ co + pc + (3 - 1) = a + 1
          /\ co + pc + (4 - 1) = a + 2 /\ co + pc + (5 - 1) = a + 3
        BY <1>1, <1>2
    <2>3. {2, 3, 4, 5} \subseteq 1 .. FileLength(ins)
        BY <1>4, <1>8
    <2>4. /\ f.bytes[co + pc + (2 - 1)] = Encoded(ins)[2]
          /\ f.bytes[co + pc + (3 - 1)] = Encoded(ins)[3]
          /\ f.bytes[co + pc + (4 - 1)] = Encoded(ins)[4]
          /\ f.bytes[co + pc + (5 - 1)] = Encoded(ins)[5]
        BY <1>3, <2>3
    <2> HIDE DEF a
    <2>5. /\ f.bytes[a] = ByteOf(ins.operand, 0)
          /\ f.bytes[a + 1] = ByteOf(ins.operand, 1)
          /\ f.bytes[a + 2] = ByteOf(ins.operand, 2)
          /\ f.bytes[a + 3] = ByteOf(ins.operand, 3)
        BY <1>8, <2>2, <2>4, EncodedFacts
    <2>6. WordAt(f.bytes, a) = ins.operand
        BY <2>1, <2>5, WordRoundTrip
    <2>7. QED BY <2>6 DEF a
<1>9. ASSUME ins.op \in ByteOperand
      PROVE  f.bytes[co + (pc + 1)] = ins.operand
    <2>1. 2 \in 1 .. FileLength(ins) /\ co + pc + (2 - 1) = co + (pc + 1)
        BY <1>1, <1>2, <1>4, <1>5, <1>9
    <2>2. f.bytes[co + pc + (2 - 1)] = Encoded(ins)[2]
        BY <1>3, <2>1
    <2>3. QED BY <1>9, <2>1, <2>2, EncodedFacts
<1>10. QED BY <1>7, <1>8, <1>9 DEF co, ins

(* The loops step from instruction to instruction, and there is room.        *)
LEMMA SourceRoom ==
    ASSUME NEW f \in Files, f.source # << >>, NEW i \in 0 .. Len(f.source) - 1,
           NEW m, m = OperandBytes(Code(f.source[i + 1].op))
    PROVE  /\ m \in {0, 1, 4} /\ (m > 0 <=> CodeInts(f.source[i + 1]) = 2)
           /\ FileOffsets(f.source)[i] \in Nat /\ InstructionPointers(f.source)[i] \in Nat
           /\ FileOffsets(f.source)[i + 1] = FileOffsets(f.source)[i] + 1 + m
           /\ InstructionPointers(f.source)[i + 1] =
                 InstructionPointers(f.source)[i] + IF m = 0 THEN 1 ELSE 2
           /\ FileOffsets(f.source)[i + 1] <= f.header.codeLength
           /\ InstructionPointers(f.source)[i + 1] <= f.header.codeLength
<1> DEFINE n   == Len(f.source)
           ins == f.source[i + 1]
           F   == FileOffsets(f.source)
           P   == InstructionPointers(f.source)
<1>1. n \in Nat /\ f.header.codeLength = Aligned(F[n]) /\ f.header.codeLength \in Nat
    BY SourceFacts
<1>2. i \in 0 .. n /\ i + 1 \in 0 .. n /\ n \in 0 .. n /\ i + 1 \in 1 .. n /\ i + 1 <= n
    BY <1>1
<1>3. /\ F[i + 1] = F[i] + FileLength(ins) /\ P[i + 1] = P[i] + CodeInts(ins)
      /\ \A k \in 0 .. n : F[k] \in Nat /\ P[k] \in Nat
    BY <1>1, TablesOf
<1>4. ins.op \in OpcodeNames
    BY <1>2, InstructionFacts
<1>5. m = IF ins.op \in WordOperand THEN 4 ELSE IF ins.op \in ByteOperand THEN 1 ELSE 0
    BY <1>4, OpcodeFacts
<1>6. FileLength(ins) = 1 + m /\ CodeInts(ins) = IF m = 0 THEN 1 ELSE 2
    <2>1. /\ FileLength(ins) \in {1, 2, 5} /\ CodeInts(ins) \in {1, 2}
          /\ CodeInts(ins) = 2 <=> FileLength(ins) > 1
          /\ FileLength(ins) = 5 <=> ins.op \in WordOperand
          /\ ins.op \notin WordOperand => (FileLength(ins) = 2 <=> ins.op \in ByteOperand)
        BY LengthFacts
    <2> HIDE DEF ins
    <2>2. QED BY <1>5, <2>1
<1>7. F[i + 1] <= F[n] /\ P[i + 1] <= F[i + 1]
    BY <1>1, <1>2, LayoutOf
<1> HIDE DEF n, ins, F, P
<1>8. F[n] <= f.header.codeLength
    BY <1>1, <1>2, <1>3 DEF Aligned
<1>9. F[i + 1] <= f.header.codeLength /\ P[i + 1] <= f.header.codeLength
    <2>1. F[i + 1] \in Nat /\ P[i + 1] \in Nat /\ F[n] \in Nat
        BY <1>2, <1>3
    <2>2. QED BY <1>1, <1>7, <1>8, <2>1
<1>10. m \in {0, 1, 4} /\ (m > 0 <=> CodeInts(ins) = 2)
    BY <1>5, <1>6
<1>11. F[i] \in Nat /\ P[i] \in Nat
    BY <1>2, <1>3
<1>12. F[i + 1] = F[i] + 1 + m
    BY <1>3, <1>6, <1>10, <1>11
<1>13. QED BY <1>3, <1>6, <1>9, <1>10, <1>11, <1>12 DEF n, ins, F, P

-----------------------------------------------------------------------------
(* The code with one more instruction, and with one more branch resolved.    *)

LEMMA Apart ==
    ASSUME NEW src, Len(src) \in Nat, NEW j \in 0 .. Len(src) - 1,
           NEW k \in 0 .. Len(src), j < k
    PROVE  /\ InstructionPointers(src)[j] \in Nat /\ InstructionPointers(src)[k] \in Nat
           /\ InstructionPointers(src)[j] + CodeInts(src[j + 1]) <=
                 InstructionPointers(src)[k]
           /\ CodeInts(src[j + 1]) \in {1, 2}
<1>1. j \in 0 .. Len(src) /\ j + 1 \in 0 .. Len(src) /\ j + 1 <= k
    OBVIOUS
<1>2. InstructionPointers(src)[j + 1] <= InstructionPointers(src)[k]
    BY <1>1, LayoutOf
<1>3. QED BY <1>1, <1>2, TablesOf, LengthFacts

(* The offsets of instructions grow with their numbers.                      *)
LEMMA Ordered ==
    ASSUME NEW src, Len(src) \in Nat, NEW j \in 0 .. Len(src) - 1,
           NEW k \in 0 .. Len(src), j < k
    PROVE  InstructionPointers(src)[j] < InstructionPointers(src)[k]
<1>1. PICK x, y, z :
         /\ x = InstructionPointers(src)[j] /\ y = InstructionPointers(src)[k]
         /\ z = CodeInts(src[j + 1])
    OBVIOUS
<1>2. x \in Nat /\ y \in Nat /\ x + z <= y /\ z \in {1, 2}
    BY <1>1, Apart
<1>3. x < y
    BY <1>2
<1>4. QED BY <1>1, <1>3

LEMMA PutOneMore ==
    ASSUME NEW src, Len(src) \in Nat, NEW i \in 0 .. Len(src) - 1, NEW c, NEW D,
           DOMAIN c = D \cup Ints(InstructionPointers(src)[i]),
           Holds(c, src, i, 0),
           NEW one, one = Stored(c, InstructionPointers(src)[i], Code(src[i + 1].op)),
           NEW d,
           d = IF CodeInts(src[i + 1]) = 1 THEN one
               ELSE Stored(one, InstructionPointers(src)[i] + 1, src[i + 1].operand)
    PROVE  /\ DOMAIN d = D \cup Ints(InstructionPointers(src)[i + 1])
           /\ Holds(d, src, i + 1, 0)
<1> DEFINE P  == InstructionPointers(src)
           op == Code(src[i + 1].op)
           v  == src[i + 1].operand
           s  == CodeInts(src[i + 1])
<1>1. P[i] \in Nat /\ s \in {1, 2} /\ P[i + 1] = P[i] + s
    BY TablesOf, LengthFacts
<1>2. ASSUME NEW k \in 0 .. i - 1
      PROVE  /\ P[k] \in Nat /\ CodeInts(src[k + 1]) \in {1, 2}
             /\ P[k] + CodeInts(src[k + 1]) <= P[i]
    <2>1. k \in 0 .. Len(src) - 1 /\ i \in 0 .. Len(src) /\ k < i
        OBVIOUS
    <2>2. QED BY <2>1, Apart
<1>3. /\ DOMAIN c = D \cup Ints(P[i])
      /\ one = Stored(c, P[i], op)
      /\ d = IF s = 1 THEN one ELSE Stored(one, P[i] + 1, v)
    OBVIOUS
<1>4. ASSUME NEW k \in 0 .. i - 1
      PROVE  /\ c[P[k]] = Code(src[k + 1].op)
             /\ CodeInts(src[k + 1]) = 2 => c[P[k] + 1] = src[k + 1].operand
    BY DEF Holds
<1> HIDE DEF P, op, v, s
<1>5. DOMAIN one = D \cup Ints(P[i]) \cup {P[i]}
    BY <1>3 DEF Stored
<1>6. DOMAIN d = D \cup Ints(P[i + 1])
    <2>1. CASE s = 1
        BY <1>1, <1>3, <1>5, <2>1 DEF Ints
    <2>2. CASE s = 2
        <3>1. DOMAIN d = DOMAIN one \cup {P[i] + 1}
            BY <1>3, <2>2 DEF Stored
        <3>2. QED BY <1>1, <1>5, <2>2, <3>1 DEF Ints
    <2>3. QED BY <1>1, <2>1, <2>2
<1>7. d[P[i]] = op /\ (s = 2 => d[P[i] + 1] = v)
    <2>1. one[P[i]] = op
        BY <1>3 DEF Stored
    <2>2. CASE s = 1
        BY <1>3, <2>1, <2>2
    <2>3. CASE s = 2
        <3>1. d = [y \in DOMAIN one \cup {P[i] + 1} |-> IF y = P[i] + 1 THEN v ELSE one[y]]
            <4>1. d = Stored(one, P[i] + 1, v)
                BY <1>3, <2>3
            <4>2. QED BY <4>1 DEF Stored
        <3>2. P[i] # P[i] + 1 /\ P[i] \in DOMAIN one
            BY <1>1, <1>5
        <3>3. QED BY <2>1, <3>1, <3>2
    <2>4. QED BY <1>1, <2>2, <2>3
<1>8. ASSUME NEW x \in Nat, x < P[i] PROVE d[x] = c[x]
    <2>1. x \in DOMAIN c /\ x # P[i] /\ x # P[i] + 1
        <3>1. x \in Ints(P[i]) /\ x # P[i] /\ x # P[i] + 1
            BY <1>1, <1>8 DEF Ints
        <3>2. QED BY <1>3, <3>1
    <2>2. one[x] = c[x] /\ x \in DOMAIN one
        BY <1>3, <2>1 DEF Stored
    <2>3. QED BY <1>3, <2>1, <2>2 DEF Stored
<1>9. ASSUME NEW k \in 0 .. i
      PROVE  /\ d[P[k]] = Code(src[k + 1].op)
             /\ CodeInts(src[k + 1]) = 2 =>
                   d[P[k] + 1] = IF k < 0 THEN ResolvedOperand(src[k + 1], P)
                                          ELSE src[k + 1].operand
    <2>1. CASE k = i
        BY <1>7, <2>1 DEF op, v, s
    <2>2. CASE k # i
        <3>1. k \in 0 .. i - 1
            BY <2>2
        <3>2. /\ P[k] \in Nat /\ CodeInts(src[k + 1]) \in {1, 2}
              /\ P[k] + CodeInts(src[k + 1]) <= P[i]
            BY <1>2, <3>1
        <3>3. d[P[k]] = c[P[k]]
            BY <1>1, <1>8, <3>2
        <3>4. CodeInts(src[k + 1]) = 2 => d[P[k] + 1] = c[P[k] + 1]
            <4>1. CodeInts(src[k + 1]) = 2 => P[k] + 1 \in Nat /\ P[k] + 1 < P[i]
                BY <1>1, <3>2
            <4>2. QED BY <1>8, <4>1
        <3>5. QED BY <1>4, <3>1, <3>3, <3>4
    <2>3. QED BY <2>1, <2>2
<1>10. Holds(d, src, i + 1, 0)
    <2>1. (i + 1) - 1 = i
        OBVIOUS
    <2>2. QED BY <1>9, <2>1 DEF Holds, P
<1>11. QED BY <1>6, <1>10 DEF P

LEMMA ResolveOneMore ==
    ASSUME NEW src, Len(src) \in Nat, NEW i \in 0 .. Len(src) - 1, NEW c,
           DOMAIN c = Ints(InstructionPointers(src)[Len(src)]),
           Holds(c, src, Len(src), i), NEW d,
           d = IF src[i + 1].op \in Branches
               THEN [c EXCEPT ![InstructionPointers(src)[i] + 1] =
                        InstructionPointers(src)[src[i + 1].operand]]
               ELSE c
    PROVE  /\ DOMAIN d = DOMAIN c
           /\ Holds(d, src, Len(src), i + 1)
<1> DEFINE P == InstructionPointers(src)
           n == Len(src)
<1>1. DOMAIN d = DOMAIN c
    OBVIOUS
<1>2. ASSUME NEW k \in 0 .. n - 1
      PROVE  /\ c[P[k]] = Code(src[k + 1].op)
             /\ CodeInts(src[k + 1]) = 2 =>
                   c[P[k] + 1] = IF k < i THEN ResolvedOperand(src[k + 1], P)
                                          ELSE src[k + 1].operand
    BY DEF Holds
<1>3. /\ P[i] \in Nat
      /\ src[i + 1].op \in Branches => CodeInts(src[i + 1]) = 2
    <2>1. src[i + 1].op \in Branches => src[i + 1].op \in WordOperand
        BY DEF WordOperand
    <2>2. QED BY <2>1, TablesOf DEF CodeInts
<1>4. ASSUME NEW k \in 0 .. n - 1, k # i
      PROVE  d[P[k]] = c[P[k]] /\ (CodeInts(src[k + 1]) = 2 => d[P[k] + 1] = c[P[k] + 1])
    <2>1. /\ P[k] \in Nat
          /\ P[k] # P[i] + 1 \/ src[i + 1].op \notin Branches
          /\ CodeInts(src[k + 1]) = 2 => P[k] + 1 # P[i] + 1
        <3>1. CASE k < i
            <4>1. P[k] \in Nat /\ P[k] + CodeInts(src[k + 1]) <= P[i]
                  /\ CodeInts(src[k + 1]) \in {1, 2}
                BY <3>1, Apart
            <4> HIDE DEF P
            <4>2. QED BY <1>3, <4>1
        <3>2. CASE i < k
            <4>1. P[k] \in Nat /\ P[i] + CodeInts(src[i + 1]) <= P[k]
                  /\ CodeInts(src[i + 1]) \in {1, 2}
                BY <3>2, Apart
            <4> HIDE DEF P
            <4>2. QED BY <1>3, <4>1
        <3>3. QED BY <1>4, <3>1, <3>2
    <2> HIDE DEF P
    <2>2. CASE src[i + 1].op \in Branches
        <3>1. d = [c EXCEPT ![P[i] + 1] = P[src[i + 1].operand]]
            BY <2>2 DEF P
        <3>2. P[k] \in DOMAIN c /\ (CodeInts(src[k + 1]) = 2 => P[k] + 1 \in DOMAIN c)
            <4>1. P[k] + CodeInts(src[k + 1]) <= P[n] /\ CodeInts(src[k + 1]) \in {1, 2}
                  /\ P[n] \in Nat
                BY Apart DEF P
            <4>2. DOMAIN c = Ints(P[n])
                BY DEF P
            <4> HIDE DEF n
            <4>3. P[k] \in 0 .. P[n] - 1
                  /\ (CodeInts(src[k + 1]) = 2 => P[k] + 1 \in 0 .. P[n] - 1)
                BY <2>1, <4>1
            <4>4. QED BY <4>2, <4>3 DEF Ints
        <3>3. QED BY <2>1, <2>2, <3>1, <3>2
    <2>3. CASE src[i + 1].op \notin Branches
        BY <2>3
    <2>4. QED BY <2>2, <2>3
<1>5. /\ d[P[i]] = Code(src[i + 1].op)
      /\ CodeInts(src[i + 1]) = 2 => d[P[i] + 1] = ResolvedOperand(src[i + 1], P)
    <2>1. CASE src[i + 1].op \in Branches
        <3>1. d = [c EXCEPT ![P[i] + 1] = P[src[i + 1].operand]]
            BY <2>1
        <3>2. P[i] \in DOMAIN c /\ P[i] + 1 \in DOMAIN c
            <4>1. P[i] + CodeInts(src[i + 1]) <= P[n] /\ P[n] \in Nat
                BY Apart
            <4>2. DOMAIN c = Ints(P[n])
                OBVIOUS
            <4> HIDE DEF n, P
            <4>3. P[i] \in 0 .. P[n] - 1 /\ P[i] + 1 \in 0 .. P[n] - 1
                BY <1>3, <2>1, <4>1
            <4>4. QED BY <4>2, <4>3 DEF Ints
        <3>3. c[P[i]] = Code(src[i + 1].op) /\ P[i] # P[i] + 1
            BY <1>2, <1>3
        <3> HIDE DEF P
        <3>4. d[P[i]] = c[P[i]] /\ d[P[i] + 1] = P[src[i + 1].operand]
            BY <3>1, <3>2, <3>3
        <3>5. QED BY <2>1, <3>3, <3>4 DEF ResolvedOperand
    <2>2. CASE src[i + 1].op \notin Branches
        <3>1. d = c /\ ~ (i < i)
            BY <2>2
        <3>2. ResolvedOperand(src[i + 1], P) = src[i + 1].operand
            BY <2>2 DEF ResolvedOperand
        <3>3. QED BY <1>2, <3>1, <3>2
    <2>3. QED BY <2>1, <2>2
<1>6. ASSUME NEW k \in 0 .. n - 1
      PROVE  /\ d[P[k]] = Code(src[k + 1].op)
             /\ CodeInts(src[k + 1]) = 2 =>
                   d[P[k] + 1] = IF k < i + 1 THEN ResolvedOperand(src[k + 1], P)
                                              ELSE src[k + 1].operand
    <2>1. CASE k = i
        <3>1. k < i + 1
            BY <2>1
        <3>2. QED BY <1>5, <2>1, <3>1
    <2>2. CASE k # i
        <3>1. k < i + 1 <=> k < i
            BY <2>2
        <3>2. QED BY <1>2, <1>4, <2>2, <3>1
    <2>3. QED BY <2>1, <2>2
<1>7. Holds(d, src, n, i + 1)
    BY <1>6 DEF Holds
<1>8. QED BY <1>1, <1>7

(* The code with every branch resolved is the code of QvmProgram.            *)
LEMMA LoadedCode ==
    ASSUME NEW src, Len(src) \in Nat, NEW c, IsTable(c),
           DOMAIN c = Ints(InstructionPointers(src)[Len(src)]),
           Holds(c, src, Len(src), Len(src))
    PROVE  c = Load("", src).codeBase
<1> DEFINE P == InstructionPointers(src)
           n == Len(src)
           starts == {P[k] : k \in 0 .. n - 1}
           At(x) == CHOOSE k \in 1 .. n : P[k - 1] = x
           value(x) == IF x \in starts THEN Code(src[At(x)].op)
                       ELSE ResolvedOperand(src[At(x - 1)], P)
<1>1. Load("", src).codeBase = [x \in 0 .. P[n] - 1 |-> value(x)]
    BY DEF Load
<1>2. c = [x \in 0 .. P[n] - 1 |-> c[x]]
    BY DEF IsTable, Ints
<1>3. ASSUME NEW j \in 0 .. n - 1, NEW k \in 0 .. n - 1
      PROVE  P[k] = P[j] => k = j
    <2>1. k < j => P[k] < P[j]
        BY Ordered
    <2>2. j < k => P[j] < P[k]
        BY Ordered
    <2>3. P[j] \in Nat /\ P[k] \in Nat
        BY TablesOf
    <2> HIDE DEF P
    <2>4. QED BY <2>1, <2>2, <2>3
<1>4. ASSUME NEW j \in 0 .. n - 1 PROVE At(P[j]) = j + 1
    <2>1. j + 1 \in 1 .. n /\ P[(j + 1) - 1] = P[j]
        OBVIOUS
    <2>2. ASSUME NEW k \in 1 .. n, P[k - 1] = P[j] PROVE k = j + 1
        <3>1. k - 1 \in 0 .. n - 1
            OBVIOUS
        <3>2. k - 1 = j
            BY <1>3, <2>2, <3>1
        <3>3. QED BY <3>2
    <2> HIDE DEF P, n
    <2>3. QED BY <2>1, <2>2
<1>5. ASSUME NEW j \in 0 .. n - 1, CodeInts(src[j + 1]) = 2
      PROVE  P[j] + 1 \notin starts
    <2> SUFFICES ASSUME NEW k \in 0 .. n - 1, P[k] = P[j] + 1 PROVE FALSE
        OBVIOUS
    <2>1. P[j] \in Nat /\ P[k] \in Nat
        BY TablesOf
    <2>2. k < j => P[k] < P[j]
        BY Ordered
    <2>3. j < k => P[j] + 2 <= P[k]
        BY <1>5, Apart
    <2> HIDE DEF P
    <2>4. QED BY <2>1, <2>2, <2>3
<1>6. ASSUME NEW j \in 0 .. n - 1
      PROVE  /\ c[P[j]] = Code(src[j + 1].op)
             /\ CodeInts(src[j + 1]) = 2 =>
                   c[P[j] + 1] = ResolvedOperand(src[j + 1], P)
    <2>1. j < n
        OBVIOUS
    <2>2. QED BY <2>1 DEF Holds
<1>7. ASSUME NEW x \in 0 .. P[n] - 1 PROVE c[x] = value(x)
    <2>1. P[n] \in Nat /\ x \in Nat /\ x < P[n]
        BY TablesOf
    <2>2. PICK j \in 0 .. n - 1 : P[j] <= x /\ x < P[j + 1]
        BY <2>1, LayoutOf
    <2>3. P[j] \in Nat /\ P[j + 1] = P[j] + CodeInts(src[j + 1])
          /\ CodeInts(src[j + 1]) \in {1, 2}
        BY TablesOf, LengthFacts
    <2>4. CASE x = P[j]
        <3>1. x \in starts /\ At(x) = j + 1
            BY <1>4, <2>4
        <3>2. value(x) = Code(src[j + 1].op)
            BY <3>1
        <3>3. QED BY <1>6, <2>4, <3>2
    <2>5. CASE x # P[j]
        <3>1. x = P[j] + 1 /\ CodeInts(src[j + 1]) = 2 /\ x - 1 = P[j]
            <4> HIDE DEF P
            <4>1. QED BY <2>1, <2>2, <2>3, <2>5
        <3>2. x \notin starts /\ At(x - 1) = j + 1
            <4>1. x \notin starts
                BY <1>5, <3>1
            <4>2. At(P[j]) = j + 1
                BY <1>4
            <4>3. QED BY <3>1, <4>1, <4>2
        <3>3. value(x) = ResolvedOperand(src[j + 1], P)
            BY <3>2
        <3>4. QED BY <1>6, <3>1, <3>3
    <2>6. QED BY <2>4, <2>5
<1> HIDE DEF P, n, value
<1>8. QED BY <1>1, <1>2, <1>7

-----------------------------------------------------------------------------
(* Every step keeps the invariant.                                          *)

Refusals == {VM_PC_OUT_OF_RANGE, VM_BAD_INSTRUCTION, VM_JUMP_TO_INVALID_INSTRUCTION}

LEMMA OtherErrors ==
    {VM_NO_ERROR, VM_FAILED_TO_LOAD_BYTECODE, VM_MALLOC_FAILED} \cap Refusals = {}
    BY DEF Refusals, VM_NO_ERROR, VM_FAILED_TO_LOAD_BYTECODE, VM_MALLOC_FAILED,
           VM_PC_OUT_OF_RANGE, VM_BAD_INSTRUCTION, VM_JUMP_TO_INVALID_INSTRUCTION

LEMMA FollowsInit == Init => Follows
    BY DEF Init, Follows, NoRefusal, Loaded

(* The segments of an accepted file end within the range of an int.          *)
LEMMA NoOverflow ==
    ASSUME NEW f \in Files, GoodHeader(f.header, f.length)
    PROVE  ~ Overflows(f.header, f.length)
<1>1. \A w \in Word : w \in Int
    BY WordIsInt
<1>2. /\ f.header.codeOffset \in Int /\ f.header.codeLength \in Int
      /\ f.header.dataOffset \in Int /\ f.header.dataLength \in Int
      /\ f.header.litLength \in Int /\ f.length \in Int
    BY <1>1, Fields
<1>3. CodeEnd(f.header) \in 0 .. MaxImage /\ DataEnd(f.header) \in 0 .. MaxImage
    BY <1>2, FileAssumption DEF GoodHeader, GoodFields, CodeEnd, DataEnd
<1>4. 0 .. MaxImage \subseteq Word
    BY LoaderAssumption, FileAssumption, WordIsInt, SmallWords DEF Word
<1>5. QED BY <1>3, <1>4 DEF Overflows

LEMMA FailFollows ==
    ASSUME Fails, mode = "ok", Assembled => dataAlloc' > 0 /\ lastError' \notin Refusals
    PROVE  Follows'
<1>1. creating' = "failed" /\ mode' = "ok" /\ file' = file
    BY DEF Fails
<1>2. QED BY <1>1 DEF Follows, NoRefusal, Loaded, Refusals, Assembled

LEMMA FreeFollows ==
    ASSUME FreeAll, creating' = "no", mode = "ok", UNCHANGED << file, mode >>
    PROVE  Follows'
    BY DEF FreeAll, Follows, NoRefusal, Loaded

LEMMA CreateBeginFollows == CreateBegin => Follows'
    BY DEF CreateBegin, Going, Follows, NoRefusal, Loaded

LEMMA LoadFollows ==
    LoaderInv /\ Follows /\ (BadHeader \/ BadHeaderWild \/ LoadData) => Follows'
<1> SUFFICES ASSUME LoaderInv, Follows, BadHeader \/ BadHeaderWild \/ LoadData
             PROVE  Follows'
    OBVIOUS
<1>1. creating = "load" /\ mode = "ok" /\ file' = file
    BY DEF BadHeader, BadHeaderWild, LoadData, Going, FailStoring, Fails, GoWild
<1>2. Assembled => /\ GoodHeader(header, file.length) /\ file \in Files
                   /\ ~ Overflows(header, file.length) /\ lastError = VM_NO_ERROR
    BY <1>1, SourceFacts, NoOverflow
    DEF Assembled, LoaderInv, LoaderTypeOK, header, Follows, NoRefusal
<1>3. CASE BadHeader \/ BadHeaderWild
    <2>1. ~ Assembled
        BY <1>2, <1>3 DEF BadHeader, BadHeaderWild
    <2>2. QED BY <1>1, <2>1 DEF Follows, Assembled
<1>4. CASE LoadData
    <2>1. Assembled => dataAlloc' > 0
        <3> SUFFICES ASSUME Assembled PROVE dataAlloc' > 0
            OBVIOUS
        <3>1. PICK k \in 0 .. WordBits :
                 /\ RoundedUp(DataLength(header)) = ShiftedOne[k]
                 /\ ShiftedOne[k] \in Nat
            BY <1>2, ImageSize DEF header
        <3>2. dataAlloc' = RoundedUp(DataLength(header)) + 4
            BY <1>4 DEF LoadData
        <3>3. QED BY <3>1, <3>2
    <2>2. CASE FailStoring(VM_FAILED_TO_LOAD_BYTECODE)
        BY <1>1, <2>1, <2>2, FailFollows, OtherErrors DEF FailStoring
    <2>3. CASE creating' = "pointers" /\ UNCHANGED << file, errors, programStack, mode >>
        BY <1>1, <1>2, <2>1, <2>3 DEF Follows, NoRefusal, Loaded, Assembled, errors
    <2>4. QED BY <1>4, <2>2, <2>3 DEF LoadData
<1>5. QED BY <1>3, <1>4

LEMMA AllocatePointersFollows == Follows /\ AllocatePointers => Follows'
<1> SUFFICES ASSUME Follows, AllocatePointers PROVE Follows'
    OBVIOUS
<1>1. creating = "pointers" /\ mode = "ok" /\ dataAlloc' = dataAlloc
    BY DEF AllocatePointers, Going, data
<1>2. Assembled => dataAlloc > 0 /\ lastError = VM_NO_ERROR
    BY <1>1 DEF Follows, NoRefusal
<1>3. CASE FailStoring(VM_MALLOC_FAILED)
    BY <1>1, <1>2, <1>3, FailFollows, OtherErrors DEF FailStoring
<1>4. CASE creating' = "prepare" /\ UNCHANGED << file, errors, programStack, mode >>
    BY <1>1, <1>2, <1>4 DEF Follows, NoRefusal, Loaded, Assembled, errors
<1>5. QED BY <1>3, <1>4 DEF AllocatePointers

LEMMA AllocateCodeFollows == LoaderInv /\ Follows /\ AllocateCode => Follows'
<1> SUFFICES ASSUME LoaderInv, Follows, AllocateCode PROVE Follows'
    OBVIOUS
<1>1. /\ creating = "prepare" /\ mode = "ok" /\ dataAlloc' = dataAlloc
      /\ UNCHANGED << codeLength, instructionCount, instructionPointers >>
    BY DEF AllocateCode, Going, data
<1>2. Assembled => dataAlloc > 0 /\ lastError = VM_NO_ERROR
    BY <1>1 DEF Follows, NoRefusal
<1>3. CASE Fails /\ UNCHANGED << lastError, codeBase, loop >>
    BY <1>1, <1>2, <1>3, FailFollows, OtherErrors
<1>4. ASSUME codeBase' = [n \in 0 .. (codeLength \div 4) - 1 |->
                             WordAt(file.bytes, CodeAt(4 * n))],
             loop' = Start("expand"), creating' = "translate",
             UNCHANGED << file, errors, programStack, mode >>
      PROVE  Follows'
    <2>1. /\ loop'.pass = "expand" /\ loop'.bytePc = 0 /\ loop'.intPc = 0
          /\ loop'.instruction = 0
        BY <1>4, StartIs
    <2>2. ASSUME Assembled PROVE Unpacked'
        <3>1. file \in Files /\ file.source # << >>
            BY <2>2 DEF LoaderInv, LoaderTypeOK, Assembled
        <3>2. FileOffsets(file.source)[0] = 0 /\ InstructionPointers(file.source)[0] = 0
            BY <3>1, SourceFacts, TablesOf
        <3>3. loop'.bytePc = Offsets'[loop'.instruction]
              /\ loop'.intPc = Pointers'[loop'.instruction]
            BY <1>4, <2>1, <3>2 DEF Offsets, Pointers
        <3>4. DOMAIN codeBase' = Ints(codeLength' \div 4) \cup Ints(loop'.intPc)
            <4>1. DOMAIN codeBase' = Ints(codeLength \div 4)
                BY <1>4 DEF Ints
            <4>2. Ints(0) = {}
                BY DEF Ints
            <4>3. QED BY <1>1, <2>1, <4>1, <4>2
        <3>5. IsTable(codeBase)'
            BY <1>4 DEF IsTable
        <3>6. Placed(loop.instruction)' /\ Holds(codeBase, Source, loop.instruction, 0)'
            BY <2>1 DEF Placed, Holds
        <3>7. ~ (loop'.instruction > 0)
            BY <2>1
        <3>8. QED BY <3>3, <3>4, <3>5, <3>6, <3>7 DEF Unpacked
    <2>3. QED
        BY <1>1, <1>2, <1>4, <2>1, <2>2 DEF Follows, NoRefusal, Loaded, Assembled, errors
<1>5. QED BY <1>3, <1>4 DEF AllocateCode

(* Where the first loop stands: there is an instruction to read, and room.   *)
LEMMA NextToExpand ==
    ASSUME LoaderInv, Follows, Assembled, InLoop("expand"),
           loop.instruction < instructionCount,
           NEW n, n = OperandBytes(file.bytes[CodeAt(loop.bytePc)])
    PROVE  /\ file \in Files /\ file.source # << >>
           /\ Len(Source) \in Nat /\ instructionCount = Len(Source)
           /\ loop.instruction \in 0 .. Len(Source) - 1
           /\ loop.bytePc = Offsets[loop.instruction]
           /\ loop.intPc = Pointers[loop.instruction]
           /\ file.bytes[CodeAt(loop.bytePc)] = Code(Source[loop.instruction + 1].op)
           /\ file.bytes[CodeAt(loop.bytePc)] \in 0 .. OP_MAX - 1
           /\ CanRead(loop.bytePc, 1) /\ CanWrite(loop.intPc) /\ InsideCode(loop.bytePc)
           /\ n \in {0, 1, 4} /\ (n > 0 <=> CodeInts(Source[loop.instruction + 1]) = 2)
           /\ n > 0 => /\ CanRead(loop.bytePc + 1, n) /\ CanWrite(loop.intPc + 1)
                       /\ Operand(n) = Source[loop.instruction + 1].operand
           /\ Offsets[loop.instruction + 1] = loop.bytePc + 1 + n
           /\ Pointers[loop.instruction + 1] = loop.intPc + IF n = 0 THEN 1 ELSE 2
<1> DEFINE src == file.source
           i   == loop.instruction
           pc  == loop.bytePc
           ip  == loop.intPc
           co  == file.header.codeOffset
           len == file.header.codeLength
           ins == src[i + 1]
<1>1. /\ creating = "translate" /\ loop.pass = "expand" /\ Unpacked
      /\ file \in Files /\ src # << >>
    BY DEF InLoop, Going, Follows, LoaderInv, LoaderTypeOK, Assembled
<1>2. /\ i \in Nat /\ codeLength = len /\ instructionCount = file.header.instructionCount
    BY <1>1, Expanding DEF header
<1>3. /\ Len(src) \in Nat /\ file.header.instructionCount = Len(src)
      /\ co \in Nat /\ len \in Nat
      /\ \A x \in 0 .. len - 1 : co + x \in DOMAIN file.bytes
    BY <1>1, SourceFacts
<1>4. i \in 0 .. Len(src) - 1 /\ instructionCount = Len(src)
    BY <1>2, <1>3
<1>5. pc = FileOffsets(src)[i] /\ ip = InstructionPointers(src)[i]
    BY <1>1 DEF Unpacked, Offsets, Pointers
<1>6. file.bytes[CodeAt(pc)] = Code(ins.op)
    BY <1>1, <1>4, <1>5, SourceRead DEF CodeAt, header
<1>7. n = OperandBytes(Code(ins.op))
    BY <1>6
<1>8. /\ n \in {0, 1, 4} /\ (n > 0 <=> CodeInts(ins) = 2)
      /\ pc \in Nat /\ ip \in Nat
      /\ FileOffsets(src)[i + 1] = pc + 1 + n
      /\ InstructionPointers(src)[i + 1] = ip + IF n = 0 THEN 1 ELSE 2
      /\ FileOffsets(src)[i + 1] <= len
      /\ InstructionPointers(src)[i + 1] <= len
    <2>1. PICK f \in Files : f = file
        BY <1>1
    <2>2. f.source # << >> /\ i \in 0 .. Len(f.source) - 1
          /\ n = OperandBytes(Code(f.source[i + 1].op))
        BY <1>1, <1>4, <1>7, <2>1
    <2> HIDE DEF i
    <2>3. /\ n \in {0, 1, 4} /\ (n > 0 <=> CodeInts(f.source[i + 1]) = 2)
          /\ FileOffsets(f.source)[i] \in Nat /\ InstructionPointers(f.source)[i] \in Nat
          /\ FileOffsets(f.source)[i + 1] = FileOffsets(f.source)[i] + 1 + n
          /\ InstructionPointers(f.source)[i + 1] =
                InstructionPointers(f.source)[i] + IF n = 0 THEN 1 ELSE 2
          /\ FileOffsets(f.source)[i + 1] <= f.header.codeLength
          /\ InstructionPointers(f.source)[i + 1] <= f.header.codeLength
        BY <2>2, SourceRoom
    <2>4. QED BY <1>5, <2>1, <2>3
<1>9. ins.op \in OpcodeNames
    <2>1. i + 1 \in 1 .. Len(src)
        BY <1>3, <1>4
    <2>2. QED BY <1>1, <2>1, InstructionFacts
<1>10. Code(ins.op) \in 0 .. OP_MAX - 1
       /\ n = IF ins.op \in WordOperand THEN 4 ELSE IF ins.op \in ByteOperand THEN 1 ELSE 0
    BY <1>7, <1>9, OpcodeFacts
<1>11. pc + 1 + n <= len /\ ip + (IF n = 0 THEN 1 ELSE 2) <= len
    BY <1>8
<1>12. n > 0 => Operand(n) = ins.operand
    <2>1. ins.op \in WordOperand =>
             WordAt(file.bytes, co + (pc + 1)) = ins.operand
        BY <1>1, <1>4, <1>5, SourceRead
    <2>2. ins.op \in ByteOperand => file.bytes[co + (pc + 1)] = ins.operand
        BY <1>1, <1>4, <1>5, SourceRead
    <2>3. CodeAt(pc + 1) = co + (pc + 1)
        BY DEF CodeAt, header
    <2> HIDE DEF co, pc, ins
    <2>4. CASE ins.op \in WordOperand
        <3>1. Operand(n) = WordAt(file.bytes, CodeAt(pc + 1))
            BY <1>10, <2>4 DEF Operand, pc
        <3>2. QED BY <2>1, <2>3, <2>4, <3>1
    <2>5. CASE ins.op \notin WordOperand /\ n > 0
        <3>1. ins.op \in ByteOperand /\ n = 1
            BY <1>10, <2>5
        <3>2. Operand(n) = file.bytes[CodeAt(pc + 1)]
            BY <3>1 DEF Operand, pc
        <3>3. QED BY <2>2, <2>3, <3>1, <3>2
    <2>6. QED BY <2>4, <2>5
<1>13. CanRead(pc, 1) /\ (n > 0 => CanRead(pc + 1, n))
    <2>1. \A x \in Nat : x < len => CodeAt(x) \in DOMAIN file.bytes
        BY <1>3 DEF CodeAt, header
    <2> HIDE DEF pc, len
    <2>2. CanRead(pc, 1)
        <3> SUFFICES ASSUME NEW k \in 0 .. 1 - 1
                     PROVE  CodeAt(pc + k) \in DOMAIN file.bytes
            BY DEF CanRead
        <3>1. pc + k \in Nat /\ pc + k < len
            BY <1>3, <1>8, <1>11
        <3>2. QED BY <2>1, <3>1
    <2>3. ASSUME n > 0 PROVE CanRead(pc + 1, n)
        <3> SUFFICES ASSUME NEW k \in 0 .. n - 1
                     PROVE  CodeAt(pc + 1 + k) \in DOMAIN file.bytes
            BY DEF CanRead
        <3>1. pc + 1 + k \in Nat /\ pc + 1 + k < len
            BY <1>3, <1>8, <1>11
        <3>2. QED BY <2>1, <3>1
    <2>4. QED BY <2>2, <2>3
<1>14. CanWrite(ip) /\ (n > 0 => CanWrite(ip + 1)) /\ InsideCode(pc)
    <2>1. ip < len /\ (n > 0 => ip + 1 < len) /\ pc <= len
        <3> HIDE DEF ip, len, pc
        <3>1. QED BY <1>3, <1>8, <1>11
    <2>2. QED BY <1>2, <2>1 DEF CanWrite, InsideCode, header
<1>15. QED
    BY <1>1, <1>3, <1>4, <1>5, <1>6, <1>8, <1>10, <1>12, <1>13, <1>14
    DEF Source, Offsets, Pointers

LEMMA StoredIsTable ==
    ASSUME NEW t, NEW x, NEW v
    PROVE  /\ IsTable(Stored(t, x, v)) /\ DOMAIN Stored(t, x, v) = DOMAIN t \cup {x}
           /\ Stored(t, x, v)[x] = v
           /\ \A y \in DOMAIN t : y # x => Stored(t, x, v)[y] = t[y]
    BY DEF IsTable, Stored

LEMMA ExpandFollows == LoaderInv /\ Follows /\ (Expand \/ ExpandWild) => Follows'
<1> SUFFICES ASSUME LoaderInv, Follows, Expand \/ ExpandWild PROVE Follows'
    OBVIOUS
<1>1. /\ InLoop("expand") /\ loop.instruction < instructionCount /\ file' = file
      /\ creating = "translate" /\ mode = "ok"
    BY DEF Expand, ExpandWild, InLoop, Going, FailStoring, Fails, GoWild
<1>2. CASE ~ Assembled
    BY <1>1, <1>2 DEF Follows, Assembled
<1>3. CASE Assembled
    <2> DEFINE op == file.bytes[CodeAt(loop.bytePc)]
               n  == OperandBytes(op)
    <2>1. PICK f \in Files, i \in Nat : f = file /\ i = loop.instruction
        BY DEF LoaderInv, LoaderTypeOK
    <2>2. /\ f.source # << >> /\ Len(f.source) \in Nat /\ i \in 0 .. Len(f.source) - 1
          /\ loop.bytePc = FileOffsets(f.source)[i]
          /\ loop.intPc = InstructionPointers(f.source)[i]
          /\ op = Code(f.source[i + 1].op) /\ op \in 0 .. OP_MAX - 1
          /\ FileOffsets(f.source)[i + 1] = loop.bytePc + 1 + n
          /\ InstructionPointers(f.source)[i + 1] = loop.intPc + IF n = 0 THEN 1 ELSE 2
        BY <1>1, <1>3, <2>1, NextToExpand DEF Source, Offsets, Pointers
    <2>3. /\ CanRead(loop.bytePc, 1) /\ CanWrite(loop.intPc) /\ InsideCode(loop.bytePc)
          /\ n \in {0, 1, 4}
          /\ n > 0 => CanRead(loop.bytePc + 1, n) /\ CanWrite(loop.intPc + 1)
        BY <1>1, <1>3, NextToExpand
    <2>4. /\ n > 0 <=> CodeInts(f.source[i + 1]) = 2
          /\ n > 0 => Operand(n) = f.source[i + 1].operand
        BY <1>1, <1>3, <2>1, NextToExpand DEF Source
    <2>5. op < OP_MAX /\ ~ (op >= OP_MAX)
        <3>1. op \in 0 .. OP_MAX - 1
            BY <2>2
        <3> HIDE DEF op
        <3>2. QED BY <3>1 DEF OP_MAX
    <2>6. ~ ExpandWild
        BY <2>3 DEF ExpandWild
    <2> DEFINE one == Stored(codeBase, loop.intPc, op)
    <2>7. /\ codeBase' = IF n = 0 THEN one ELSE Stored(one, loop.intPc + 1, Operand(n))
          /\ instructionPointers' = Stored(instructionPointers, i, loop.intPc)
          /\ loop' = [loop EXCEPT !.instruction = @ + 1, !.bytePc = @ + 1 + n,
                                  !.intPc  = @ + IF n = 0 THEN 1 ELSE 2]
          /\ UNCHANGED << file, creating, errors, mode, codeLength, instructionCount, data >>
        BY <2>1, <2>3, <2>5, <2>6 DEF Expand
    <2>8. Unpacked /\ DOMAIN instructionPointers = 0 .. i - 1
        BY <1>1, <1>3, <2>1, Expanding DEF Follows, InLoop
    <2>9. /\ loop'.instruction = i + 1 /\ loop'.pass = "expand"
          /\ loop'.bytePc = loop.bytePc + 1 + n
          /\ loop'.intPc = loop.intPc + IF n = 0 THEN 1 ELSE 2
        <3>1. loop \in [pass : {"expand", "resolve"}, bytePc : Nat, intPc : Nat,
                        instruction : Nat] /\ loop.pass = "expand"
            BY <1>1 DEF LoaderInv, LoaderTypeOK, InLoop
        <3> DEFINE m == IF n = 0 THEN 1 ELSE 2
        <3>2. loop' = [loop EXCEPT !.instruction = @ + 1, !.bytePc = @ + 1 + n,
                                   !.intPc = @ + m]
            BY <2>7
        <3> HIDE DEF n, m
        <3>3. loop = [pass |-> loop.pass, bytePc |-> loop.bytePc,
                      intPc |-> loop.intPc, instruction |-> loop.instruction]
            BY <3>1
        <3>4. loop' = [pass |-> loop.pass, bytePc |-> loop.bytePc + 1 + n,
                       intPc |-> loop.intPc + m, instruction |-> loop.instruction + 1]
            BY <3>2, <3>3
        <3>5. QED BY <2>1, <3>1, <3>4 DEF m
    <2> HIDE DEF op, n
    <2>10. DOMAIN codeBase = Ints(codeLength \div 4) \cup Ints(InstructionPointers(f.source)[i])
           /\ Holds(codeBase, f.source, i, 0)
        BY <2>1, <2>2, <2>8 DEF Unpacked, Source
    <2>11. CodeInts(f.source[i + 1]) \in {1, 2}
        BY LengthFacts
    <2>12. codeBase' = IF CodeInts(f.source[i + 1]) = 1 THEN one
                       ELSE Stored(one, InstructionPointers(f.source)[i] + 1,
                                   f.source[i + 1].operand)
        BY <2>2, <2>3, <2>4, <2>7, <2>11
    <2>13. one = Stored(codeBase, InstructionPointers(f.source)[i], Code(f.source[i + 1].op))
        BY <2>2
    <2>14. IsTable(codeBase')
        BY <2>7, StoredIsTable
    <2> HIDE DEF one
    <2>15. /\ DOMAIN codeBase' = Ints(codeLength \div 4)
                                    \cup Ints(InstructionPointers(f.source)[i + 1])
           /\ Holds(codeBase', f.source, i + 1, 0)
        <3>1. PICK c, d, o, D : /\ c = codeBase /\ d = codeBase' /\ o = one
                                /\ D = Ints(codeLength \div 4)
            OBVIOUS
        <3>2. /\ DOMAIN c = D \cup Ints(InstructionPointers(f.source)[i])
              /\ Holds(c, f.source, i, 0)
            BY <2>10, <3>1
        <3>3. o = Stored(c, InstructionPointers(f.source)[i], Code(f.source[i + 1].op))
            BY <2>13, <3>1
        <3>4. d = IF CodeInts(f.source[i + 1]) = 1 THEN o
                  ELSE Stored(o, InstructionPointers(f.source)[i] + 1,
                              f.source[i + 1].operand)
            BY <2>12, <3>1
        <3>5. /\ DOMAIN d = D \cup Ints(InstructionPointers(f.source)[i + 1])
              /\ Holds(d, f.source, i + 1, 0)
            BY <2>2, <3>2, <3>3, <3>4, PutOneMore
        <3>6. QED BY <3>1, <3>5
    <2>16. /\ IsTable(instructionPointers')
           /\ \A k \in 0 .. (i + 1) - 1 :
                 instructionPointers'[k] = InstructionPointers(f.source)[k]
        <3>1. \A k \in 0 .. i - 1 : instructionPointers[k] = InstructionPointers(f.source)[k]
            BY <2>1, <2>8 DEF Unpacked, Placed, Pointers
        <3>2. PICK g, x : g = instructionPointers /\ x = loop.intPc
            OBVIOUS
        <3>3. instructionPointers' = Stored(g, i, x) /\ DOMAIN g = 0 .. i - 1
              /\ x = InstructionPointers(f.source)[i]
            BY <2>2, <2>7, <2>8, <3>2
        <3>4. IsTable(instructionPointers')
            BY <3>3, StoredIsTable
        <3>5. ASSUME NEW k \in 0 .. (i + 1) - 1
              PROVE  instructionPointers'[k] = InstructionPointers(f.source)[k]
            <4>1. CASE k = i
                BY <3>3, <4>1 DEF Stored
            <4>2. CASE k # i
                <5>1. k \in 0 .. i - 1
                    BY <4>2
                <5>2. Stored(g, i, x)[k] = g[k]
                    BY <3>3, <4>2, <5>1 DEF Stored
                <5>3. QED BY <3>1, <3>2, <3>3, <5>1, <5>2
            <4>3. QED BY <4>1, <4>2
        <3>6. QED BY <3>4, <3>5
    <2>17. Unpacked'
        BY <2>1, <2>2, <2>7, <2>9, <2>14, <2>15, <2>16
        DEF Unpacked, Placed, Source, Offsets, Pointers
    <2>18. NoRefusal'
        BY <1>1, <1>3, <2>7 DEF Follows, NoRefusal, errors, data
    <2>19. QED BY <1>1, <2>7, <2>9, <2>17, <2>18 DEF Follows, Loaded
<1>4. QED BY <1>2, <1>3

(* When every instruction is expanded, the bytes are all overwritten.        *)
LEMMA ExpandedFollows == LoaderInv /\ Follows /\ Expanded => Follows'
<1> SUFFICES ASSUME LoaderInv, Follows, Expanded PROVE Follows'
    OBVIOUS
<1>1. /\ creating = "translate" /\ loop.pass = "expand" /\ mode = "ok"
      /\ loop.instruction = instructionCount /\ loop' = Start("resolve")
      /\ UNCHANGED << file, creating, lastError, codeLength, instructionCount,
                      instructionPointers, codeBase, dataAlloc, mode >>
    BY DEF Expanded, InLoop, Going, errors, code, data
<1>2. loop'.pass = "resolve" /\ loop'.instruction = 0
    BY <1>1, StartIs
<1>3. CASE ~ Assembled
    BY <1>1, <1>3 DEF Follows, Assembled
<1>4. CASE Assembled
    <2>1. PICK f \in Files : f = file
        BY DEF LoaderInv, LoaderTypeOK
    <2>2. f.source # << >>
        BY <1>4, <2>1 DEF Assembled
    <2>3. /\ Unpacked /\ instructionCount = f.header.instructionCount
          /\ codeLength = f.header.codeLength
        BY <1>1, <1>4, <2>1, Expanding DEF Follows, header
    <2> DEFINE n == Len(f.source)
               F == FileOffsets(f.source)
               P == InstructionPointers(f.source)
    <2>4. /\ n \in Nat /\ n > 0 /\ instructionCount = n
          /\ codeLength = Aligned(F[n]) /\ F[n] \in Nat /\ P[n] \in Nat
          /\ F[n] + 3 * n <= 4 * P[n]
        BY <2>2, <2>3, SourceFacts, TablesOf, LayoutOf
    <2>5. DOMAIN codeBase = Ints(codeLength \div 4) \cup Ints(P[n])
        BY <1>1, <2>1, <2>3, <2>4 DEF Unpacked, Pointers
    <2> HIDE DEF n, F, P
    <2>6. codeLength \div 4 <= P[n]
        <3>1. PICK x \in Nat, y \in Nat : x = F[n] /\ y = P[n]
            BY <2>4
        <3>2. x + 3 <= 4 * y
            BY <2>4, <3>1
        <3>3. (((x + 3) \div 4) * 4) \div 4 <= y
            BY <3>2
        <3>4. QED BY <2>4, <3>1, <3>3 DEF Aligned
    <2>7. codeLength \div 4 \in Int
        BY <2>4 DEF Aligned
    <2>8. DOMAIN codeBase = Ints(P[n])
        BY <2>4, <2>5, <2>6, <2>7 DEF Ints
    <2>9. /\ IsTable(codeBase) /\ IsTable(instructionPointers)
          /\ \A k \in 0 .. n - 1 : instructionPointers[k] = P[k]
          /\ Holds(codeBase, f.source, n, 0)
        BY <1>1, <2>1, <2>3, <2>4 DEF Unpacked, Placed, Source, Pointers, P
    <2>10. Whole(loop.instruction)'
        BY <1>1, <1>2, <2>1, <2>4, <2>8, <2>9 DEF Whole, Placed, Source, Pointers, n, P
    <2>11. NoRefusal'
        BY <1>1, <1>4 DEF Follows, NoRefusal
    <2>12. QED BY <1>1, <1>2, <2>10, <2>11 DEF Follows, Loaded
<1>5. QED BY <1>3, <1>4

(* Where the second loop stands: the target of a branch is in the table.     *)
LEMMA NextToResolve ==
    ASSUME LoaderInv, Follows, Assembled, InLoop("resolve"),
           loop.instruction < instructionCount
    PROVE  /\ file \in Files /\ file.source # << >>
           /\ Len(Source) \in Nat /\ instructionCount = Len(Source)
           /\ loop.instruction \in 0 .. Len(Source) - 1
           /\ loop.intPc = Pointers[loop.instruction]
           /\ Name(codeBase[loop.intPc]) = Source[loop.instruction + 1].op
           /\ Source[loop.instruction + 1].op \in Branches =>
                 /\ codeBase[loop.intPc + 1] = Source[loop.instruction + 1].operand
                 /\ ~ TargetRefused(codeBase[loop.intPc + 1])
                 /\ codeBase[loop.intPc + 1] \in DOMAIN instructionPointers
                 /\ PlaceOf(codeBase[loop.intPc + 1]) =
                       Pointers[Source[loop.instruction + 1].operand]
<1> DEFINE src == file.source
           P   == InstructionPointers(src)
           i   == loop.instruction
           ins == src[i + 1]
<1>1. /\ creating = "translate" /\ loop.pass = "resolve" /\ Whole(i)
      /\ file \in Files /\ src # << >>
    BY DEF InLoop, Going, Follows, LoaderInv, LoaderTypeOK, Assembled
<1>2. /\ i \in Nat /\ loop.intPc = instructionPointers[i]
      /\ DOMAIN instructionPointers = 0 .. instructionCount - 1
    BY <1>1, Resolving
<1>3. instructionCount = file.header.instructionCount
    BY <1>1 DEF LoaderInv, HeaderFollowed, CodeTaken, header
<1>4. Len(src) \in Nat /\ instructionCount = Len(src)
    BY <1>1, <1>3, SourceFacts
<1>5. i \in 0 .. Len(src) - 1 /\ i + 1 \in 1 .. Len(src)
    BY <1>2, <1>4
<1>6. /\ \A k \in 0 .. Len(src) - 1 : instructionPointers[k] = P[k]
      /\ Holds(codeBase, src, Len(src), i)
    BY <1>1, <1>4 DEF Whole, Placed, Source, Pointers
<1>7. loop.intPc = P[i]
    BY <1>2, <1>5, <1>6
<1>8. /\ ins.op \in OpcodeNames
      /\ ins.op \in Branches => ins.operand \in 0 .. Len(src) - 1
    BY <1>1, <1>5, InstructionFacts
<1>9. /\ codeBase[P[i]] = Code(ins.op)
      /\ CodeInts(ins) = 2 => codeBase[P[i] + 1] = ins.operand
    <2>1. ~ (i < i)
        BY <1>2
    <2>2. QED BY <1>5, <1>6, <2>1 DEF Holds
<1>10. Name(codeBase[loop.intPc]) = ins.op
    BY <1>7, <1>8, <1>9, OpcodeFacts
<1>11. ASSUME ins.op \in Branches
       PROVE  /\ codeBase[loop.intPc + 1] = ins.operand
              /\ ~ TargetRefused(codeBase[loop.intPc + 1])
              /\ codeBase[loop.intPc + 1] \in DOMAIN instructionPointers
              /\ PlaceOf(codeBase[loop.intPc + 1]) = P[ins.operand]
    <2>1. CodeInts(ins) = 2
        BY <1>11 DEF CodeInts, WordOperand
    <2>2. codeBase[loop.intPc + 1] = ins.operand
        BY <1>7, <1>9, <2>1
    <2>3. ins.operand \in 0 .. Len(src) - 1
        BY <1>8, <1>11
    <2> HIDE DEF src, P, ins
    <2>4. ~ TargetRefused(ins.operand)
        BY <1>4, <2>3 DEF TargetRefused
    <2>5. PlaceOf(ins.operand) = P[ins.operand]
        BY <1>6, <2>3 DEF PlaceOf
    <2>6. QED BY <1>2, <1>4, <2>2, <2>3, <2>4, <2>5
<1>12. QED
    BY <1>1, <1>4, <1>5, <1>7, <1>10, <1>11 DEF Source, Pointers

LEMMA ResolveFollows == LoaderInv /\ Follows /\ (Resolve \/ ResolveWild) => Follows'
<1> SUFFICES ASSUME LoaderInv, Follows, Resolve \/ ResolveWild PROVE Follows'
    OBVIOUS
<1>1. /\ InLoop("resolve") /\ loop.instruction < instructionCount /\ file' = file
      /\ creating = "translate" /\ mode = "ok" /\ loop.pass = "resolve"
    BY DEF Resolve, ResolveWild, InLoop, Going, FailStoring, Fails, GoWild
<1>2. CASE ~ Assembled
    BY <1>1, <1>2 DEF Follows, Assembled
<1>3. CASE Assembled
    <2> DEFINE target == codeBase[loop.intPc + 1]
    <2>1. PICK f \in Files, i \in Nat : f = file /\ i = loop.instruction
        BY DEF LoaderInv, LoaderTypeOK
    <2> DEFINE ins == f.source[i + 1]
               P   == InstructionPointers(f.source)
    <2>2. /\ f.source # << >> /\ Len(f.source) \in Nat /\ i \in 0 .. Len(f.source) - 1
          /\ instructionCount = Len(f.source) /\ loop.intPc = P[i]
          /\ Name(codeBase[loop.intPc]) = ins.op
          /\ ins.op \in Branches =>
                /\ target = ins.operand /\ ~ TargetRefused(target)
                /\ target \in DOMAIN instructionPointers
                /\ PlaceOf(target) = P[ins.operand]
        BY <1>1, <1>3, <2>1, NextToResolve DEF Source, Pointers
    <2>3. ~ ResolveWild
        BY <2>2 DEF ResolveWild
    <2>4. /\ codeBase' = IF ins.op \in Branches
                         THEN [codeBase EXCEPT ![P[i] + 1] = P[ins.operand]]
                         ELSE codeBase
          /\ loop' = [loop EXCEPT
                         !.instruction = @ + 1,
                         !.intPc = @ + IF OperandBytes(codeBase[loop.intPc]) > 0
                                       THEN 2 ELSE 1]
          /\ UNCHANGED << file, creating, errors, mode, codeLength, instructionCount,
                          instructionPointers, data >>
        <3> HIDE DEF ins, P, target
        <3>1. CASE ins.op \notin Branches
            BY <2>2, <2>3, <3>1 DEF Resolve
        <3>2. CASE ins.op \in Branches
            <4>1. ~ TargetRefused(target)
                BY <2>2, <3>2
            <4>2. codeBase' = [codeBase EXCEPT ![loop.intPc + 1] = PlaceOf(target)]
                BY <2>2, <2>3, <3>2, <4>1 DEF Resolve, target
            <4>3. codeBase' = [codeBase EXCEPT ![P[i] + 1] = P[ins.operand]]
                BY <2>2, <3>2, <4>2
            <4>4. QED BY <2>2, <2>3, <3>2, <4>1, <4>3 DEF Resolve, target
        <3>3. QED BY <3>1, <3>2
    <2>5. loop'.instruction = i + 1 /\ loop'.pass = "resolve"
        <3>1. loop \in [pass : {"expand", "resolve"}, bytePc : Nat, intPc : Nat,
                        instruction : Nat]
            BY DEF LoaderInv, LoaderTypeOK
        <3> DEFINE m == IF OperandBytes(codeBase[loop.intPc]) > 0 THEN 2 ELSE 1
        <3>2. loop' = [loop EXCEPT !.instruction = @ + 1, !.intPc = @ + m] /\ m \in Nat
            BY <2>4
        <3> HIDE DEF m
        <3>3. PICK r, s, j : r = loop /\ s = loop' /\ j = m
            OBVIOUS
        <3>4. s.instruction = r.instruction + 1 /\ s.pass = r.pass
            BY <3>1, <3>2, <3>3, LoopGoesOn
        <3>5. QED BY <1>1, <2>1, <3>3, <3>4
    <2>6. Whole(i)
        BY <1>1, <1>3, <2>1 DEF Follows
    <2>7. /\ DOMAIN codeBase = Ints(P[Len(f.source)])
          /\ Holds(codeBase, f.source, Len(f.source), i)
        BY <2>1, <2>2, <2>6 DEF Whole, Source, Pointers
    <2>8. IsTable(codeBase') /\ IsTable(instructionPointers')
        BY <2>4, <2>6 DEF IsTable, Whole
    <2> HIDE DEF ins, P
    <2>9. /\ DOMAIN codeBase' = DOMAIN codeBase
          /\ Holds(codeBase', f.source, Len(f.source), i + 1)
        <3>1. PICK c, d : c = codeBase /\ d = codeBase'
            OBVIOUS
        <3>2. DOMAIN c = Ints(InstructionPointers(f.source)[Len(f.source)])
              /\ Holds(c, f.source, Len(f.source), i)
            BY <2>7, <3>1 DEF P
        <3>3. d = IF f.source[i + 1].op \in Branches
                  THEN [c EXCEPT ![InstructionPointers(f.source)[i] + 1] =
                           InstructionPointers(f.source)[f.source[i + 1].operand]]
                  ELSE c
            BY <2>4, <3>1 DEF P, ins
        <3>4. DOMAIN d = DOMAIN c /\ Holds(d, f.source, Len(f.source), i + 1)
            BY <2>2, <3>2, <3>3, ResolveOneMore
        <3>5. QED BY <3>1, <3>4
    <2>10. Whole(loop.instruction)'
        BY <2>1, <2>2, <2>4, <2>5, <2>6, <2>7, <2>8, <2>9
        DEF Whole, Placed, Source, Pointers, P
    <2>11. NoRefusal'
        BY <1>1, <1>3, <2>4 DEF Follows, NoRefusal, errors, data
    <2>12. QED BY <1>1, <2>4, <2>5, <2>10, <2>11 DEF Follows, Loaded
<1>4. QED BY <1>2, <1>3

LEMMA CreatedFollows == LoaderInv /\ Follows /\ Created => Follows'
<1> SUFFICES ASSUME LoaderInv, Follows, Created PROVE Follows'
    OBVIOUS
<1>1. /\ creating = "translate" /\ loop.pass = "resolve" /\ mode = "ok"
      /\ loop.instruction = instructionCount /\ creating' = "no"
      /\ UNCHANGED << file, lastError, codeLength, instructionCount,
                      instructionPointers, codeBase, dataAlloc, loop, mode >>
    BY DEF Created, InLoop, Going, errors, code, data
<1>2. Assembled => Whole(instructionCount)
    BY <1>1 DEF Follows
<1>3. Assembled' => Whole(instructionCount)'
    BY <1>1, <1>2 DEF Assembled, Whole, Placed, Source, Pointers
<1>4. QED BY <1>1, <1>3 DEF Follows, NoRefusal

LEMMA FollowsNext == LoaderInv /\ Follows /\ [Next]_vars => Follows'
<1> SUFFICES ASSUME LoaderInv, Follows, [Next]_vars PROVE Follows'
    OBVIOUS
<1>1. CASE CreateFails
    BY <1>1, FreeFollows DEF CreateFails, Going
<1>2. CASE VM_Free
    BY <1>2, FreeFollows DEF VM_Free, Going
<1>3. CASE UNCHANGED vars
    <2>1. UNCHANGED << file, creating, lastError, codeLength, instructionCount,
                       instructionPointers, codeBase, dataAlloc, loop, mode >>
        BY <1>3 DEF vars, errors, code, data
    <2>2. QED
        BY <2>1
        DEF Follows, Assembled, NoRefusal, Loaded, Unpacked, Whole, Placed, Source,
            Pointers, Offsets
<1>4. QED
    BY <1>1, <1>2, <1>3, CreateBeginFollows, LoadFollows, AllocatePointersFollows,
       AllocateCodeFollows, ExpandFollows, ExpandedFollows, ResolveFollows,
       CreatedFollows
    DEF Next

-----------------------------------------------------------------------------

(* A program that is loaded is the one its file holds, for every program     *)
(* q3asm can write: opcodes, operands, resolved branches and the table of    *)
(* instructions; and its file is never refused or read beyond its end.       *)
THEOREM LoaderFollowsSource == Spec => []FilesFollowed
<1>1. Spec => []Follows
    BY FollowsInit, FollowsNext, LoaderInvariance, PTL DEF Spec
<1>2. LoaderInv /\ Follows => LoadedFaithfully
    <2> SUFFICES ASSUME LoaderInv, Follows, Loaded, Assembled
                 PROVE  /\ codeBase = Load("", file.source).codeBase
                        /\ codeLength = Load("", file.source).codeLength
                        /\ instructionCount = Load("", file.source).instructionCount
                        /\ instructionPointers =
                              Load("", file.source).instructionPointers
        BY DEF LoadedFaithfully
    <2>1. PICK f \in Files : f = file
        BY DEF LoaderInv, LoaderTypeOK
    <2>2. f.source # << >>
        BY <2>1 DEF Assembled
    <2>3. /\ Whole(instructionCount) /\ codeLength = f.header.codeLength
          /\ instructionCount = f.header.instructionCount
          /\ DOMAIN instructionPointers = 0 .. instructionCount - 1
        BY <2>1 DEF LoaderInv, Follows, HeaderFollowed, CodeTaken, Progress, header
    <2> DEFINE n == Len(f.source)
               P == InstructionPointers(f.source)
    <2>4. /\ n \in Nat /\ instructionCount = n
          /\ codeLength = Aligned(FileOffsets(f.source)[n])
        BY <2>2, <2>3, SourceFacts
    <2>5. codeBase = Load("", f.source).codeBase
        <3>1. IsTable(codeBase) /\ DOMAIN codeBase = Ints(P[n])
              /\ Holds(codeBase, f.source, n, n)
            BY <2>1, <2>3, <2>4 DEF Whole, Source, Pointers
        <3>2. QED BY <2>4, <3>1, LoadedCode
    <2>6. instructionPointers = Load("", f.source).instructionPointers
        <3>1. /\ IsTable(instructionPointers)
              /\ \A k \in 0 .. n - 1 : instructionPointers[k] = P[k]
            BY <2>1, <2>3, <2>4 DEF Whole, Placed, Pointers
        <3>2. instructionPointers = [k \in 0 .. n - 1 |-> instructionPointers[k]]
            BY <2>3, <2>4, <3>1 DEF IsTable
        <3>3. Load("", f.source).instructionPointers = [k \in 0 .. n - 1 |-> P[k]]
            BY DEF Load
        <3> HIDE DEF n, P
        <3>4. QED BY <3>1, <3>2, <3>3
    <2>7. codeLength = Load("", f.source).codeLength
          /\ instructionCount = Load("", f.source).instructionCount
        BY <2>4 DEF Load
    <2>8. QED BY <2>1, <2>5, <2>6, <2>7
<1>3. Follows => AssembledAccepted
    BY DEF Follows, NoRefusal, AssembledAccepted
<1>4. LoaderInv /\ Follows => FilesFollowed
    BY <1>2, <1>3 DEF FilesFollowed
<1>5. QED BY <1>1, <1>4, LoaderInvariance, PTL
================================================================================
