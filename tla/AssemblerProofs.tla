---------------------------- MODULE AssemblerProofs ----------------------------
(***************************************************************************)
(* The two passes of q3asm put the same amount into each segment, for every *)
(* assembly files in the shape lcc gives them and every command line, with  *)
(* errors and without: the sizes that the addresses of the second pass were *)
(* computed from are the sizes of what it wrote.                            *)
(*                                                                         *)
(* What a line adds depends on the line, on the segment that was named last *)
(* and on the arguments stored since the last call, and on nothing else the *)
(* first pass leaves behind (After).  So both passes walk through the same  *)
(* sizes: the invariant says there is a table of them, for every file and   *)
(* line, that the first pass fills and the second follows.                  *)
(*                                                                         *)
(* The code that is written is a row of instructions for the loader, which  *)
(* looks at opcodes where the assembler looks at tokens: the invariant says *)
(* where each instruction begins, as long as no error was counted.          *)
(*                                                                         *)
(* A label is resolved to what is behind it: the invariant says that the    *)
(* symbol table has, for every label, the place of the line behind it in    *)
(* the table of sizes, through every move and the sort.                     *)
(***************************************************************************)
EXTENDS Assembler, WordLemmas, FiniteSetTheorems, TLAPS

Sized == {"CODESEG", "DATASEG", "LITSEG", "BSSSEG"}

-----------------------------------------------------------------------------
(* What a line does to the sizes.                                           *)

ArgOf(l, k) == IF k <= Len(l.args) THEN l.args[k] ELSE Number(0)
NumOf(l, k) == ToWord(ArgOf(l, k).n)
Extends(l)  == sourceOps[l.word] = "OP_SEX8"

OpLength(l) ==
    IF \/ sourceOps[l.word] = "OP_IGNORE"
       \/ Extends(l) /\ ArgOf(l, 1).n \notin DOMAIN SignExtension
    THEN 0
    ELSE IF /\ Len(l.args) > (IF Extends(l) THEN 1 ELSE 0)
            /\ sourceOps[l.word] \notin {"OP_CVIF", "OP_CVFI"}
         THEN 5 ELSE 1

ArgumentFits(offset) == ~ (8 + offset >= ArgumentLimit)

InCode(offset, l) ==
    IF l.word \in {"CALL", "pop"} THEN 1
    ELSE IF l.word = "ARG" THEN (IF ArgumentFits(offset) THEN 2 ELSE 1)
    ELSE IF l.word \in {"RET", "ADDRF", "ADDRL", "proc"} THEN 5
    ELSE IF l.word = "endproc" THEN 6
    ELSE IF l.word \in DOMAIN sourceOps THEN OpLength(l)
    ELSE 0

(* The segment that is named, the one that is added to, and its new size.   *)
CurrentAfter(current, l) ==
    IF l.word \in DOMAIN SegmentWords THEN SegmentWords[l.word]
    ELSE IF l.word = "address" \/ (l.word = "byte" /\ NumOf(l, 1) = 4) THEN "DATASEG"
    ELSE IF l.word = "byte" /\ NumOf(l, 1) = 1 THEN "LITSEG"
    ELSE current
Place(current, l) ==
    IF l.word \in {"address", "byte", "align", "skip"} THEN CurrentAfter(current, l)
    ELSE "CODESEG"
Filled(offset, l, n) ==
    IF l.word = "align" THEN ((n + NumOf(l, 1) - 1) \div NumOf(l, 1)) * NumOf(l, 1)
    ELSE IF l.word = "skip" THEN n + NumOf(l, 1)
    ELSE IF l.word = "byte" THEN n + (IF NumOf(l, 1) > 0 THEN NumOf(l, 1) ELSE 0)
    ELSE IF l.word = "address" THEN n + 4
    ELSE n + InCode(offset, l)
OffsetAfter(offset, l) ==
    IF l.word = "CALL" THEN 0
    ELSE IF l.word = "ARG" /\ ArgumentFits(offset) THEN offset + 4
    ELSE offset

After(st, l) ==
    [used    |-> [s \in Sized |-> IF s = Place(st.current, l)
                                  THEN Filled(st.offset, l, st.used[s]) ELSE st.used[s]],
     current |-> CurrentAfter(st.current, l),
     offset  |-> OffsetAfter(st.offset, l)]

(* The number of instructions.                                              *)
Counted(n, l) ==
    IF l.word \in {"CALL", "ARG", "RET", "pop", "ADDRF", "ADDRL", "proc"} THEN n + 1
    ELSE IF l.word = "endproc" THEN n + 2
    ELSE IF l.word \in DOMAIN sourceOps /\ OpLength(l) # 0 THEN n + 1
    ELSE n
Stepped(entry, l) == [sizes |-> After(entry.sizes, l), count |-> Counted(entry.count, l)]

Now == [used    |-> [s \in Sized |-> Used(s)],
        current |-> currentSegment,
        offset  |-> frame.argOffset]

-----------------------------------------------------------------------------
(* The shape of the state that these speak about.                           *)

SegmentRecord(r) ==
    r = [image |-> r.image, imageUsed |-> r.imageUsed, segmentBase |-> r.segmentBase]
Shaped ==
    /\ segment = [s \in Segments |-> segment[s]]
    /\ \A s \in Segments : SegmentRecord(segment[s]) /\ Used(s) \in Int
FrameShaped ==
    /\ frame = [locals |-> frame.locals, args |-> frame.args, argOffset |-> frame.argOffset]
    /\ frame.argOffset \in Int

LineType == [word : STRING, args : Seq([sym : STRING, n : Int])]

LEMMA SizedSegments == Sized \subseteq Segments
    BY DEF Sized, Segments

(* An operation is no other statement.                                      *)
LEMMA OpsApart ==
    ASSUME NEW w \in DOMAIN sourceOps
    PROVE  /\ w \notin {"CALL", "ARG", "RET", "pop", "ADDRF", "ADDRL", "proc", "endproc",
                        "address", "equ", "align", "skip", "byte", "LABEL", "TooLong"}
           /\ w \notin Silent /\ w \notin DOMAIN SegmentWords
    BY OperationsAssumption

LEMMA OpsApartFrom ==
    ASSUME NEW w \in {"CALL", "ARG", "RET", "pop", "ADDRF", "ADDRL", "proc", "endproc",
                      "address", "equ", "align", "skip", "byte", "LABEL", "TooLong"}
                      \cup Silent \cup DOMAIN SegmentWords
    PROVE  w \notin DOMAIN sourceOps
    BY OperationsAssumption

LEMMA SegmentWordsDomain ==
    /\ DOMAIN SegmentWords = {"code", "data", "lit", "bss"}
    /\ SegmentWords["code"] = "CODESEG" /\ SegmentWords["data"] = "DATASEG"
    /\ SegmentWords["lit"] = "LITSEG" /\ SegmentWords["bss"] = "BSSSEG"
    BY DEF SegmentWords

(* The numbers of a line.                                                   *)
LEMMA LineNumbers ==
    ASSUME NEW l \in LineType, NEW k \in Nat \ {0}
    PROVE  ArgOf(l, k).n \in Int /\ NumOf(l, k) \in Int
<1> DEFINE Token == [sym : STRING, n : Int]
<1>1. ASSUME k <= Len(l.args) PROVE ArgOf(l, k).n \in Int
    <2>1. l.args \in Seq(Token)
        BY DEF LineType
    <2>2. k \in 1 .. Len(l.args)
        BY <1>1, <2>1, LenProperties
    <2>3. l.args[k] \in Token
        <3> HIDE DEF Token
        <3>1. QED BY <2>1, <2>2, ElementOfSeq
    <2>4. QED BY <1>1, <2>3 DEF ArgOf
<1>2. ASSUME ~ (k <= Len(l.args)) PROVE ArgOf(l, k).n \in Int
    BY <1>2 DEF ArgOf, Number
<1>3. ArgOf(l, k).n \in Int
    BY <1>1, <1>2
<1>4. NumOf(l, k) \in Word
    BY <1>3, ToWordFacts DEF NumOf
<1>5. QED BY <1>3, <1>4, WordSize DEF Word

-----------------------------------------------------------------------------
(* What Emit and the changes of one size leave.                             *)

Base(s) == segment[s].segmentBase

(* The sizes after a step that adds to one segment; the bases stay.         *)
Grown(s, n) ==
    /\ \A t \in Sized : Used(t)' = IF t = s THEN n ELSE Used(t)
    /\ \A t \in Segments : Base(t)' = Base(t)

LEMMA RecordExcept ==
    ASSUME NEW r, SegmentRecord(r), NEW im, NEW n
    PROVE  /\ [r EXCEPT !.image = im, !.imageUsed = n]
                = [image |-> im, imageUsed |-> n, segmentBase |-> r.segmentBase]
           /\ [r EXCEPT !.imageUsed = n]
                = [image |-> r.image, imageUsed |-> n, segmentBase |-> r.segmentBase]
<1>1. r = [image |-> r.image, imageUsed |-> r.imageUsed, segmentBase |-> r.segmentBase]
    BY DEF SegmentRecord
<1> DEFINE a == r.image
           b == r.imageUsed
           c == r.segmentBase
<1> HIDE DEF a, b, c
<1>2. r = [image |-> a, imageUsed |-> b, segmentBase |-> c]
    BY <1>1 DEF a, b, c
<1>3. [[image |-> a, imageUsed |-> b, segmentBase |-> c] EXCEPT !.imageUsed = n]
        = [image |-> a, imageUsed |-> n, segmentBase |-> c]
    OBVIOUS
<1>4. [r EXCEPT !.image = im, !.imageUsed = n]
        = [image |-> im, imageUsed |-> n, segmentBase |-> c]
    <2>1. [r EXCEPT !.image = im, !.imageUsed = n]
            = [[r EXCEPT !.image = im] EXCEPT !.imageUsed = n]
        BY <1>2
    <2>2. [[image |-> a, imageUsed |-> b, segmentBase |-> c] EXCEPT !.image = im]
            = [image |-> im, imageUsed |-> b, segmentBase |-> c]
        OBVIOUS
    <2>3. [[image |-> im, imageUsed |-> b, segmentBase |-> c] EXCEPT !.imageUsed = n]
            = [image |-> im, imageUsed |-> n, segmentBase |-> c]
        OBVIOUS
    <2>4. QED BY <1>2, <2>1, <2>2, <2>3
<1>5. QED BY <1>2, <1>3, <1>4 DEF a, c

LEMMA SegmentSet ==
    ASSUME Shaped, NEW s, NEW im, NEW n,
           s \in Segments => n \in Int,
           segment' = [segment EXCEPT ![s] =
                          [image |-> im, imageUsed |-> n, segmentBase |-> segment[s].segmentBase]]
    PROVE  Shaped' /\ Grown(s, n)
<1> DEFINE r == [image |-> im, imageUsed |-> n, segmentBase |-> segment[s].segmentBase]
<1>1. /\ r.imageUsed = n /\ r.segmentBase = Base(s) /\ r.image = im
      /\ r = [image |-> r.image, imageUsed |-> r.imageUsed, segmentBase |-> r.segmentBase]
    BY DEF Base
<1> HIDE DEF r
<1>2. segment' = [segment EXCEPT ![s] = r]
    BY DEF r
<1>3. segment' = [t \in Segments |-> IF t = s THEN r ELSE segment[t]]
    BY <1>2 DEF Shaped
<1>4. \A t \in Segments : segment'[t] = IF t = s THEN r ELSE segment[t]
    BY <1>3
<1>5. segment' = [t \in Segments |-> segment'[t]]
    BY <1>3
<1>6. Grown(s, n)
    BY <1>1, <1>4, SizedSegments DEF Grown, Used, Base
<1>7. ASSUME NEW t \in Segments PROVE SegmentRecord(segment'[t]) /\ segment'[t].imageUsed \in Int
    <2>1. CASE t = s
        BY <2>1, <1>1, <1>4 DEF SegmentRecord
    <2>2. CASE t # s
        BY <2>2, <1>4 DEF Shaped, Used
    <2>3. QED BY <2>1, <2>2
<1>8. Shaped'
    BY <1>5, <1>7 DEF Shaped, Used
<1>9. QED BY <1>6, <1>8

LEMMA SegmentOutside ==
    ASSUME Shaped, NEW s, s \notin Segments, NEW r
    PROVE  [segment EXCEPT ![s] = r] = segment
    BY DEF Shaped

(* Emit adds the bytes or ends the program.                                 *)
LEMMA EmitStep ==
    ASSUME Shaped, NEW s, NEW bytes, NEW endsInInt, Len(bytes) \in Nat,
           Emit(s, bytes, endsInInt), phase' # "exited"
    PROVE  Shaped' /\ Grown(s, Used(s) + Len(bytes))
<1>1. segment' = [segment EXCEPT ![s] = Emitted(segment[s], bytes)]
    BY DEF Emit
<1>2. CASE s \in Segments
    <2> DEFINE n == Used(s) + Len(bytes)
               im == SubSeq(segment[s].image, 1, segment[s].imageUsed) \o bytes
                        \o SubSeq(segment[s].image, n + 1, Len(segment[s].image))
    <2>1. SegmentRecord(segment[s]) /\ n \in Int
        BY <1>2 DEF Shaped
    <2>2. Emitted(segment[s], bytes) = [segment[s] EXCEPT !.image = im, !.imageUsed = n]
        BY DEF Emitted, Used
    <2> HIDE DEF im, n
    <2>3. Emitted(segment[s], bytes)
            = [image |-> im, imageUsed |-> n, segmentBase |-> segment[s].segmentBase]
        BY <2>1, <2>2, RecordExcept
    <2>4. Shaped' /\ Grown(s, n)
        BY <1>1, <2>1, <2>3, SegmentSet
    <2>5. QED BY <2>4 DEF n
<1>3. CASE s \notin Segments
    <2>1. segment' = segment
        BY <1>1, <1>3, SegmentOutside
    <2>2. QED BY <2>1, <1>3, SizedSegments DEF Shaped, Grown, Used, Base
<1>4. QED BY <1>2, <1>3

(* align and skip set the size of the current segment.                      *)
LEMMA SizeStep ==
    ASSUME Shaped, NEW s, NEW n, s \in Segments => n \in Int,
           segment' = [segment EXCEPT ![s].imageUsed = n]
    PROVE  Shaped' /\ Grown(s, n)
<1>1. CASE s \in Segments
    <2>1. [segment[s] EXCEPT !.imageUsed = n]
            = [image |-> segment[s].image, imageUsed |-> n,
               segmentBase |-> segment[s].segmentBase]
        BY <1>1, RecordExcept DEF Shaped
    <2>2. QED BY <1>1, <2>1, SegmentSet
<1>2. CASE s \notin Segments
    <2>1. segment' = segment
        BY <1>2, SegmentOutside
    <2>2. QED BY <2>1, <1>2, SizedSegments DEF Shaped, Grown, Used, Base
<1>3. QED BY <1>1, <1>2

(* Nothing is added.                                                        *)
LEMMA SegmentKept ==
    ASSUME Shaped, UNCHANGED segment, NEW s
    PROVE  /\ Shaped'
           /\ Grown(s, Used(s) + 0)
<1>1. Shaped'
    BY DEF Shaped, Used
<1>2. \A t \in Segments : Used(t) \in Int
    BY DEF Shaped
<1>3. QED BY <1>1, <1>2, SizedSegments DEF Grown, Used, Base

-----------------------------------------------------------------------------
(* The lengths of what is emitted.                                          *)

LEMMA PairLength ==
    ASSUME NEW a, NEW b, NEW S, b \in Seq(S)
    PROVE  Len(<< a >> \o b) = Len(b) + 1
<1> DEFINE T == S \cup {a}
<1>1. << a >> \in Seq(T) /\ Len(<< a >>) = 1
    OBVIOUS
<1>2. b \in Seq(T) /\ Len(b) \in Nat
    BY SeqMonotonic, LenProperties
<1> HIDE DEF T
<1>3. << a >> \o b \in Seq(T) /\ Len(<< a >> \o b) = 1 + Len(b)
    BY <1>1, <1>2, ConcatProperties
<1>4. QED BY <1>2, <1>3 DEF T

LEMMA RowLength ==
    ASSUME NEW w, NEW n \in Int
    PROVE  Len([k \in 1 .. n |-> ByteOf(w, k - 1)]) = IF n > 0 THEN n ELSE 0
<1>1. CASE n > 0
    BY <1>1
<1>2. CASE ~ (n > 0)
    <2>1. 1 .. n = {}
        BY <1>2
    <2>2. [k \in 1 .. n |-> ByteOf(w, k - 1)] = << >>
        BY <2>1
    <2>3. QED BY <1>2, <2>2
<1>3. QED BY <1>1, <1>2

LEMMA BytesSeq ==
    ASSUME NEW v
    PROVE  Bytes(v) \in Seq({ByteOf(v, k - 1) : k \in 1 .. 4}) /\ Len(Bytes(v)) = 4
    BY DEF Bytes

LEMMA WordEncoded ==
    ASSUME NEW op \in WordOperand, NEW v
    PROVE  /\ \E S : Encoded(Instruction(op, v)) \in Seq(S)
           /\ Len(Encoded(Instruction(op, v))) = 5
<1>1. Encoded(Instruction(op, v)) = << Code(op) >> \o Bytes(v)
    <2>1. op \notin ByteOperand
        BY DEF ByteOperand, WordOperand, Branches, IntBranches, FloatBranches
    <2>2. QED BY <2>1 DEF Encoded, Instruction
<1> DEFINE S == {ByteOf(v, k - 1) : k \in 1 .. 4}
           T == S \cup {Code(op)}
<1>2. Bytes(v) \in Seq(S) /\ Len(Bytes(v)) = 4
    BY BytesSeq
<1>3. << Code(op) >> \in Seq(T) /\ Bytes(v) \in Seq(T)
    <2>1. S \subseteq T
        OBVIOUS
    <2>2. QED BY <1>2, <2>1, SeqMonotonic
<1> HIDE DEF S, T
<1>4. Len(<< Code(op) >> \o Bytes(v)) = 4 + 1
    BY <1>2, PairLength
<1>5. << Code(op) >> \o Bytes(v) \in Seq(T)
    BY <1>3, ConcatProperties
<1>6. QED BY <1>1, <1>4, <1>5

LEMMA ByteEncoded ==
    ASSUME NEW v
    PROVE  Len(Encoded(Instruction("OP_ARG", v))) = 2
<1>1. "OP_ARG" \in ByteOperand /\ "OP_ARG" \notin WordOperand
    BY DEF ByteOperand, WordOperand, Branches, IntBranches, FloatBranches
<1>2. Encoded(Instruction("OP_ARG", v)) = << Code("OP_ARG") >> \o << v >>
    BY <1>1 DEF Encoded, Instruction
<1>3. << v >> \in Seq({v}) /\ Len(<< v >>) = 1
    OBVIOUS
<1>4. QED BY <1>2, <1>3, PairLength

LEMMA EmittedLengths ==
    ASSUME NEW op, NEW v
    PROVE  /\ Len(Instruct(op)) = 1
           /\ Len(Instruct(op) \o Bytes(v)) = 5
           /\ Len(Instruct(op) \o Encoded(Instruction("OP_LEAVE", v))) = 6
<1>1. Len(Instruct(op)) = 1
    BY DEF Instruct
<1>2. Len(Instruct(op) \o Bytes(v)) = 5
    <2> DEFINE S == {ByteOf(v, k - 1) : k \in 1 .. 4}
    <2>1. Bytes(v) \in Seq(S) /\ Len(Bytes(v)) = 4
        BY BytesSeq
    <2> HIDE DEF S
    <2>2. Len(<< Code(op) >> \o Bytes(v)) = 4 + 1
        BY <2>1, PairLength
    <2>3. QED BY <2>2 DEF Instruct
<1>3. "OP_LEAVE" \in WordOperand
    BY DEF WordOperand
<1>4. Len(Instruct(op) \o Encoded(Instruction("OP_LEAVE", v))) = 6
    <2> DEFINE e == Encoded(Instruction("OP_LEAVE", v))
    <2>1. PICK S : e \in Seq(S)
        BY <1>3, WordEncoded
    <2>2. Len(e) = 5
        BY <1>3, WordEncoded
    <2> HIDE DEF e
    <2>3. Len(<< Code(op) >> \o e) = 5 + 1
        BY <2>1, <2>2, PairLength
    <2>4. QED BY <2>3 DEF Instruct, e
<1>5. QED BY <1>1, <1>2, <1>4

-----------------------------------------------------------------------------
(* A line advances the sizes as After says.                                 *)

Advanced == Now' = After(Now, line) /\ \A t \in Segments : Base(t)' = Base(t)

CodeWords == {"CALL", "pop", "ARG", "RET", "ADDRF", "ADDRL", "proc", "endproc"}

LEMMA Combine ==
    ASSUME NEW n, Grown(Place(currentSegment, line), n),
           Place(currentSegment, line) \in Sized =>
               n = Filled(frame.argOffset, line, Used(Place(currentSegment, line))),
           currentSegment' = CurrentAfter(currentSegment, line),
           frame'.argOffset = OffsetAfter(frame.argOffset, line)
    PROVE  Advanced
<1> DEFINE s == Place(currentSegment, line)
           off == frame.argOffset
<1>1. Grown(s, n) /\ (s \in Sized => n = Filled(off, line, Used(s)))
    OBVIOUS
<1>2. /\ After(Now, line).used
            = [t \in Sized |-> IF t = s THEN Filled(off, line, Now.used[t]) ELSE Now.used[t]]
      /\ After(Now, line) = [used |-> After(Now, line).used,
                             current |-> CurrentAfter(currentSegment, line),
                             offset |-> OffsetAfter(off, line)]
    BY DEF After, Now
<1>3. \A t \in Sized : Now.used[t] = Used(t)
    BY DEF Now
<1>4. Now' = [used |-> [t \in Sized |-> Used(t)'], current |-> currentSegment',
              offset |-> frame'.argOffset]
    BY DEF Now
<1> HIDE DEF s, off
<1>5. \A t \in Sized : Used(t)' = IF t = s THEN Filled(off, line, Now.used[t]) ELSE Now.used[t]
    BY <1>1, <1>3 DEF Grown
<1>6. [t \in Sized |-> Used(t)'] = After(Now, line).used
    BY <1>2, <1>5
<1>7. Now' = After(Now, line)
    BY <1>2, <1>4, <1>6 DEF off
<1>8. QED BY <1>1, <1>7 DEF Advanced, Grown

LEMMA WordsInCode ==
    ASSUME NEW l, NEW current, NEW offset, NEW n,
           l.word \notin {"address", "byte", "align", "skip"},
           l.word \notin DOMAIN SegmentWords
    PROVE  /\ CurrentAfter(current, l) = current
           /\ Place(current, l) = "CODESEG"
           /\ Filled(offset, l, n) = n + InCode(offset, l)
    BY DEF CurrentAfter, Place, Filled

LEMMA WordApart ==
    ASSUME NEW w, w \in CodeWords \/ w \in DOMAIN sourceOps
    PROVE  w \notin {"address", "byte", "align", "skip"} /\ w \notin DOMAIN SegmentWords
<1>1. CASE w \in CodeWords
    BY <1>1, SegmentWordsDomain DEF CodeWords
<1>2. CASE w \in DOMAIN sourceOps
    BY <1>2, OpsApart
<1>3. QED BY <1>1, <1>2

(* An instruction is emitted.                                               *)
InstructionWord(w) == w \in CodeWords \/ w \in DOMAIN sourceOps
EmitsCode(bytes)   ==
    Emit("CODESEG", bytes, TRUE) \/ Emit("CODESEG", bytes, FALSE)

LEMMA InCodeNat ==
    ASSUME NEW l, NEW offset
    PROVE  InCode(offset, l) \in Nat
    BY DEF InCode, OpLength

LEMMA CodeStep ==
    ASSUME Shaped, InstructionWord(line.word), NEW bytes,
           EmitsCode(bytes), phase' # "exited",
           Len(bytes) = InCode(frame.argOffset, line),
           currentSegment' = currentSegment,
           frame'.argOffset = OffsetAfter(frame.argOffset, line)
    PROVE  Shaped' /\ Advanced
<1>1. /\ CurrentAfter(currentSegment, line) = currentSegment
      /\ Place(currentSegment, line) = "CODESEG"
      /\ Filled(frame.argOffset, line, Used("CODESEG"))
            = Used("CODESEG") + InCode(frame.argOffset, line)
    BY WordApart, WordsInCode DEF InstructionWord
<1>2. Shaped' /\ Grown("CODESEG", Used("CODESEG") + Len(bytes))
    <2>1. Len(bytes) \in Nat
        BY InCodeNat
    <2>2. PICK e \in BOOLEAN : Emit("CODESEG", bytes, e)
        BY DEF EmitsCode
    <2>3. QED BY <2>1, <2>2, EmitStep
<1>3. QED BY <1>1, <1>2, Combine

(* Nothing is.                                                              *)
LEMMA QuietStep ==
    ASSUME Shaped, line.word \notin {"address", "byte", "align", "skip"},
           line.word \notin DOMAIN SegmentWords,
           InCode(frame.argOffset, line) = 0,
           UNCHANGED << segment, currentSegment >>,
           frame'.argOffset = OffsetAfter(frame.argOffset, line)
    PROVE  Shaped' /\ Advanced
<1>1. /\ CurrentAfter(currentSegment, line) = currentSegment
      /\ Place(currentSegment, line) = "CODESEG"
      /\ Filled(frame.argOffset, line, Used("CODESEG"))
            = Used("CODESEG") + InCode(frame.argOffset, line)
    BY WordsInCode
<1>2. Shaped' /\ Grown("CODESEG", Used("CODESEG") + 0)
    BY SegmentKept
<1>3. QED BY <1>1, <1>2, Combine

LEMMA FrameOffset ==
    ASSUME FrameShaped, NEW n \in Int, frame' = [frame EXCEPT !.argOffset = n]
    PROVE  FrameShaped' /\ frame'.argOffset = n
<1> DEFINE a == frame.locals
           b == frame.args
           c == frame.argOffset
<1> HIDE DEF a, b, c
<1>1. frame = [locals |-> a, args |-> b, argOffset |-> c]
    BY DEF FrameShaped, a, b, c
<1>2. [[locals |-> a, args |-> b, argOffset |-> c] EXCEPT !.argOffset = n]
        = [locals |-> a, args |-> b, argOffset |-> n]
    OBVIOUS
<1>3. frame' = [locals |-> a, args |-> b, argOffset |-> n]
    BY <1>1, <1>2
<1>4. QED BY <1>3 DEF FrameShaped

LEMMA FrameSizes ==
    ASSUME FrameShaped, NEW x, NEW y, frame' = [frame EXCEPT !.locals = x, !.args = y]
    PROVE  FrameShaped' /\ frame'.argOffset = frame.argOffset
<1> DEFINE a == frame.locals
           b == frame.args
           c == frame.argOffset
<1> HIDE DEF a, b, c
<1>1. frame = [locals |-> a, args |-> b, argOffset |-> c] /\ c \in Int
    BY DEF FrameShaped, a, b, c
<1>2. [frame EXCEPT !.locals = x, !.args = y] = [[frame EXCEPT !.locals = x] EXCEPT !.args = y]
    BY <1>1
<1>3. [[locals |-> a, args |-> b, argOffset |-> c] EXCEPT !.locals = x]
        = [locals |-> x, args |-> b, argOffset |-> c]
    OBVIOUS
<1>4. [[locals |-> x, args |-> b, argOffset |-> c] EXCEPT !.args = y]
        = [locals |-> x, args |-> y, argOffset |-> c]
    OBVIOUS
<1>5. frame' = [locals |-> x, args |-> y, argOffset |-> c]
    BY <1>1, <1>2, <1>3, <1>4
<1>6. QED BY <1>1, <1>5 DEF FrameShaped, c

LEMMA IntFrame ==
    ASSUME FrameShaped, frame' = frame
    PROVE  FrameShaped' /\ frame'.argOffset = frame.argOffset
    BY DEF FrameShaped

LEMMA CALLStep ==
    ASSUME Shaped, FrameShaped, CALL, phase' # "exited"
    PROVE  Shaped' /\ FrameShaped' /\ Advanced
<1>1. line.word = "CALL" /\ EmitsCode(Instruct("OP_CALL"))
      /\ frame' = [frame EXCEPT !.argOffset = 0] /\ currentSegment' = currentSegment
    BY DEF EmitsCode, CALL, At, symbolState
<1>2. FrameShaped' /\ frame'.argOffset = 0
    BY <1>1, FrameOffset
<1>3. Len(Instruct("OP_CALL")) = 1
    BY EmittedLengths
<1>4. InCode(frame.argOffset, line) = 1 /\ OffsetAfter(frame.argOffset, line) = 0
    BY <1>1 DEF InCode, OffsetAfter
<1>5. InstructionWord(line.word)
    BY <1>1 DEF CodeWords, InstructionWord
<1>6. QED BY <1>1, <1>2, <1>3, <1>4, <1>5, CodeStep

LEMMA ARGStep ==
    ASSUME Shaped, FrameShaped, ARG, phase' # "exited"
    PROVE  Shaped' /\ FrameShaped' /\ Advanced
<1>1. line.word = "ARG" /\ currentSegment' = currentSegment
    BY DEF ARG, At
<1>2. InstructionWord(line.word)
    BY <1>1 DEF CodeWords, InstructionWord
<1>3. CASE 8 + frame.argOffset >= ArgumentLimit
    <2>1. EmitsCode(Instruct("OP_ARG")) /\ frame' = frame
        BY <1>3 DEF EmitsCode, ARG
    <2>2. Len(Instruct("OP_ARG")) = 1
        BY EmittedLengths
    <2>3. InCode(frame.argOffset, line) = 1
          /\ OffsetAfter(frame.argOffset, line) = frame.argOffset
        BY <1>1, <1>3 DEF InCode, OffsetAfter, ArgumentFits
    <2>4. FrameShaped' /\ frame'.argOffset = frame.argOffset
        BY <2>1, IntFrame
    <2>5. QED BY <1>1, <1>2, <2>1, <2>2, <2>3, <2>4, CodeStep
<1>4. CASE ~ (8 + frame.argOffset >= ArgumentLimit)
    <2> DEFINE e == Encoded(Instruction("OP_ARG", 8 + frame.argOffset))
    <2>1. EmitsCode(e)
          /\ frame' = [frame EXCEPT !.argOffset = frame.argOffset + 4]
        BY <1>4 DEF EmitsCode, ARG
    <2>2. Len(e) = 2
        BY ByteEncoded
    <2> HIDE DEF e
    <2>3. InCode(frame.argOffset, line) = 2
          /\ OffsetAfter(frame.argOffset, line) = frame.argOffset + 4
        BY <1>1, <1>4 DEF InCode, OffsetAfter, ArgumentFits
    <2>4. frame.argOffset + 4 \in Int
        BY DEF FrameShaped
    <2>5. FrameShaped' /\ frame'.argOffset = frame.argOffset + 4
        BY <2>1, <2>4, FrameOffset
    <2>6. QED BY <1>1, <1>2, <2>1, <2>2, <2>3, <2>5, CodeStep
<1>5. QED BY <1>3, <1>4

LEMMA RETStep ==
    ASSUME Shaped, FrameShaped, RET, phase' # "exited"
    PROVE  Shaped' /\ FrameShaped' /\ Advanced
<1> DEFINE e == Encoded(Instruction("OP_LEAVE", FrameSize))
<1>1. line.word = "RET" /\ EmitsCode(e)
      /\ frame' = frame /\ currentSegment' = currentSegment
    BY DEF EmitsCode, RET, At, symbolState
<1>2. "OP_LEAVE" \in WordOperand
    BY DEF WordOperand
<1>3. Len(e) = 5
    BY <1>2, WordEncoded
<1> HIDE DEF e
<1>4. FrameShaped' /\ frame'.argOffset = frame.argOffset
    BY <1>1, IntFrame
<1>5. InCode(frame.argOffset, line) = 5
      /\ OffsetAfter(frame.argOffset, line) = frame.argOffset
    BY <1>1 DEF InCode, OffsetAfter
<1>6. InstructionWord(line.word)
    BY <1>1 DEF CodeWords, InstructionWord
<1>7. QED BY <1>1, <1>3, <1>4, <1>5, <1>6, CodeStep

LEMMA popStep ==
    ASSUME Shaped, FrameShaped, pop, phase' # "exited"
    PROVE  Shaped' /\ FrameShaped' /\ Advanced
<1>1. line.word = "pop" /\ EmitsCode(Instruct("OP_POP"))
      /\ frame' = frame /\ currentSegment' = currentSegment
    BY DEF EmitsCode, pop, At, symbolState
<1>2. Len(Instruct("OP_POP")) = 1
    BY EmittedLengths
<1>3. FrameShaped' /\ frame'.argOffset = frame.argOffset
    BY <1>1, IntFrame
<1>4. InCode(frame.argOffset, line) = 1
      /\ OffsetAfter(frame.argOffset, line) = frame.argOffset
    BY <1>1 DEF InCode, OffsetAfter
<1>5. InstructionWord(line.word)
    BY <1>1 DEF CodeWords, InstructionWord
<1>6. QED BY <1>1, <1>2, <1>3, <1>4, <1>5, CodeStep

LEMMA procStep ==
    ASSUME Shaped, FrameShaped, proc, phase' # "exited"
    PROVE  Shaped' /\ FrameShaped' /\ Advanced
<1> DEFINE x == Rounded(Num(2))
           y == Rounded(Num(3))
           e == Encoded(Instruction("OP_ENTER", 8 + frame'.locals + frame'.args))
<1>1. line.word = "proc" /\ EmitsCode(e)
      /\ frame' = [frame EXCEPT !.locals = x, !.args = y]
      /\ currentSegment' = currentSegment
    BY DEF EmitsCode, proc, At
<1>2. "OP_ENTER" \in WordOperand
    BY DEF WordOperand
<1>3. Len(e) = 5
    BY <1>2, WordEncoded
<1> HIDE DEF e, x, y
<1>4. FrameShaped' /\ frame'.argOffset = frame.argOffset
    BY <1>1, FrameSizes
<1>5. InCode(frame.argOffset, line) = 5
      /\ OffsetAfter(frame.argOffset, line) = frame.argOffset
    BY <1>1 DEF InCode, OffsetAfter
<1>6. InstructionWord(line.word)
    BY <1>1 DEF CodeWords, InstructionWord
<1>7. QED BY <1>1, <1>3, <1>4, <1>5, <1>6, CodeStep

LEMMA endprocStep ==
    ASSUME Shaped, FrameShaped, endproc, phase' # "exited"
    PROVE  Shaped' /\ FrameShaped' /\ Advanced
<1> DEFINE e == Instruct("OP_PUSH") \o Encoded(Instruction("OP_LEAVE", FrameSize))
<1>1. line.word = "endproc" /\ EmitsCode(e)
      /\ frame' = frame /\ currentSegment' = currentSegment
    BY DEF EmitsCode, endproc, At, symbolState
<1>2. Len(e) = 6
    BY EmittedLengths
<1> HIDE DEF e
<1>3. FrameShaped' /\ frame'.argOffset = frame.argOffset
    BY <1>1, IntFrame
<1>4. InCode(frame.argOffset, line) = 6
      /\ OffsetAfter(frame.argOffset, line) = frame.argOffset
    BY <1>1 DEF InCode, OffsetAfter
<1>5. InstructionWord(line.word)
    BY <1>1 DEF CodeWords, InstructionWord
<1>6. QED BY <1>1, <1>2, <1>3, <1>4, <1>5, CodeStep

LEMMA ADDRFStep ==
    ASSUME Shaped, FrameShaped, ADDRF, phase' # "exited"
    PROVE  Shaped' /\ FrameShaped' /\ Advanced
<1> DEFINE e == Encoded(Instruction("OP_LOCAL", 16 + frame.args + frame.locals + Value(Arg(1))))
<1>1. line.word = "ADDRF" /\ EmitsCode(e)
      /\ frame' = frame /\ currentSegment' = currentSegment
    BY DEF EmitsCode, ADDRF, At
<1>2. "OP_LOCAL" \in WordOperand
    BY DEF WordOperand
<1>3. Len(e) = 5
    BY <1>2, WordEncoded
<1> HIDE DEF e
<1>4. FrameShaped' /\ frame'.argOffset = frame.argOffset
    BY <1>1, IntFrame
<1>5. InCode(frame.argOffset, line) = 5
      /\ OffsetAfter(frame.argOffset, line) = frame.argOffset
    BY <1>1 DEF InCode, OffsetAfter
<1>6. InstructionWord(line.word)
    BY <1>1 DEF CodeWords, InstructionWord
<1>7. QED BY <1>1, <1>3, <1>4, <1>5, <1>6, CodeStep

LEMMA ADDRLStep ==
    ASSUME Shaped, FrameShaped, ADDRL, phase' # "exited"
    PROVE  Shaped' /\ FrameShaped' /\ Advanced
<1> DEFINE e == Encoded(Instruction("OP_LOCAL", 8 + frame.args + Value(Arg(1))))
<1>1. line.word = "ADDRL" /\ EmitsCode(e)
      /\ frame' = frame /\ currentSegment' = currentSegment
    BY DEF EmitsCode, ADDRL, At
<1>2. "OP_LOCAL" \in WordOperand
    BY DEF WordOperand
<1>3. Len(e) = 5
    BY <1>2, WordEncoded
<1> HIDE DEF e
<1>4. FrameShaped' /\ frame'.argOffset = frame.argOffset
    BY <1>1, IntFrame
<1>5. InCode(frame.argOffset, line) = 5
      /\ OffsetAfter(frame.argOffset, line) = frame.argOffset
    BY <1>1 DEF InCode, OffsetAfter
<1>6. InstructionWord(line.word)
    BY <1>1 DEF CodeWords, InstructionWord
<1>7. QED BY <1>1, <1>3, <1>4, <1>5, <1>6, CodeStep

LEMMA OpStep ==
    ASSUME Shaped, FrameShaped, Op, phase' # "exited"
    PROVE  Shaped' /\ FrameShaped' /\ Advanced
<1>1. line.word \in DOMAIN sourceOps /\ sourceOps[line.word] # "OP_IGNORE"
      /\ frame' = frame /\ currentSegment' = currentSegment
    BY DEF Op, At
<1>2. FrameShaped' /\ frame'.argOffset = frame.argOffset /\ InstructionWord(line.word)
    BY <1>1, IntFrame DEF InstructionWord
<1>3. line.word \notin {"CALL", "ARG", "RET", "pop", "ADDRF", "ADDRL", "proc", "endproc",
                        "address", "equ", "align", "skip", "byte", "LABEL", "TooLong"}
    BY <1>1, OpsApart
<1>4. InCode(frame.argOffset, line) = OpLength(line)
      /\ OffsetAfter(frame.argOffset, line) = frame.argOffset
    BY <1>1, <1>3 DEF InCode, OffsetAfter
<1>5. Extends(line) => ArgOf(line, 1).n \in DOMAIN SignExtension
    BY DEF Op, IsExtension, Extends, Arg, ArgOf
<1>6. OpLength(line) = IF HasExpression THEN 5 ELSE 1
    BY <1>1, <1>5 DEF OpLength, HasExpression, IsExtension, Extends
<1>7. \E opcode, v :
         IF HasExpression THEN Emit("CODESEG", Instruct(opcode) \o Bytes(v), TRUE)
         ELSE Emit("CODESEG", Instruct(opcode), FALSE)
    BY DEF Op
<1>8. PICK opcode, v :
         IF HasExpression THEN Emit("CODESEG", Instruct(opcode) \o Bytes(v), TRUE)
         ELSE Emit("CODESEG", Instruct(opcode), FALSE)
    BY <1>7
<1>9. CASE HasExpression
    <2> DEFINE e == Instruct(opcode) \o Bytes(v)
    <2>1. Len(e) = 5
        BY EmittedLengths
    <2>2. EmitsCode(e)
        BY <1>8, <1>9 DEF EmitsCode
    <2>3. InCode(frame.argOffset, line) = 5
        BY <1>4, <1>6, <1>9
    <2> HIDE DEF e
    <2>4. QED BY <1>1, <1>2, <1>4, <2>1, <2>2, <2>3, CodeStep
<1>10. CASE ~ HasExpression
    <2> DEFINE e == Instruct(opcode)
    <2>1. Len(e) = 1
        BY EmittedLengths
    <2>2. EmitsCode(e)
        BY <1>8, <1>10 DEF EmitsCode
    <2>3. InCode(frame.argOffset, line) = 1
        BY <1>4, <1>6, <1>10
    <2> HIDE DEF e
    <2>4. QED BY <1>1, <1>2, <1>4, <2>1, <2>2, <2>3, CodeStep
<1>11. QED BY <1>9, <1>10

(* Statements that emit nothing.                                            *)
LEMMA SilentStep ==
    ASSUME Shaped, FrameShaped,
           line.word \notin CodeWords, line.word \notin DOMAIN sourceOps,
           line.word \notin DOMAIN SegmentWords,
           line.word \notin {"address", "byte", "align", "skip"},
           UNCHANGED << segment, currentSegment, frame >>
    PROVE  Shaped' /\ FrameShaped' /\ Advanced
<1>1. InCode(frame.argOffset, line) = 0
      /\ OffsetAfter(frame.argOffset, line) = frame.argOffset
    BY DEF InCode, OffsetAfter, CodeWords
<1>2. FrameShaped' /\ frame'.argOffset = frame.argOffset
    BY IntFrame
<1>3. QED BY <1>1, <1>2, QuietStep

LEMMA QuietWord ==
    ASSUME NEW w \in Silent \cup {"equ", "LABEL"}
    PROVE  /\ w \notin CodeWords /\ w \notin DOMAIN sourceOps
           /\ w \notin DOMAIN SegmentWords /\ w \notin {"address", "byte", "align", "skip"}
<1>1. w \notin DOMAIN sourceOps
    BY OpsApartFrom
<1>2. QED BY <1>1, SegmentWordsDomain DEF Silent, CodeWords

LEMMA OpZero ==
    ASSUME Shaped, FrameShaped, line.word \in DOMAIN sourceOps, OpLength(line) = 0,
           UNCHANGED << segment, currentSegment, frame >>
    PROVE  Shaped' /\ FrameShaped' /\ Advanced
<1>1. line.word \notin {"CALL", "ARG", "RET", "pop", "ADDRF", "ADDRL", "proc", "endproc",
                        "address", "equ", "align", "skip", "byte", "LABEL", "TooLong"}
      /\ line.word \notin DOMAIN SegmentWords
    BY OpsApart
<1>2. InCode(frame.argOffset, line) = 0
      /\ OffsetAfter(frame.argOffset, line) = frame.argOffset
    BY <1>1 DEF InCode, OffsetAfter
<1>3. FrameShaped' /\ frame'.argOffset = frame.argOffset
    BY IntFrame
<1>4. QED BY <1>1, <1>2, <1>3, QuietStep

LEMMA QuietActions ==
    ASSUME Shaped, FrameShaped,
           Ignored \/ equ \/ LABEL \/ OpIgnored \/ BadExtension \/ UnknownToken
    PROVE  Shaped' /\ FrameShaped' /\ Advanced
<1>1. CASE Ignored \/ equ \/ LABEL
    <2>1. line.word \in Silent \cup {"equ", "LABEL"}
          /\ UNCHANGED << segment, currentSegment, frame >>
        BY <1>1 DEF Ignored, equ, LABEL, At, symbolState
    <2>2. QED BY <2>1, QuietWord, SilentStep
<1>2. CASE OpIgnored
    <2>1. line.word \in DOMAIN sourceOps /\ sourceOps[line.word] = "OP_IGNORE"
          /\ UNCHANGED << segment, currentSegment, frame >>
        BY <1>2 DEF OpIgnored, At, symbolState
    <2>2. OpLength(line) = 0
        BY <2>1 DEF OpLength
    <2>3. QED BY <2>1, <2>2, OpZero
<1>3. CASE BadExtension
    <2>1. line.word \in DOMAIN sourceOps /\ Extends(line)
          /\ ArgOf(line, 1).n \notin DOMAIN SignExtension
          /\ UNCHANGED << segment, currentSegment, frame >>
        BY <1>3 DEF BadExtension, At, IsExtension, Extends, Arg, ArgOf
    <2>2. OpLength(line) = 0
        BY <2>1 DEF OpLength
    <2>3. QED BY <2>1, <2>2, OpZero
<1>4. CASE UnknownToken
    <2>1. line.word \notin Statements /\ UNCHANGED << segment, currentSegment, frame >>
        BY <1>4 DEF UnknownToken
    <2>2. /\ line.word \notin CodeWords /\ line.word \notin DOMAIN sourceOps
          /\ line.word \notin DOMAIN SegmentWords
          /\ line.word \notin {"address", "byte", "align", "skip"}
        BY <2>1 DEF Statements, CodeWords
    <2>3. QED BY <2>1, <2>2, SilentStep
<1>5. QED BY <1>1, <1>2, <1>3, <1>4

-----------------------------------------------------------------------------
(* Statements that name a segment or add to the one named last.             *)

LEMMA SegmentStep ==
    ASSUME Shaped, FrameShaped, SegmentStatement
    PROVE  Shaped' /\ FrameShaped' /\ Advanced
<1>1. line.word \in DOMAIN SegmentWords /\ currentSegment' = SegmentWords[line.word]
      /\ UNCHANGED << segment, frame >>
    BY DEF SegmentStatement, At
<1>2. FrameShaped' /\ frame'.argOffset = frame.argOffset
    BY <1>1, IntFrame
<1>3. line.word \notin DOMAIN sourceOps
    BY <1>1, OpsApartFrom
<1>4. line.word \in {"code", "data", "lit", "bss"}
    BY <1>1, SegmentWordsDomain
<1>5. /\ InCode(frame.argOffset, line) = 0
      /\ OffsetAfter(frame.argOffset, line) = frame.argOffset
      /\ Place(currentSegment, line) = "CODESEG"
      /\ Filled(frame.argOffset, line, Used("CODESEG")) = Used("CODESEG") + 0
      /\ CurrentAfter(currentSegment, line) = currentSegment'
    BY <1>1, <1>3, <1>4 DEF InCode, OffsetAfter, Place, Filled, CurrentAfter
<1>6. Shaped' /\ Grown("CODESEG", Used("CODESEG") + 0)
    BY <1>1, SegmentKept
<1>7. QED BY <1>1, <1>2, <1>5, <1>6, Combine

LEMMA alignStep ==
    ASSUME Shaped, FrameShaped, align, line \in LineType, NumOf(line, 1) > 0
    PROVE  Shaped' /\ FrameShaped' /\ Advanced
<1> DEFINE s == currentSegment
           v == NumOf(line, 1)
           n == ((Used(s) + v - 1) \div v) * v
<1>1. line.word = "align" /\ UNCHANGED << currentSegment, frame >>
      /\ segment' = [segment EXCEPT ![s].imageUsed = n]
    BY DEF align, At, symbolState, Used, Num, Arg, NumOf, ArgOf
<1>2. v \in Int /\ v > 0
    BY LineNumbers
<1>3. s \in Segments => n \in Int
    <2> HIDE DEF v
    <2>1. s \in Segments => Used(s) \in Int
        BY DEF Shaped
    <2>2. QED BY <1>2, <2>1
<1>4. Place(s, line) = s /\ CurrentAfter(s, line) = s
      /\ Filled(frame.argOffset, line, Used(s)) = n
      /\ OffsetAfter(frame.argOffset, line) = frame.argOffset
    BY <1>1, SegmentWordsDomain DEF Place, CurrentAfter, Filled, OffsetAfter
<1> HIDE DEF n
<1>5. Shaped' /\ Grown(s, n)
    BY <1>1, <1>3, SizeStep
<1>6. FrameShaped' /\ frame'.argOffset = frame.argOffset
    BY <1>1, IntFrame
<1>7. QED BY <1>1, <1>4, <1>5, <1>6, Combine

LEMMA skipStep ==
    ASSUME Shaped, FrameShaped, skip, line \in LineType
    PROVE  Shaped' /\ FrameShaped' /\ Advanced
<1> DEFINE s == currentSegment
           v == NumOf(line, 1)
           n == Used(s) + v
<1>1. line.word = "skip" /\ UNCHANGED << currentSegment, frame >>
      /\ segment' = [segment EXCEPT ![s].imageUsed = n]
    BY DEF skip, At, symbolState, Used, Num, Arg, NumOf, ArgOf
<1>2. v \in Int
    BY LineNumbers
<1>3. s \in Segments => n \in Int
    BY <1>2 DEF Shaped
<1>4. Place(s, line) = s /\ CurrentAfter(s, line) = s
      /\ Filled(frame.argOffset, line, Used(s)) = n
      /\ OffsetAfter(frame.argOffset, line) = frame.argOffset
    BY <1>1, SegmentWordsDomain DEF Place, CurrentAfter, Filled, OffsetAfter
<1> HIDE DEF n
<1>5. Shaped' /\ Grown(s, n)
    BY <1>1, <1>3, SizeStep
<1>6. FrameShaped' /\ frame'.argOffset = frame.argOffset
    BY <1>1, IntFrame
<1>7. QED BY <1>1, <1>4, <1>5, <1>6, Combine

LEMMA byteStep ==
    ASSUME Shaped, FrameShaped, byte, line \in LineType, phase' # "exited"
    PROVE  Shaped' /\ FrameShaped' /\ Advanced
<1> DEFINE v == NumOf(line, 1)
           s == CASE v = 1 -> "LITSEG" [] v = 4 -> "DATASEG" [] OTHER -> currentSegment
           e == [k \in 1 .. v |-> ByteOf(Num(2), k - 1)]
           n == IF v > 0 THEN v ELSE 0
<1>1. v \in Int
    BY LineNumbers
<1>2. Num(1) = v
    BY DEF Num, NumOf, Arg, ArgOf
<1>3. line.word = "byte" /\ frame' = frame
    BY DEF byte, At
<1>4. Emit(s, e, FALSE)
    BY <1>2 DEF byte
<1>5. currentSegment' = s
    <2>1. CASE v \in {1, 4}
        <3>1. HackToSegment(s)
            BY <1>2, <2>1 DEF byte
        <3>2. QED BY <3>1 DEF HackToSegment
    <2>2. CASE v \notin {1, 4}
        BY <1>2, <2>2 DEF byte
    <2>3. QED BY <2>1, <2>2
<1>6. Len(e) = n /\ Len(e) \in Nat
    <2>1. Len(e) = n
        <3> HIDE DEF v
        <3>1. QED BY <1>1, RowLength
    <2>2. n \in Nat
        BY <1>1
    <2>3. QED BY <2>1, <2>2
<1>7. Place(currentSegment, line) = s /\ CurrentAfter(currentSegment, line) = s
      /\ Filled(frame.argOffset, line, Used(s)) = Used(s) + n
      /\ OffsetAfter(frame.argOffset, line) = frame.argOffset
    BY <1>3, SegmentWordsDomain DEF Place, CurrentAfter, Filled, OffsetAfter
<1> HIDE DEF e, n, s
<1>8. Shaped' /\ Grown(s, Used(s) + Len(e))
    BY <1>4, <1>6, EmitStep
<1>9. FrameShaped' /\ frame'.argOffset = frame.argOffset
    BY <1>3, IntFrame
<1>10. Advanced
    BY <1>5, <1>6, <1>7, <1>8, <1>9, Combine
<1>11. QED BY <1>8, <1>9, <1>10

(* A word of data, and its copy among the jump targets.                     *)
LEMMA addressStep ==
    ASSUME Shaped, FrameShaped, address, phase' # "exited"
    PROVE  Shaped' /\ FrameShaped' /\ Advanced
<1>1. line.word = "address" /\ frame' = frame
    BY DEF address, At
<1>2. currentSegment' = "DATASEG"
    <2>1. CASE Undefined(Arg(1))
        BY <2>1 DEF address
    <2>2. CASE ~ Undefined(Arg(1))
        <3>1. HackToSegment("DATASEG")
            BY <2>2 DEF address
        <3>2. QED BY <3>1 DEF HackToSegment
    <2>3. QED BY <2>1, <2>2
<1> DEFINE b == Bytes(Value(Arg(1)))
           isJump == passNumber = 1 /\ Arg(1).sym \in LocalNames
<1>3. Len(b) = 4
    BY BytesSeq
<1>4. segment' = [segment EXCEPT
                !["DATASEG"] = Emitted(@, b),
                !["JTRGSEG"] = IF isJump THEN Emitted(@, b) ELSE @]
    BY DEF address
<1> DEFINE d == Emitted(segment["DATASEG"], b)
           j == IF isJump THEN Emitted(segment["JTRGSEG"], b) ELSE segment["JTRGSEG"]
<1> HIDE DEF b, isJump
<1>5. \A t \in Segments : SegmentRecord(segment[t]) /\ Used(t) \in Int
    BY DEF Shaped
<1>6. ASSUME NEW t \in Segments
      PROVE  /\ SegmentRecord(Emitted(segment[t], b))
             /\ Emitted(segment[t], b).imageUsed = Used(t) + 4
             /\ Emitted(segment[t], b).segmentBase = Base(t)
    <2> DEFINE n == Used(t) + 4
               im == SubSeq(segment[t].image, 1, segment[t].imageUsed) \o b
                        \o SubSeq(segment[t].image, n + 1, Len(segment[t].image))
    <2>1. Emitted(segment[t], b) = [segment[t] EXCEPT !.image = im, !.imageUsed = n]
        BY <1>3 DEF Emitted, Used
    <2> HIDE DEF im, n
    <2>2. Emitted(segment[t], b)
            = [image |-> im, imageUsed |-> n, segmentBase |-> segment[t].segmentBase]
        BY <1>5, <2>1, RecordExcept
    <2>3. QED BY <2>2 DEF SegmentRecord, n, Base
<1>7. /\ d.imageUsed = Used("DATASEG") + 4 /\ d.segmentBase = Base("DATASEG")
      /\ SegmentRecord(d)
    BY <1>6 DEF Segments
<1>8. /\ SegmentRecord(j) /\ j.imageUsed \in Int /\ j.segmentBase = Base("JTRGSEG")
    <2>1. "JTRGSEG" \in Segments
        BY DEF Segments
    <2>2. CASE isJump
        <3>1. j = Emitted(segment["JTRGSEG"], b)
            BY <2>2
        <3> HIDE DEF j
        <3>2. Used("JTRGSEG") \in Int
            BY <1>5, <2>1
        <3>3. QED BY <1>6, <2>1, <3>1, <3>2
    <2>3. CASE ~ isJump
        BY <2>3, <2>1, <1>5 DEF Used, Base
    <2>4. QED BY <2>2, <2>3
<1>9. segment' = [segment EXCEPT !["DATASEG"] = d, !["JTRGSEG"] = j]
    BY <1>4, <1>5
<1> HIDE DEF d, j
<1>10. segment' = [t \in Segments |-> IF t = "JTRGSEG" THEN j ELSE IF t = "DATASEG" THEN d
                                      ELSE segment[t]]
    <2>1. [segment EXCEPT !["DATASEG"] = d, !["JTRGSEG"] = j]
            = [[segment EXCEPT !["DATASEG"] = d] EXCEPT !["JTRGSEG"] = j]
        OBVIOUS
    <2>2. QED BY <1>9, <2>1 DEF Shaped
<1>11. /\ segment'["JTRGSEG"] = j /\ segment'["DATASEG"] = d
       /\ \A t \in Segments : t \notin {"JTRGSEG", "DATASEG"} => segment'[t] = segment[t]
       /\ segment' = [t \in Segments |-> segment'[t]]
    BY <1>10 DEF Segments
<1>12. Shaped'
    <2>1. ASSUME NEW t \in Segments
          PROVE  SegmentRecord(segment'[t]) /\ segment'[t].imageUsed \in Int
        <3>1. CASE t = "DATASEG"
            BY <3>1, <1>5, <1>7, <1>11
        <3>2. CASE t = "JTRGSEG"
            BY <3>2, <1>8, <1>11
        <3>3. CASE t \notin {"JTRGSEG", "DATASEG"}
            BY <3>3, <1>5, <1>11 DEF Used
        <3>4. QED BY <3>1, <3>2, <3>3
    <2>2. QED BY <2>1, <1>11 DEF Shaped, Used
<1>13. Grown("DATASEG", Used("DATASEG") + 4)
    BY <1>7, <1>8, <1>11 DEF Grown, Used, Base, Sized, Segments
<1>14. Place(currentSegment, line) = "DATASEG"
       /\ CurrentAfter(currentSegment, line) = "DATASEG"
       /\ Filled(frame.argOffset, line, Used("DATASEG")) = Used("DATASEG") + 4
       /\ OffsetAfter(frame.argOffset, line) = frame.argOffset
    BY <1>1, SegmentWordsDomain DEF Place, CurrentAfter, Filled, OffsetAfter
<1>15. FrameShaped' /\ frame'.argOffset = frame.argOffset
    BY <1>1, IntFrame
<1>16. Advanced
    BY <1>2, <1>13, <1>14, <1>15, Combine
<1>17. QED BY <1>12, <1>15, <1>16

(* Every line that is left behind advances the sizes.                       *)
LEMMA LineStep ==
    ASSUME Shaped, FrameShaped, AssembleLine, phase' # "exited", line \in LineType,
           line.word = "align" => NumOf(line, 1) > 0, ~ LineTooLong
    PROVE  Shaped' /\ FrameShaped' /\ Advanced
<1>1. CASE align
    <2>1. line.word = "align"
        BY <1>1 DEF align, At
    <2>2. QED BY <1>1, <2>1, alignStep
<1>2. CASE ~ align
    BY <1>2, CALLStep, ARGStep, RETStep, popStep, procStep, endprocStep, ADDRFStep,
       ADDRLStep, OpStep, QuietActions, SegmentStep, skipStep, byteStep, addressStep
       DEF AssembleLine
<1>3. QED BY <1>1, <1>2

-----------------------------------------------------------------------------
(* The names of the files are a sequence of strings: the loop over the      *)
(* tokens of an option file appends to one.                                 *)

ListStart == [output |-> options.outputFilename, files |-> asmFileNames, next |-> "file"]
ListStep(st, token) ==
    IF st.next = "output" THEN [st EXCEPT !.output = token, !.next = "file"]
    ELSE IF token = "-o" THEN [st EXCEPT !.next = "output"]
    ELSE [st EXCEPT !.files = Append(@, token)]
IsList(list, tokens) ==
    list = [k \in 0 .. Len(tokens) |->
               IF k = 0 THEN ListStart ELSE ListStep(list[k - 1], tokens[k])]
ListUpto(list, tokens, n) ==
    list[0] = ListStart /\ \A k \in 1 .. n : list[k] = ListStep(list[k - 1], tokens[k])

LEMMA FromListIs ==
    ASSUME NEW tokens
    PROVE  FromList(tokens) = (CHOOSE list : IsList(list, tokens))[Len(tokens)]
    BY DEF FromList, IsList, ListStart, ListStep

LEMMA ListExists ==
    ASSUME NEW tokens, Len(tokens) \in Nat
    PROVE  \E list : IsList(list, tokens)
<1> DEFINE N == Len(tokens)
           S == {n \in 0 .. N : \E list : ListUpto(list, tokens, n)}
<1>1. 0 \in S
    <2>1. ListUpto([k \in 0 .. 0 |-> ListStart], tokens, 0)
        BY DEF ListUpto
    <2>2. QED BY <2>1
<1>2. ASSUME NEW n \in S, n < N PROVE n + 1 \in S
    <2>1. PICK list : ListUpto(list, tokens, n)
        OBVIOUS
    <2> DEFINE longer == [k \in 0 .. N |-> IF k = n + 1 THEN ListStep(list[n], tokens[n + 1])
                                           ELSE list[k]]
    <2>2. n \in Nat /\ n + 1 \in 0 .. N /\ N \in Nat
        BY <1>2
    <2>3. longer[n + 1] = ListStep(list[n], tokens[n + 1])
          /\ \A k \in 0 .. n : longer[k] = list[k]
        BY <2>2
    <2> HIDE DEF longer
    <2>4. ASSUME NEW k \in 1 .. n + 1 PROVE longer[k] = ListStep(longer[k - 1], tokens[k])
        <3>1. CASE k = n + 1
            BY <3>1, <2>2, <2>3
        <3>2. CASE k # n + 1
            <4>1. k \in 1 .. n /\ k \in 0 .. n /\ k - 1 \in 0 .. n
                BY <3>2, <2>2
            <4>2. QED BY <2>1, <2>3, <4>1 DEF ListUpto
        <3>3. QED BY <3>1, <3>2
    <2>5. longer[0] = ListStart
        BY <2>1, <2>2, <2>3 DEF ListUpto
    <2>6. ListUpto(longer, tokens, n + 1)
        BY <2>4, <2>5 DEF ListUpto
    <2>7. QED BY <2>2, <2>6
<1>3. S = 0 .. N
    <2> HIDE DEF S, N
    <2>1. S \in SUBSET (0 .. N) /\ N \in Nat
        BY DEF S, N
    <2>2. QED BY <1>1, <1>2, <2>1, BoundedInduction
<1>4. PICK list : ListUpto(list, tokens, N)
    <2>1. N \in S
        <3>1. N \in 0 .. N
            OBVIOUS
        <3> HIDE DEF S
        <3>2. QED BY <1>3, <3>1
    <2>2. QED BY <2>1
<1> DEFINE f == [k \in 0 .. N |-> list[k]]
<1>5. IsList(f, tokens)
    <2>1. ASSUME NEW k \in 0 .. N
          PROVE  f[k] = IF k = 0 THEN ListStart ELSE ListStep(f[k - 1], tokens[k])
        <3>1. CASE k = 0
            BY <3>1, <1>4 DEF ListUpto
        <3>2. CASE k # 0
            <4>1. k \in 1 .. N /\ k - 1 \in 0 .. N
                BY <3>2
            <4>2. QED BY <3>2, <4>1, <1>4 DEF ListUpto
        <3>3. QED BY <3>1, <3>2
    <2>2. f = [k \in 0 .. N |-> f[k]]
        OBVIOUS
    <2> HIDE DEF f
    <2>3. QED BY <2>1, <2>2 DEF IsList
<1>6. QED BY <1>5

ListState(st) ==
    /\ st = [output |-> st.output, files |-> st.files, next |-> st.next]
    /\ st.files \in Seq(STRING)

LEMMA ListStepKeeps ==
    ASSUME NEW st, ListState(st), NEW token \in STRING
    PROVE  ListState(ListStep(st, token))
<1> DEFINE o == st.output
           f == st.files
           r == st.next
           R(a, b, c) == [output |-> a, files |-> b, next |-> c]
<1>1. f \in Seq(STRING) /\ Append(f, token) \in Seq(STRING)
    BY DEF ListState
<1> HIDE DEF o, f, r
<1>2. st = R(o, f, r)
    BY DEF ListState, o, f, r
<1>3. [R(o, f, r) EXCEPT !.files = Append(f, token)] = R(o, Append(f, token), r)
    OBVIOUS
<1>4. \A a, b, c, x : [R(a, b, c) EXCEPT !.next = x] = R(a, b, x)
    OBVIOUS
<1> HIDE DEF R
<1>5. [R(o, f, r) EXCEPT !.next = "output"] = R(o, f, "output")
    BY <1>4
<1>6. [st EXCEPT !.output = token, !.next = "file"] = R(token, f, "file")
    <2>1. [st EXCEPT !.output = token, !.next = "file"]
            = [[st EXCEPT !.output = token] EXCEPT !.next = "file"]
        BY <1>2 DEF R
    <2>2. [R(o, f, r) EXCEPT !.output = token] = R(token, f, r)
        BY DEF R
    <2>3. [R(token, f, r) EXCEPT !.next = "file"] = R(token, f, "file")
        BY <1>4
    <2>4. QED BY <1>2, <2>1, <2>2, <2>3
<1>7. \A a, b, c : b \in Seq(STRING) => ListState(R(a, b, c))
    BY DEF ListState, R
<1>8. st.files = f
    BY DEF f
<1>9. CASE st.next = "output"
    BY <1>1, <1>6, <1>7, <1>9 DEF ListStep
<1>10. CASE st.next # "output" /\ token = "-o"
    BY <1>1, <1>2, <1>5, <1>7, <1>10 DEF ListStep
<1>11. CASE st.next # "output" /\ token # "-o"
    <2>1. ListStep(st, token) = [st EXCEPT !.files = Append(f, token)]
        BY <1>8, <1>11 DEF ListStep
    <2>2. ListStep(st, token) = R(o, Append(f, token), r)
        BY <1>2, <1>3, <2>1
    <2>3. ListState(R(o, Append(f, token), r))
        BY <1>1, <1>7
    <2>4. QED BY <2>2, <2>3
<1>12. QED BY <1>9, <1>10, <1>11

LEMMA NamesFromList ==
    ASSUME asmFileNames \in Seq(STRING), NEW tokens \in Seq(STRING)
    PROVE  FromList(tokens).files \in Seq(STRING)
<1> DEFINE list == CHOOSE f : IsList(f, tokens)
           N == Len(tokens)
           S == {k \in 0 .. N : ListState(list[k])}
<1>1. N \in Nat
    BY LenProperties
<1>2. IsList(list, tokens)
    BY <1>1, ListExists
<1>3. FromList(tokens) = list[N]
    BY FromListIs
<1> HIDE DEF list
<1>4. ListState(ListStart)
    BY DEF ListState, ListStart
<1>5. list[0] = ListStart /\ \A k \in 1 .. N : list[k] = ListStep(list[k - 1], tokens[k])
    BY <1>1, <1>2 DEF IsList
<1>6. 0 \in S
    BY <1>1, <1>4, <1>5
<1>7. ASSUME NEW n \in S, n < N PROVE n + 1 \in S
    <2>1. n \in Nat /\ n + 1 \in 1 .. N /\ n + 1 \in 0 .. N /\ (n + 1) - 1 = n
        BY <1>1, <1>7
    <2>2. tokens[n + 1] \in STRING
        BY <2>1, ElementOfSeq
    <2>3. list[n + 1] = ListStep(list[n], tokens[n + 1])
        BY <1>5, <2>1
    <2>4. ListState(list[n])
        OBVIOUS
    <2>5. ListState(list[n + 1])
        BY <2>2, <2>3, <2>4, ListStepKeeps
    <2>6. QED BY <2>1, <2>5
<1>8. S = 0 .. N
    <2> HIDE DEF S, N
    <2>1. S \in SUBSET (0 .. N)
        BY DEF S
    <2>2. QED BY <1>1, <1>6, <1>7, <2>1, BoundedInduction
<1>9. ListState(list[N])
    <2>1. N \in S
        <3>1. N \in 0 .. N
            BY <1>1
        <3> HIDE DEF S
        <3>2. QED BY <1>8, <3>1
    <2>2. QED BY <2>1
<1>10. QED BY <1>3, <1>9 DEF ListState

-----------------------------------------------------------------------------
(* The walk through the lines of the files.                                 *)

File(names, g) == AsmFiles[names[g + 1]]
GoodNames(names) ==
    /\ names \in Seq(STRING) /\ names # << >>
    /\ \A k \in 1 .. Len(names) : names[k] \in DOMAIN AsmFiles

Start == [used    |-> [s \in Sized |-> IF s = "DATASEG" THEN 4 ELSE 0],
          current |-> "none", offset |-> 0]
FirstEntry == [sizes |-> Start, count |-> 0]

(* Table holds the sizes and the count before every line, up to line l of f. *)
Walk(table, names, f, l) ==
    /\ table[<< 0, 0 >>] = FirstEntry
    /\ \A g \in Nat, k \in Nat :
          (k < Len(File(names, g)) /\ (g < f \/ (g = f /\ k < l))) =>
              table[<< g, k + 1 >>] = Stepped(table[<< g, k >>], File(names, g)[k + 1])
    /\ \A g \in Nat : g < f =>
          table[<< g + 1, 0 >>] = table[<< g, Len(File(names, g)) >>]

LastFile(names) == Len(names) - 1
LastLine(names) == Len(File(names, LastFile(names)))

(* Where the first file has not named a segment yet, the one named last is   *)
(* none in the first pass, and the last of the first pass in the second.     *)
Silence(names, f, l) == f = 0 /\ \A j \in 1 .. l : File(names, 0)[j].word \in Silent
Follows(now, entry, names, f, l) ==
    /\ now.used = entry.used /\ now.offset = entry.offset
    /\ now.current = entry.current \/ Silence(names, f, l)

LEMMA FileFacts ==
    ASSUME NEW names, GoodNames(names), NEW g \in Nat, g < Len(names)
    PROVE  /\ names[g + 1] \in DOMAIN AsmFiles
           /\ File(names, g) \in Seq(LineType)
           /\ Len(File(names, g)) \in Nat
<1>1. Len(names) \in Nat /\ g + 1 \in 1 .. Len(names)
    BY LenProperties DEF GoodNames
<1>2. names[g + 1] \in DOMAIN AsmFiles
    BY <1>1 DEF GoodNames
<1>3. File(names, g) \in Seq(LineType)
    BY <1>2, LinesAssumption DEF File, LineType
<1>4. QED BY <1>2, <1>3, LenProperties

LEMMA LineFacts ==
    ASSUME NEW names, GoodNames(names), NEW g \in Nat, g < Len(names),
           NEW k \in Nat, k < Len(File(names, g))
    PROVE  /\ File(names, g)[k + 1] \in LineType
           /\ File(names, g)[k + 1].word = "align" => NumOf(File(names, g)[k + 1], 1) > 0
<1> DEFINE file == File(names, g)
<1>1. names[g + 1] \in DOMAIN AsmFiles /\ file \in Seq(LineType) /\ Len(file) \in Nat
    BY FileFacts
<1>2. k + 1 \in 1 .. Len(file)
    BY <1>1
<1>3. file[k + 1] \in LineType
    BY <1>1, <1>2, ElementOfSeq
<1>4. ASSUME file[k + 1].word = "align"
      PROVE  Len(file[k + 1].args) > 0 /\ ToWord(file[k + 1].args[1].n) > 0
    BY <1>1, <1>2, <1>4, LinesAssumption DEF File
<1>5. ASSUME file[k + 1].word = "align"
      PROVE  NumOf(file[k + 1], 1) > 0
    <2>1. file[k + 1].args \in Seq([sym : STRING, n : Int])
        BY <1>3 DEF LineType
    <2>2. 1 <= Len(file[k + 1].args)
        BY <1>4, <1>5, <2>1, LenProperties
    <2>3. QED BY <1>4, <1>5, <2>2 DEF NumOf, ArgOf
<1>6. QED BY <1>3, <1>5

(* The first line of the first file that is not silent names a segment.     *)
LEMMA SilenceEnds ==
    ASSUME NEW names, GoodNames(names)
    PROVE  /\ ~ Silence(names, 0, Len(File(names, 0)))
           /\ \A l \in Nat : (/\ l < Len(File(names, 0)) /\ Silence(names, 0, l)
                              /\ File(names, 0)[l + 1].word \notin Silent)
                 => File(names, 0)[l + 1].word \in DOMAIN SegmentWords
<1> DEFINE file == File(names, 0)
<1>1. 0 < Len(names)
    BY EmptySeq, LenProperties DEF GoodNames
<1>2. names[1] \in DOMAIN AsmFiles /\ Len(file) \in Nat
    BY <1>1, FileFacts
<1>3. file = AsmFiles[names[1]]
    BY DEF File
<1> HIDE DEF file
<1>4. PICK k \in 1 .. Len(file) :
         /\ file[k].word \in DOMAIN SegmentWords
         /\ \A j \in 1 .. k - 1 : file[j].word \in Silent
    BY <1>2, <1>3, SourcesAssumption
<1>5. file[k].word \notin Silent
    BY <1>4, SegmentWordsDomain DEF Silent
<1>6. ~ Silence(names, 0, Len(file))
    BY <1>4, <1>5 DEF Silence, file
<1>7. ASSUME NEW l \in Nat, l < Len(file), Silence(names, 0, l), file[l + 1].word \notin Silent
      PROVE  file[l + 1].word \in DOMAIN SegmentWords
    <2>1. \A j \in 1 .. l : file[j].word \in Silent
        BY <1>7 DEF Silence, file
    <2>2. k > l
        BY <1>4, <1>5, <2>1
    <2>3. ~ (k > l + 1)
        BY <1>4, <1>7
    <2>4. k = l + 1
        BY <2>2, <2>3
    <2>5. QED BY <1>4, <2>4
<1>8. QED BY <1>6, <1>7 DEF file

(* The walk goes on by a line, and by a file.                               *)
Agree(longer, table, f, l) ==
    \A g \in Nat, k \in Nat : << g, k >> # << f, l >> => longer[<< g, k >>] = table[<< g, k >>]

LEMMA WalkLine ==
    ASSUME NEW table, NEW names, NEW f \in Nat, NEW l \in Nat, l < Len(File(names, f)),
           Walk(table, names, f, l)
    PROVE  \E longer :
               /\ Walk(longer, names, f, l + 1)
               /\ longer[<< f, l + 1 >>] = Stepped(table[<< f, l >>], File(names, f)[l + 1])
               /\ Agree(longer, table, f, l + 1)
<1> DEFINE e == Stepped(table[<< f, l >>], File(names, f)[l + 1])
           longer == [p \in Nat \X Nat |-> IF p = << f, l + 1 >> THEN e ELSE table[p]]
<1>1. \A g \in Nat, k \in Nat :
         longer[<< g, k >>] = IF g = f /\ k = l + 1 THEN e ELSE table[<< g, k >>]
    OBVIOUS
<1> HIDE DEF longer
<1>2. longer[<< 0, 0 >>] = FirstEntry
    BY <1>1 DEF Walk
<1>3. ASSUME NEW g \in Nat, NEW k \in Nat, k < Len(File(names, g)),
             g < f \/ (g = f /\ k < l + 1)
      PROVE  longer[<< g, k + 1 >>] = Stepped(longer[<< g, k >>], File(names, g)[k + 1])
    <2>1. longer[<< g, k >>] = table[<< g, k >>]
        BY <1>1, <1>3
    <2>2. CASE g = f /\ k = l
        BY <1>1, <2>1, <2>2
    <2>3. CASE ~ (g = f /\ k = l)
        <3>1. longer[<< g, k + 1 >>] = table[<< g, k + 1 >>]
            BY <1>1, <2>3
        <3>2. g < f \/ (g = f /\ k < l)
            BY <1>3, <2>3
        <3>3. table[<< g, k + 1 >>] = Stepped(table[<< g, k >>], File(names, g)[k + 1])
            BY <1>3, <3>2 DEF Walk
        <3>4. QED BY <2>1, <3>1, <3>3
    <2>4. QED BY <2>2, <2>3
<1>4. ASSUME NEW g \in Nat, g < f
      PROVE  longer[<< g + 1, 0 >>] = longer[<< g, Len(File(names, g)) >>]
    <2>1. longer[<< g + 1, 0 >>] = table[<< g + 1, 0 >>]
        BY <1>1
    <2>2. table[<< g + 1, 0 >>] = table[<< g, Len(File(names, g)) >>]
        BY <1>4 DEF Walk
    <2>3. longer[<< g, Len(File(names, g)) >>] = table[<< g, Len(File(names, g)) >>]
        BY <1>4 DEF longer
    <2>4. QED BY <2>1, <2>2, <2>3
<1>5. Walk(longer, names, f, l + 1)
    BY <1>2, <1>3, <1>4 DEF Walk
<1>6. longer[<< f, l + 1 >>] = e /\ Agree(longer, table, f, l + 1)
    BY <1>1 DEF Agree
<1>7. QED BY <1>5, <1>6

(* Longer has the start of the file behind file f too.                      *)
GoesOn(longer, table, names, f) ==
    /\ Walk(longer, names, f + 1, 0)
    /\ longer[<< f + 1, 0 >>] = table[<< f, Len(File(names, f)) >>]
    /\ Agree(longer, table, f + 1, 0)

LEMMA WalkFile ==
    ASSUME NEW table, NEW names, NEW f \in Nat, Walk(table, names, f, Len(File(names, f))),
           Len(File(names, f)) \in Nat, \A g \in Nat : g < f => Len(File(names, g)) \in Nat
    PROVE  \E longer : GoesOn(longer, table, names, f)
<1> DEFINE e == table[<< f, Len(File(names, f)) >>]
           longer == [p \in Nat \X Nat |-> IF p = << f + 1, 0 >> THEN e ELSE table[p]]
<1>1. \A g \in Nat, k \in Nat :
         longer[<< g, k >>] = IF g = f + 1 /\ k = 0 THEN e ELSE table[<< g, k >>]
    OBVIOUS
<1> HIDE DEF longer
<1>2. longer[<< 0, 0 >>] = FirstEntry
    BY <1>1 DEF Walk
<1>3. ASSUME NEW g \in Nat, NEW k \in Nat, k < Len(File(names, g)),
             g < f + 1 \/ (g = f + 1 /\ k < 0)
      PROVE  longer[<< g, k + 1 >>] = Stepped(longer[<< g, k >>], File(names, g)[k + 1])
    <2>1. g <= f /\ g # f + 1
        BY <1>3
    <2>2. longer[<< g, k >>] = table[<< g, k >>]
          /\ longer[<< g, k + 1 >>] = table[<< g, k + 1 >>]
        BY <1>1, <2>1
    <2>3. g < f \/ (g = f /\ k < Len(File(names, f)))
        BY <1>3, <2>1
    <2>4. table[<< g, k + 1 >>] = Stepped(table[<< g, k >>], File(names, g)[k + 1])
        BY <1>3, <2>3 DEF Walk
    <2>5. QED BY <2>2, <2>4
<1>4. ASSUME NEW g \in Nat, g < f + 1
      PROVE  longer[<< g + 1, 0 >>] = longer[<< g, Len(File(names, g)) >>]
    <2>1. Len(File(names, g)) \in Nat
        <3>1. g < f \/ g = f
            BY <1>4
        <3>2. QED BY <3>1
    <2>2. longer[<< g, Len(File(names, g)) >>] = table[<< g, Len(File(names, g)) >>]
        BY <1>1, <1>4, <2>1
    <2>3. CASE g = f
        BY <1>1, <2>2, <2>3
    <2>4. CASE g # f
        <3>1. g < f
            BY <1>4, <2>4
        <3>2. longer[<< g + 1, 0 >>] = table[<< g + 1, 0 >>]
            BY <1>1, <3>1
        <3>3. table[<< g + 1, 0 >>] = table[<< g, Len(File(names, g)) >>]
            BY <3>1 DEF Walk
        <3>4. QED BY <2>2, <3>2, <3>3
    <2>5. QED BY <2>3, <2>4
<1>5. Walk(longer, names, f + 1, 0)
    BY <1>2, <1>3, <1>4 DEF Walk
<1>6. longer[<< f + 1, 0 >>] = e /\ Agree(longer, table, f + 1, 0)
    BY <1>1 DEF Agree
<1>7. QED BY <1>5, <1>6 DEF GoesOn

(* Who follows the table before a line follows it behind the line.          *)
LEMMA FollowsLine ==
    ASSUME NEW names, GoodNames(names), NEW f \in Nat, NEW l \in Nat,
           f < Len(names), l < Len(File(names, f)),
           NEW entry, Follows(Now, entry, names, f, l)
    PROVE  Follows(After(Now, File(names, f)[l + 1]), After(entry, File(names, f)[l + 1]),
                   names, f, l + 1)
<1> DEFINE w == File(names, f)[l + 1]
           a == After(Now, w)
           b == After(entry, w)
<1>1. Now.used = entry.used /\ Now.offset = entry.offset
    BY DEF Follows
<1>2. /\ a.used = [s \in Sized |-> IF s = Place(Now.current, w)
                      THEN Filled(Now.offset, w, Now.used[s]) ELSE Now.used[s]]
      /\ a.current = CurrentAfter(Now.current, w)
      /\ a.offset = OffsetAfter(Now.offset, w)
    BY DEF After
<1>3. /\ b.used = [s \in Sized |-> IF s = Place(entry.current, w)
                      THEN Filled(entry.offset, w, entry.used[s]) ELSE entry.used[s]]
      /\ b.current = CurrentAfter(entry.current, w)
      /\ b.offset = OffsetAfter(entry.offset, w)
    BY DEF After
<1> HIDE DEF a, b
<1>4. a.offset = b.offset
    BY <1>1, <1>2, <1>3
<1>5. ASSUME Now.current = entry.current PROVE Follows(a, b, names, f, l + 1)
    <2>1. a.used = b.used /\ a.current = b.current
        BY <1>1, <1>2, <1>3, <1>5
    <2>2. QED BY <1>4, <2>1 DEF Follows
<1>6. ASSUME Now.current # entry.current PROVE Follows(a, b, names, f, l + 1)
    <2>1. Silence(names, f, l) /\ f = 0
        BY <1>6 DEF Follows, Silence
    <2>2. w.word \in Silent \/ w.word \in DOMAIN SegmentWords
        BY <2>1, SilenceEnds
    <2>3. w.word \notin {"address", "byte", "align", "skip"}
        BY <2>2, SegmentWordsDomain DEF Silent
    <2>4. \A current : Place(current, w) = "CODESEG"
        BY <2>3 DEF Place
    <2>5. a.used = b.used
        BY <1>1, <1>2, <1>3, <2>4
    <2>6. CASE w.word \in Silent
        <3>1. Silence(names, f, l + 1)
            <4>1. \A j \in 1 .. l + 1 : j \in 1 .. l \/ j = l + 1
                OBVIOUS
            <4>2. QED BY <2>1, <2>6, <4>1 DEF Silence
        <3>2. QED BY <1>4, <2>5, <3>1 DEF Follows
    <2>7. CASE w.word \in DOMAIN SegmentWords
        <3>1. a.current = b.current
            BY <1>2, <1>3, <2>7 DEF CurrentAfter
        <3>2. QED BY <1>4, <2>5, <3>1 DEF Follows
    <2>8. QED BY <2>2, <2>6, <2>7
<1>7. Follows(a, b, names, f, l + 1)
    BY <1>5, <1>6
<1>8. QED BY <1>7 DEF a, b

(* And behind a file it is at the start of the next.                        *)
LEMMA FollowsFile ==
    ASSUME NEW names, GoodNames(names), NEW f \in Nat, f < Len(names), NEW entry,
           Follows(Now, entry, names, f, Len(File(names, f))), NEW g, NEW k
    PROVE  Follows(Now, entry, names, g, k)
<1>1. ~ Silence(names, f, Len(File(names, f)))
    BY SilenceEnds DEF Silence
<1>2. QED BY <1>1 DEF Follows

-----------------------------------------------------------------------------
(* The invariant.                                                           *)

(* Arguments that were stored wait for a call that comes.                   *)
Pending ==
    frame.argOffset # 0 =>
        \E i \in 1 .. currentFileLine :
            /\ Lines[i].word = "ARG"
            /\ \A j \in i + 1 .. currentFileLine : Lines[j].word # "CALL"

SizesOf(entry) == \A s \in Sized : Used(s) = Aligned(entry.used[s])
BasesOf(entry) ==
    LET size(s) == Aligned(entry.used[s])
    IN  /\ Base("LITSEG") = size("DATASEG")
        /\ Base("BSSSEG") = size("DATASEG") + size("LITSEG")
        /\ Base("JTRGSEG") = size("DATASEG") + size("LITSEG") + size("BSSSEG")

LastEntry(table) == table[<< LastFile(asmFileNames), LastLine(asmFileNames) >>].sizes
WholeWalk(table) ==
    Walk(table, asmFileNames, LastFile(asmFileNames), LastLine(asmFileNames))

Following(table) ==
    /\ Follows(Now, table[<< currentFileIndex, currentFileLine >>].sizes,
               asmFileNames, currentFileIndex, currentFileLine)
    /\ instructionCount = table[<< currentFileIndex, currentFileLine >>].count
Filling(table) ==
    Walk(table, asmFileNames, currentFileIndex, currentFileLine) /\ Following(table)
Retracing(table) ==
    WholeWalk(table) /\ Following(table) /\ BasesOf(LastEntry(table))

NamesTyped == argv \in Seq(STRING) /\ asmFileNames \in Seq(STRING)

Beginning ==
    /\ GoodNames(asmFileNames) /\ Shaped /\ FrameShaped
    /\ passNumber \in {0, 1} /\ frame.argOffset = 0
    /\ passNumber = 1 => \E table : WholeWalk(table) /\ SizesOf(LastEntry(table))

Assembling ==
    /\ GoodNames(asmFileNames) /\ Shaped /\ FrameShaped
    /\ passNumber \in {0, 1}
    /\ currentFileIndex \in Nat /\ currentFileIndex < Len(asmFileNames)
    /\ currentFileLine \in Nat /\ currentFileLine <= Len(Lines)
    /\ Pending
    /\ passNumber = 0 => \E table : Filling(table)
    /\ passNumber = 1 => \E table : Retracing(table)

PassInv ==
    /\ NamesTyped
    /\ phase = "options" => Shaped /\ FrameShaped /\ passNumber = 0 /\ frame.argOffset = 0
    /\ phase = "begin" => Beginning
    /\ phase = "assemble" => Assembling
    /\ phase = "stack" => Base("JTRGSEG") \in Int
    /\ phase \in {"stack", "write"} => Shaped /\ SegmentsMeet

LEMMA LinesAre == Lines = File(asmFileNames, currentFileIndex)
    BY DEF Lines, File

LEMMA InitPassInv == Init => PassInv
<1> SUFFICES ASSUME Init PROVE PassInv
    OBVIOUS
<1>1. NamesTyped
    BY CommandLinesAssumption DEF Init, NamesTyped
<1>2. phase = "options" /\ passNumber = 0
    BY DEF Init
<1>3. Shaped
    <2>1. segment = [s \in Segments |->
                        [image |-> [x \in 1 .. MaxImage |-> 0],
                         imageUsed |-> 0, segmentBase |-> 0]]
        BY DEF Init
    <2> DEFINE r == [image |-> [x \in 1 .. MaxImage |-> 0], imageUsed |-> 0,
                     segmentBase |-> 0]
    <2>2. r.imageUsed \in Int /\ SegmentRecord(r)
        BY DEF SegmentRecord
    <2> HIDE DEF r
    <2>3. segment = [s \in Segments |-> r]
        BY <2>1 DEF r
    <2>4. QED BY <2>2, <2>3 DEF Shaped, Used
<1>4. FrameShaped /\ frame.argOffset = 0
    BY DEF Init, FrameShaped
<1>5. QED BY <1>1, <1>2, <1>3, <1>4 DEF PassInv

-----------------------------------------------------------------------------
(* The steps that assemble no line.                                         *)

LEMMA OptionInv ==
    ASSUME PassInv, Option
    PROVE  PassInv'
<1>1. phase = "options" /\ argv # << >> /\ argv \in Seq(STRING)
      /\ asmFileNames \in Seq(STRING)
    BY DEF PassInv, Option, NamesTyped
<1>2. Tail(argv) \in Seq(STRING)
    BY <1>1
<1>3. Len(argv) > 1 => Tail(Tail(argv)) \in Seq(STRING)
    <2>1. Len(argv) \in Nat /\ Len(Tail(argv)) = Len(argv) - 1
        BY <1>1
    <2>2. Len(argv) > 1 => Tail(argv) # << >>
        BY <2>1
    <2> DEFINE t == Tail(argv)
    <2> HIDE DEF t
    <2>3. t \in Seq(STRING) /\ t # << >> => Tail(t) \in Seq(STRING)
        OBVIOUS
    <2>4. QED BY <1>2, <2>2, <2>3 DEF t
<1>4. NamesTyped' /\ (phase' = "options" \/ phase' = "exited") /\ UNCHANGED assembling
    <2>1. CASE Head(argv) \in {"-o", "-b"} /\ Len(argv) > 1
        BY <2>1, <1>1, <1>3 DEF Option, NamesTyped
    <2>2. CASE Head(argv) = "-f" /\ Len(argv) > 1
        <3>1. ParseOptionFile(argv[2])
            BY <2>2 DEF Option
        <3>2. CASE argv[2] \in DOMAIN ListFiles
            <4>1. ListFiles[argv[2]] \in Seq(STRING)
                BY <3>2, CommandLinesAssumption
            <4>2. FromList(ListFiles[argv[2]]).files \in Seq(STRING)
                BY <1>1, <4>1, NamesFromList
            <4>3. /\ asmFileNames' = FromList(ListFiles[argv[2]]).files
                  /\ argv' = Tail(Tail(argv)) /\ phase' = phase /\ UNCHANGED assembling
                BY <3>1, <3>2 DEF ParseOptionFile
            <4>4. QED BY <1>1, <1>3, <2>2, <4>2, <4>3 DEF NamesTyped
        <3>3. CASE argv[2] \notin DOMAIN ListFiles
            BY <1>1, <3>1, <3>3 DEF ParseOptionFile, Exit, commandLine, NamesTyped
        <3>4. QED BY <3>2, <3>3
    <2>3. CASE Head(argv) \in {"-v", "-m", "-vq3"}
        BY <2>3, <1>1, <1>2 DEF Option, NamesTyped
    <2>4. CASE /\ ~ (Head(argv) \in {"-o", "-b"} /\ Len(argv) > 1)
               /\ ~ (Head(argv) = "-f" /\ Len(argv) > 1)
               /\ Head(argv) \notin {"-v", "-m", "-vq3"}
        <3>1. Exit
            BY <2>4 DEF Option
        <3>2. QED BY <1>1, <3>1 DEF Exit, commandLine, NamesTyped
    <2>5. QED BY <2>1, <2>2, <2>3, <2>4
<1>5. UNCHANGED << segment, frame, passNumber >>
    BY <1>4 DEF assembling
<1>6. Shaped /\ FrameShaped /\ passNumber = 0 /\ frame.argOffset = 0
    BY <1>1 DEF PassInv
<1>7. Shaped' /\ FrameShaped' /\ passNumber' = 0 /\ frame'.argOffset = 0
    BY <1>5, <1>6 DEF Shaped, FrameShaped, Used
<1>8. QED BY <1>4, <1>7 DEF PassInv

LEMMA FilesInv ==
    ASSUME PassInv, Files
    PROVE  PassInv'
<1>1. /\ phase = "options" /\ asmFileNames' = asmFileNames \o argv /\ argv' = << >>
      /\ phase' = IF asmFileNames' # << >> /\ Range(asmFileNames') \subseteq DOMAIN AsmFiles
                  THEN "begin" ELSE "exited"
      /\ UNCHANGED << segment, frame, passNumber >>
    BY DEF Files
<1>2. argv \in Seq(STRING) /\ asmFileNames \in Seq(STRING)
    BY DEF PassInv, NamesTyped
<1>3. NamesTyped'
    BY <1>1, <1>2, ConcatProperties DEF NamesTyped
<1>4. Shaped /\ FrameShaped /\ passNumber = 0 /\ frame.argOffset = 0
    BY <1>1 DEF PassInv
<1>5. Shaped' /\ FrameShaped' /\ passNumber' = 0 /\ frame'.argOffset = 0
    BY <1>1, <1>4 DEF Shaped, FrameShaped, Used
<1>6. CASE phase' = "begin"
    <2>1. asmFileNames' # << >> /\ Range(asmFileNames') \subseteq DOMAIN AsmFiles
        BY <1>1, <1>6
    <2>2. asmFileNames' \in Seq(STRING)
        BY <1>3 DEF NamesTyped
    <2>3. \A k \in 1 .. Len(asmFileNames') : asmFileNames'[k] \in DOMAIN AsmFiles
        BY <2>1, <2>2 DEF Range
    <2>4. GoodNames(asmFileNames')
        BY <2>1, <2>2, <2>3 DEF GoodNames
    <2>5. Beginning'
        BY <1>5, <2>4 DEF Beginning
    <2>6. QED BY <1>3, <1>6, <2>5 DEF PassInv
<1>7. CASE phase' = "exited"
    BY <1>3, <1>7 DEF PassInv
<1>8. QED BY <1>1, <1>6, <1>7

LEMMA AlignedInt ==
    ASSUME NEW n \in Int
    PROVE  Aligned(n) \in Int
    BY DEF Aligned

(* A pass begins with empty segments behind the bases the last one found.   *)
LEMMA PassBegins ==
    ASSUME Beginning, BeginPass
    PROVE  /\ Shaped'
           /\ Base("LITSEG")' = Used("DATASEG")
           /\ Base("BSSSEG")' = Used("DATASEG") + Used("LITSEG")
           /\ Base("JTRGSEG")' = Used("DATASEG") + Used("LITSEG") + Used("BSSSEG")
           /\ \A table : table[<< 0, 0 >>] = FirstEntry => Following(table)'
<1>1. frame.argOffset = 0 /\ frame' = frame /\ currentFileIndex' = 0 /\ currentFileLine' = 0
    BY DEF Beginning, BeginPass
<1> DEFINE lit == Used("DATASEG")
           bss == lit + Used("LITSEG")
           base == [LITSEG |-> lit, BSSSEG |-> bss, JTRGSEG |-> bss + Used("BSSSEG")]
           used(s) == IF s = "DATASEG" THEN 4 ELSE 0
           from(s) == IF s \in DOMAIN base THEN base[s] ELSE 0
<1>2. segment' = [s \in Segments |-> [image |-> segment[s].image, imageUsed |-> used(s),
                                      segmentBase |-> from(s)]]
    BY DEF BeginPass
<1>3. \A s \in Segments : used(s) \in Int
    OBVIOUS
<1>4. from("LITSEG") = lit /\ from("BSSSEG") = bss /\ from("JTRGSEG") = bss + Used("BSSSEG")
    OBVIOUS
<1> HIDE DEF used, from
<1>5. \A s \in Segments : /\ segment'[s].imageUsed = used(s) /\ segment'[s].segmentBase = from(s)
                          /\ SegmentRecord(segment'[s])
    BY <1>2 DEF SegmentRecord
<1>6. Shaped'
    <2>1. segment' = [s \in Segments |-> segment'[s]]
        BY <1>2
    <2>2. QED BY <1>3, <1>5, <2>1 DEF Shaped, Used
<1>7. /\ Base("LITSEG")' = lit /\ Base("BSSSEG")' = bss
      /\ Base("JTRGSEG")' = bss + Used("BSSSEG")
    BY <1>4, <1>5 DEF Base, Segments
<1>8. Now'.used = Start.used /\ Now'.offset = Start.offset
    <2>1. Now'.used = [s \in Sized |-> segment'[s].imageUsed]
        BY DEF Now, Used
    <2>2. Now'.used = [s \in Sized |-> used(s)]
        BY <1>5, <2>1, SizedSegments
    <2>3. Now'.used = Start.used
        BY <2>2 DEF Start, used
    <2>4. Now'.offset = Start.offset
        BY <1>1 DEF Now, Start
    <2>5. QED BY <2>3, <2>4
<1>9. \A names : Silence(names, 0, 0)
    BY DEF Silence
<1>10. \A table : table[<< 0, 0 >>] = FirstEntry => Following(table)'
    <2>1. instructionCount' = 0
        BY DEF BeginPass
    <2>2. FirstEntry.sizes = Start /\ FirstEntry.count = 0
        BY DEF FirstEntry
    <2>3. QED BY <1>1, <1>8, <1>9, <2>1, <2>2 DEF Following, Follows
<1>11. QED BY <1>6, <1>7, <1>10

LEMMA FillingBegins ==
    ASSUME Beginning, BeginPass
    PROVE  \E table : Filling(table)'
<1>1. currentFileIndex' = 0 /\ currentFileLine' = 0
    BY DEF BeginPass
<1> DEFINE table == [p \in {<< 0, 0 >>} |-> FirstEntry]
<1>2. table[<< 0, 0 >>] = FirstEntry
    OBVIOUS
<1> HIDE DEF table
<1>3. \A names : Walk(table, names, 0, 0)
    BY <1>2 DEF Walk
<1>4. Filling(table)'
    BY <1>1, <1>2, <1>3, PassBegins DEF Filling
<1>5. QED BY <1>4

LEMMA RetracingBegins ==
    ASSUME Beginning, BeginPass, NEW table, WholeWalk(table), SizesOf(LastEntry(table))
    PROVE  Retracing(table)'
<1>1. UNCHANGED asmFileNames
    BY DEF BeginPass, commandLine
<1>2. table[<< 0, 0 >>] = FirstEntry
    BY DEF WholeWalk, Walk
<1>3. WholeWalk(table)' /\ LastEntry(table)' = LastEntry(table)
    BY <1>1 DEF WholeWalk, LastEntry
<1> DEFINE e == LastEntry(table)
<1>4. /\ Used("DATASEG") = Aligned(e.used["DATASEG"])
      /\ Used("LITSEG") = Aligned(e.used["LITSEG"])
      /\ Used("BSSSEG") = Aligned(e.used["BSSSEG"])
    BY DEF SizesOf, Sized
<1> HIDE DEF e
<1>5. BasesOf(e)'
    <2>1. e' = e
        BY <1>3 DEF e
    <2>2. QED BY <1>4, <2>1, PassBegins DEF BasesOf
<1>6. QED BY <1>2, <1>3, <1>5, PassBegins DEF Retracing, e

LEMMA BeginPassInv ==
    ASSUME PassInv, BeginPass
    PROVE  PassInv'
<1>1. phase = "begin" /\ NamesTyped /\ Beginning
    BY DEF BeginPass, PassInv
<1>2. GoodNames(asmFileNames) /\ FrameShaped /\ passNumber \in {0, 1} /\ frame.argOffset = 0
    BY <1>1 DEF Beginning
<1>3. phase' = "assemble" /\ currentFileIndex' = 0 /\ currentFileLine' = 0
      /\ UNCHANGED << argv, asmFileNames, passNumber, frame >>
    BY DEF BeginPass, commandLine
<1>4. FrameShaped' /\ frame'.argOffset = 0
    BY <1>2, <1>3 DEF FrameShaped
<1>5. GoodNames(asmFileNames') /\ passNumber' \in {0, 1} /\ NamesTyped'
    BY <1>1, <1>2, <1>3 DEF NamesTyped
<1>6. Len(asmFileNames) \in Nat /\ 0 < Len(asmFileNames)
    BY <1>2, EmptySeq, LenProperties DEF GoodNames
<1>7. currentFileLine' <= Len(Lines')
    <2>1. Len(File(asmFileNames, 0)) \in Nat
        BY <1>2, <1>6, FileFacts
    <2>2. QED BY <1>3, <2>1 DEF Lines, File
<1>8. Pending'
    BY <1>4 DEF Pending
<1>9. ASSUME passNumber' = 0 PROVE \E table : Filling(table)'
    BY <1>1, FillingBegins
<1>10. ASSUME passNumber' = 1 PROVE \E table : Retracing(table)'
    BY <1>1, <1>3, <1>10, RetracingBegins DEF Beginning
<1>11. Assembling'
    BY <1>1, <1>3, <1>4, <1>5, <1>6, <1>7, <1>8, <1>9, <1>10, PassBegins DEF Assembling
<1>12. QED BY <1>3, <1>5, <1>11 DEF PassInv

(* At the end of a file no argument waits for its call.                     *)
LEMMA NothingPending ==
    ASSUME Assembling, EndOfFile
    PROVE  frame.argOffset = 0
<1> SUFFICES ASSUME frame.argOffset # 0 PROVE FALSE
    OBVIOUS
<1>1. currentFileLine = Len(Lines) /\ Len(Lines) \in Nat
      /\ asmFileNames[currentFileIndex + 1] \in DOMAIN AsmFiles
    BY FileFacts, LinesAre DEF EndOfFile, Assembling
<1>2. PICK i \in 1 .. Len(Lines) :
         Lines[i].word = "ARG" /\ \A j \in i + 1 .. Len(Lines) : Lines[j].word # "CALL"
    BY <1>1 DEF Assembling, Pending
<1>3. \E j \in i + 1 .. Len(Lines) : Lines[j].word = "CALL"
    BY <1>1, <1>2, LinesAssumption DEF Lines
<1>4. QED BY <1>2, <1>3

(* The table goes on with the files, in both passes.                        *)
LEMMA NextFileFollows ==
    ASSUME Assembling, NextFile, NEW table, NEW longer, Following(table),
           longer[<< currentFileIndex + 1, 0 >>]
              = table[<< currentFileIndex, Len(File(asmFileNames, currentFileIndex)) >>]
    PROVE  Following(longer)'
<1> DEFINE f == currentFileIndex
           names == asmFileNames
           entry == table[<< f, Len(File(names, f)) >>]
<1>1. GoodNames(names) /\ f \in Nat /\ f < Len(names)
    BY DEF Assembling
<1>2. /\ currentFileLine = Len(File(names, f))
      /\ currentFileIndex' = f + 1 /\ currentFileLine' = 0
      /\ UNCHANGED << asmFileNames, segment, frame, currentSegment, instructionCount >>
    BY LinesAre DEF NextFile, EndOfFile, commandLine, symbolState
<1>3. Now' = Now
    BY <1>2 DEF Now, Used
<1>4. Follows(Now, entry.sizes, names, f, Len(File(names, f))) /\ instructionCount = entry.count
    BY <1>2 DEF Following
<1>5. longer[<< f + 1, 0 >>] = entry
    OBVIOUS
<1> HIDE DEF entry
<1>6. Follows(Now, entry.sizes, names, f + 1, 0)
    BY <1>1, <1>4, FollowsFile
<1>7. QED BY <1>2, <1>3, <1>4, <1>5, <1>6 DEF Following

FileOn(longer, table) ==
    Filling(longer)' /\ GoesOn(longer, table, asmFileNames, currentFileIndex)
LEMMA FillingFile ==
    ASSUME Assembling, NextFile, NEW table, Filling(table)
    PROVE  \E longer : FileOn(longer, table)
<1> DEFINE f == currentFileIndex
           names == asmFileNames
<1>1. GoodNames(names) /\ f \in Nat /\ f < Len(names) /\ Len(names) \in Nat
    BY LenProperties DEF Assembling, GoodNames
<1>2. /\ currentFileLine = Len(File(names, f))
      /\ currentFileIndex' = f + 1 /\ currentFileLine' = 0 /\ UNCHANGED asmFileNames
    BY LinesAre DEF NextFile, EndOfFile, commandLine
<1>3. Walk(table, names, f, Len(File(names, f))) /\ Following(table)
    BY <1>2 DEF Filling
<1>4. \A g \in Nat : g <= f => Len(File(names, g)) \in Nat
    BY <1>1, FileFacts
<1>5. PICK longer : GoesOn(longer, table, names, f)
    <2>1. Walk(table, names, f, Len(File(names, f)))
        BY <1>3
    <2> HIDE DEF f, names
    <2>2. QED BY <1>1, <1>4, <2>1, WalkFile
<1>6. Following(longer)'
    BY <1>3, <1>5, NextFileFollows DEF GoesOn
<1>7. Filling(longer)'
    BY <1>2, <1>5, <1>6 DEF Filling, GoesOn
<1>8. QED BY <1>5, <1>7 DEF FileOn

LEMMA RetracingFile ==
    ASSUME Assembling, NextFile, NEW table, Retracing(table)
    PROVE  Retracing(table)'
<1> DEFINE f == currentFileIndex
           names == asmFileNames
<1>1. f \in Nat /\ Len(names) \in Nat /\ f + 1 < Len(names)
      /\ UNCHANGED << asmFileNames, segment >>
    BY LenProperties DEF Assembling, GoodNames, NextFile, commandLine
<1>2. WholeWalk(table) /\ Following(table) /\ BasesOf(LastEntry(table))
    BY DEF Retracing
<1>3. table[<< f + 1, 0 >>] = table[<< f, Len(File(names, f)) >>]
    BY <1>1, <1>2 DEF WholeWalk, Walk, LastFile
<1>4. WholeWalk(table)' /\ BasesOf(LastEntry(table))'
    BY <1>1, <1>2 DEF WholeWalk, BasesOf, LastEntry, Base
<1>5. Following(table)'
    BY <1>2, <1>3, NextFileFollows
<1>6. QED BY <1>4, <1>5 DEF Retracing

LEMMA NextFileInv ==
    ASSUME PassInv, NextFile
    PROVE  PassInv'
<1>1. phase = "assemble" /\ EndOfFile /\ NamesTyped /\ Assembling
    BY DEF NextFile, EndOfFile, PassInv
<1>2. /\ GoodNames(asmFileNames) /\ Shaped /\ FrameShaped /\ passNumber \in {0, 1}
      /\ currentFileIndex \in Nat /\ currentFileIndex < Len(asmFileNames)
      /\ Pending
    BY <1>1 DEF Assembling
<1>3. /\ currentFileIndex + 1 < Len(asmFileNames)
      /\ currentFileIndex' = currentFileIndex + 1 /\ currentFileLine' = 0
      /\ UNCHANGED << argv, asmFileNames, phase, passNumber, segment, frame, currentSegment >>
    BY DEF NextFile, commandLine, symbolState
<1> DEFINE f == currentFileIndex
           names == asmFileNames
<1>4. currentFileLine = Len(File(names, f)) /\ Len(File(names, f)) \in Nat
    BY <1>1, <1>2, FileFacts, LinesAre DEF EndOfFile
<1>5. frame.argOffset = 0
    BY <1>1, NothingPending
<1>6. Shaped' /\ FrameShaped' /\ NamesTyped' /\ Now' = Now /\ frame'.argOffset = 0
    BY <1>1, <1>2, <1>3, <1>5 DEF Shaped, FrameShaped, NamesTyped, Used, Now
<1>7. currentFileLine' <= Len(Lines') /\ Pending'
    <2>1. Len(File(names, f + 1)) \in Nat
        BY <1>2, <1>3, FileFacts
    <2>2. Lines' = File(names, f + 1)
        BY <1>3 DEF Lines, File
    <2>3. QED BY <1>3, <1>6, <2>1, <2>2 DEF Pending
<1>8. ASSUME passNumber' = 0 PROVE \E table : Filling(table)'
    BY <1>1, <1>3, <1>8, FillingFile DEF Assembling, FileOn
<1>9. ASSUME passNumber' = 1 PROVE \E table : Retracing(table)'
    BY <1>1, <1>3, <1>9, RetracingFile DEF Assembling
<1>10. GoodNames(asmFileNames') /\ passNumber' \in {0, 1}
       /\ currentFileIndex' \in Nat /\ currentFileIndex' < Len(asmFileNames')
       /\ currentFileLine' \in Nat
    BY <1>2, <1>3
<1>11. Assembling'
    BY <1>6, <1>7, <1>8, <1>9, <1>10 DEF Assembling
<1>12. QED BY <1>1, <1>3, <1>6, <1>11 DEF PassInv

(* The end of a pass is behind the last line of the last file.              *)
LEMMA AtTheEnd ==
    ASSUME Assembling, EndOfFile, currentFileIndex + 1 = Len(asmFileNames)
    PROVE  /\ currentFileIndex = LastFile(asmFileNames)
           /\ currentFileLine = LastLine(asmFileNames)
<1>1. currentFileIndex = LastFile(asmFileNames)
    <2>1. currentFileIndex \in Nat /\ Len(asmFileNames) \in Nat
        BY LenProperties DEF Assembling, GoodNames
    <2>2. QED BY <2>1 DEF LastFile
<1>2. QED BY <1>1, LinesAre DEF EndOfFile, LastLine

(* The segments are aligned; what the last entry has is what they have.     *)
LEMMA EndPassSizes ==
    ASSUME Assembling, EndPass
    PROVE  /\ \A s \in Segments :
                 /\ segment'[s].imageUsed = Aligned(Used(s)) /\ Aligned(Used(s)) \in Int
                 /\ segment'[s].segmentBase = Base(s) /\ SegmentRecord(segment'[s])
                 /\ Used(s)' = Aligned(Used(s)) /\ Base(s)' = Base(s)
           /\ Shaped'
           /\ \A table : Following(table) =>
                 \A s \in Sized : LastEntry(table).used[s] = Used(s)
<1>1. EndOfFile /\ currentFileIndex + 1 = Len(asmFileNames) /\ Shaped
    BY DEF EndPass, Assembling
<1>2. segment' = [s \in Segments |-> [segment[s] EXCEPT !.imageUsed = Aligned(@)]]
    BY DEF EndPass
<1>3. \A s \in Segments : Used(s) \in Int /\ SegmentRecord(segment[s])
    BY <1>1 DEF Shaped
<1>4. ASSUME NEW s \in Segments
      PROVE  /\ segment'[s].imageUsed = Aligned(Used(s)) /\ Aligned(Used(s)) \in Int
             /\ segment'[s].segmentBase = Base(s) /\ SegmentRecord(segment'[s])
    <2>1. segment'[s] = [segment[s] EXCEPT !.imageUsed = Aligned(Used(s))]
        BY <1>2 DEF Used
    <2> DEFINE n == Aligned(Used(s))
    <2>2. n \in Int
        BY <1>3, AlignedInt
    <2> HIDE DEF n
    <2>3. segment'[s] = [image |-> segment[s].image, imageUsed |-> n,
                         segmentBase |-> segment[s].segmentBase]
        BY <1>3, <2>1, RecordExcept DEF n
    <2>4. QED BY <2>2, <2>3 DEF SegmentRecord, Base, n
<1>5. Shaped'
    <2>1. segment' = [s \in Segments |-> segment'[s]]
        BY <1>2
    <2>2. QED BY <1>4, <2>1 DEF Shaped, Used
<1>6. \A s \in Segments : Used(s)' = Aligned(Used(s)) /\ Base(s)' = Base(s)
    BY <1>4 DEF Used, Base
<1>7. \A table : Following(table) => \A s \in Sized : LastEntry(table).used[s] = Used(s)
    <2> SUFFICES ASSUME NEW table, Following(table)
                 PROVE  \A s \in Sized : LastEntry(table).used[s] = Used(s)
        OBVIOUS
    <2>1. LastEntry(table) = table[<< currentFileIndex, currentFileLine >>].sizes
        BY <1>1, AtTheEnd DEF LastEntry
    <2>2. Now.used = LastEntry(table).used
        BY <2>1 DEF Following, Follows
    <2>3. \A s \in Sized : Now.used[s] = Used(s)
        BY DEF Now
    <2>4. QED BY <2>2, <2>3
<1>8. QED BY <1>4, <1>5, <1>6, <1>7

LEMMA FillingEnds ==
    ASSUME Assembling, EndPass, NEW table, Filling(table)
    PROVE  WholeWalk(table)' /\ SizesOf(LastEntry(table))'
<1>1. EndOfFile /\ currentFileIndex + 1 = Len(asmFileNames) /\ UNCHANGED asmFileNames
    BY DEF EndPass, commandLine
<1>2. WholeWalk(table) /\ Following(table)
    BY <1>1, AtTheEnd DEF Filling, WholeWalk
<1>3. LastEntry(table)' = LastEntry(table) /\ WholeWalk(table)'
    BY <1>1, <1>2 DEF LastEntry, WholeWalk
<1>4. SizesOf(LastEntry(table))'
    BY <1>2, <1>3, EndPassSizes, SizedSegments DEF SizesOf
<1>5. QED BY <1>3, <1>4

LEMMA EndPassInv ==
    ASSUME PassInv, EndPass
    PROVE  PassInv'
<1>1. phase = "assemble" /\ EndOfFile /\ NamesTyped /\ Assembling
      /\ currentFileIndex + 1 = Len(asmFileNames)
    BY DEF EndPass, EndOfFile, PassInv
<1>2. GoodNames(asmFileNames) /\ Shaped /\ FrameShaped /\ passNumber \in {0, 1}
    BY <1>1 DEF Assembling
<1>3. /\ segment' = [s \in Segments |-> [segment[s] EXCEPT !.imageUsed = Aligned(@)]]
      /\ passNumber' = passNumber + 1
      /\ phase' = IF passNumber = 0 THEN "begin" ELSE "stack"
      /\ UNCHANGED << argv, asmFileNames, frame >>
    BY DEF EndPass, commandLine
<1>4. frame.argOffset = 0
    BY <1>1, NothingPending
<1>5. FrameShaped' /\ frame'.argOffset = 0 /\ NamesTyped' /\ GoodNames(asmFileNames')
    BY <1>1, <1>2, <1>3, <1>4 DEF FrameShaped, NamesTyped
<1>6. /\ Shaped' /\ \A s \in Segments : /\ segment'[s].imageUsed = Aligned(Used(s))
                                         /\ Aligned(Used(s)) \in Int
    BY <1>1, EndPassSizes
<1>7. \A s \in Segments : Used(s)' = Aligned(Used(s)) /\ Base(s)' = Base(s)
    BY <1>1, EndPassSizes
<1>8. CASE passNumber = 0
    <2>1. PICK table : Filling(table)
        BY <1>1, <1>8 DEF Assembling
    <2>2. WholeWalk(table)' /\ SizesOf(LastEntry(table))'
        BY <1>1, <2>1, FillingEnds
    <2>3. passNumber' \in {0, 1} /\ phase' = "begin"
        BY <1>3, <1>8
    <2>4. Beginning'
        BY <1>5, <1>6, <2>2, <2>3 DEF Beginning
    <2>5. QED BY <1>5, <2>3, <2>4 DEF PassInv
<1>9. CASE passNumber = 1
    <2>1. PICK table : Retracing(table)
        BY <1>1, <1>9 DEF Assembling
    <2>2. Following(table) /\ BasesOf(LastEntry(table))
        BY <2>1 DEF Retracing
    <2> DEFINE e == LastEntry(table)
    <2>3. \A s \in Sized : e.used[s] = Used(s) /\ Used(s)' = Aligned(e.used[s])
        BY <1>1, <1>7, <2>2, EndPassSizes, SizedSegments
    <2> HIDE DEF e
    <2>4. /\ Base("LITSEG") = Aligned(e.used["DATASEG"])
          /\ Base("BSSSEG") = Aligned(e.used["DATASEG"]) + Aligned(e.used["LITSEG"])
          /\ Base("JTRGSEG") = Aligned(e.used["DATASEG"]) + Aligned(e.used["LITSEG"])
                                 + Aligned(e.used["BSSSEG"])
        BY <2>2 DEF BasesOf, e
    <2>5. phase' = "stack"
        BY <1>3, <1>9
    <2>6. /\ Base("LITSEG")' = Used("DATASEG")'
          /\ Base("BSSSEG")' = Used("DATASEG")' + Used("LITSEG")'
          /\ Base("JTRGSEG")' = Used("DATASEG")' + Used("LITSEG")' + Used("BSSSEG")'
        BY <1>7, <2>3, <2>4 DEF Sized, Segments
    <2>7. Used("DATASEG")' \in Int /\ Used("LITSEG")' \in Int /\ Used("BSSSEG")' \in Int
        BY <1>6 DEF Used, Segments
    <2>8. SegmentsMeet'
        BY <2>5, <2>6, <2>7 DEF SegmentsMeet, Base
    <2>9. Base("JTRGSEG")' \in Int
        BY <2>6, <2>7
    <2>10. QED BY <1>5, <1>6, <2>5, <2>8, <2>9 DEF PassInv
<1>10. QED BY <1>2, <1>8, <1>9

LEMMA ReserveStackInv ==
    ASSUME PassInv, ReserveStack
    PROVE  PassInv'
<1>1. phase = "stack" /\ NamesTyped /\ Shaped /\ SegmentsMeet /\ Base("JTRGSEG") \in Int
    BY DEF ReserveStack, PassInv
<1> DEFINE n == Used("BSSSEG") + StackSize
<1>2. /\ segment' = [segment EXCEPT !["BSSSEG"].imageUsed = n]
      /\ phase' = "write" /\ UNCHANGED << argv, asmFileNames >>
    BY DEF ReserveStack, commandLine, Used
<1>3. Used("BSSSEG") \in Int /\ Used("DATASEG") \in Int /\ Used("LITSEG") \in Int
      /\ StackSize \in Int /\ n \in Int
    BY <1>1, CommandLinesAssumption DEF Shaped, Segments
<1>4. Shaped' /\ Grown("BSSSEG", n)
    <2> HIDE DEF n
    <2>1. QED BY <1>1, <1>2, <1>3, SizeStep
<1>5. /\ Used("BSSSEG")' = n /\ Used("DATASEG")' = Used("DATASEG")
      /\ Used("LITSEG")' = Used("LITSEG")
      /\ Base("LITSEG")' = Base("LITSEG") /\ Base("BSSSEG")' = Base("BSSSEG")
      /\ Base("JTRGSEG")' = Base("JTRGSEG")
    BY <1>4 DEF Grown, Sized, Segments
<1>6. /\ Base("LITSEG") = Used("DATASEG")
      /\ Base("BSSSEG") = Used("DATASEG") + Used("LITSEG")
      /\ Base("JTRGSEG") + 0 = Used("DATASEG") + Used("LITSEG") + Used("BSSSEG")
    BY <1>1 DEF SegmentsMeet, Base
<1>7. Base("JTRGSEG")' + StackSize
        = Used("DATASEG")' + Used("LITSEG")' + Used("BSSSEG")'
    BY <1>1, <1>3, <1>5, <1>6
<1>8. SegmentsMeet'
    BY <1>2, <1>5, <1>6, <1>7 DEF SegmentsMeet, Base
<1>9. NamesTyped'
    BY <1>1, <1>2 DEF NamesTyped
<1>10. QED BY <1>2, <1>4, <1>8, <1>9 DEF PassInv

LEMMA WriteInv ==
    ASSUME PassInv, Write
    PROVE  PassInv'
<1>1. NamesTyped' /\ phase' \in {"done", "failed"}
    BY DEF Write, PassInv, NamesTyped, commandLine
<1>2. QED BY <1>1 DEF PassInv

-----------------------------------------------------------------------------
(* The steps that assemble a line.                                          *)

LEMMA LineMoves ==
    ASSUME AssembleLine, ~ LineTooLong
    PROVE  /\ HasLine /\ currentFileLine' = currentFileLine + 1
           /\ UNCHANGED << argv, asmFileNames, passNumber, currentFileIndex >>
           /\ phase' = phase \/ phase' = "exited"
<1>1. \A words : At(words) =>
          /\ HasLine /\ currentFileLine' = currentFileLine + 1
          /\ UNCHANGED << argv, asmFileNames, passNumber, currentFileIndex >>
    BY DEF At, commandLine
<1>2. \A s, bytes, e : Emit(s, bytes, e) => phase' = phase \/ phase' = "exited"
    BY DEF Emit
<1>3. CASE CALL \/ RET \/ pop \/ endproc
    BY <1>1, <1>2, <1>3 DEF CALL, RET, pop, endproc
<1>4. CASE ADDRF \/ ADDRL \/ proc
    BY <1>1, <1>2, <1>4 DEF ADDRF, ADDRL, proc
<1>5. CASE ARG \/ byte \/ Op
    BY <1>1, <1>2, <1>5 DEF ARG, byte, Op
<1>6. CASE address
    BY <1>1, <1>6 DEF address
<1>7. CASE SegmentStatement \/ Ignored \/ equ \/ align \/ skip \/ LABEL
    BY <1>1, <1>7 DEF SegmentStatement, Ignored, equ, align, skip, LABEL
<1>8. CASE OpIgnored \/ BadExtension \/ UnknownToken
    BY <1>1, <1>8 DEF OpIgnored, BadExtension, UnknownToken
<1>9. QED BY <1>3, <1>4, <1>5, <1>6, <1>7, <1>8 DEF AssembleLine

LEMMA CountStep ==
    ASSUME AssembleLine, ~ LineTooLong
    PROVE  instructionCount' = Counted(instructionCount, line)
<1>1. \A words : At(words) => line.word \in words
    BY DEF At
<1>2. CASE CALL \/ RET \/ pop \/ ARG \/ ADDRF \/ ADDRL \/ proc
    BY <1>1, <1>2 DEF CALL, RET, pop, ARG, ADDRF, ADDRL, proc, Counted
<1>3. CASE endproc
    BY <1>1, <1>3 DEF endproc, Counted
<1>4. CASE address \/ equ \/ align \/ skip \/ byte \/ LABEL
    <2>1. line.word \in {"address", "equ", "align", "skip", "byte", "LABEL"}
          /\ instructionCount' = instructionCount
        BY <1>1, <1>4 DEF address, equ, align, skip, byte, LABEL
    <2>2. line.word \notin DOMAIN sourceOps
        BY <2>1, OpsApartFrom
    <2>3. QED BY <2>1, <2>2 DEF Counted
<1>5. CASE SegmentStatement \/ Ignored
    <2>1. line.word \in DOMAIN SegmentWords \cup Silent /\ instructionCount' = instructionCount
        BY <1>1, <1>5 DEF SegmentStatement, Ignored
    <2>2. line.word \notin DOMAIN sourceOps
        BY <2>1, OperationsAssumption
    <2>3. QED BY <2>1, <2>2, SegmentWordsDomain DEF Counted, Silent
<1>6. CASE OpIgnored \/ BadExtension \/ Op
    <2>1. line.word \in DOMAIN sourceOps
        BY <1>1, <1>6 DEF OpIgnored, BadExtension, Op
    <2>2. line.word \notin {"CALL", "ARG", "RET", "pop", "ADDRF", "ADDRL", "proc", "endproc"}
        BY <2>1, OperationsAssumption
    <2>3. Arg(1) = ArgOf(line, 1) /\ (IsExtension <=> Extends(line))
        BY DEF Arg, ArgOf, IsExtension, Extends
    <2>4. CASE OpIgnored \/ BadExtension
        <3>1. OpLength(line) = 0 /\ instructionCount' = instructionCount
            BY <2>3, <2>4 DEF OpIgnored, BadExtension, OpLength
        <3>2. QED BY <2>2, <3>1 DEF Counted
    <2>5. CASE Op
        <3>1. OpLength(line) # 0 /\ instructionCount' = instructionCount + 1
            BY <2>3, <2>5 DEF Op, OpLength
        <3>2. QED BY <2>1, <2>2, <3>1 DEF Counted
    <2>6. QED BY <1>6, <2>4, <2>5
<1>7. CASE UnknownToken
    <2>1. line.word \notin Statements /\ instructionCount' = instructionCount
        BY <1>7 DEF UnknownToken
    <2>2. QED BY <2>1 DEF Counted, Statements
<1>8. QED BY <1>2, <1>3, <1>4, <1>5, <1>6, <1>7 DEF AssembleLine

LEMMA LineTooLongInv ==
    ASSUME PassInv, LineTooLong
    PROVE  PassInv'
<1>1. phase = "assemble" /\ NamesTyped /\ Assembling
    BY DEF LineTooLong, HasLine, PassInv
<1>2. UNCHANGED << argv, asmFileNames, phase, passNumber, currentFileIndex, currentFileLine,
                   currentSegment, segment, frame, instructionCount >>
    BY DEF LineTooLong, commandLine
<1>3. NamesTyped' /\ Shaped' = Shaped /\ FrameShaped' = FrameShaped /\ Pending' = Pending
      /\ Lines' = Lines
    BY <1>1, <1>2 DEF NamesTyped, Shaped, FrameShaped, Pending, Lines, Used
<1>4. \A table : Filling(table)' = Filling(table) /\ Retracing(table)' = Retracing(table)
    BY <1>2 DEF Filling, Retracing, Following, WholeWalk, BasesOf, LastEntry, Base, Now, Used
<1>5. Assembling'
    BY <1>1, <1>2, <1>3, <1>4 DEF Assembling
<1>6. QED BY <1>1, <1>2, <1>3, <1>5 DEF PassInv

LEMMA LineAdvances ==
    ASSUME Assembling, AssembleLine, ~ LineTooLong, phase' # "exited"
    PROVE  /\ Shaped' /\ FrameShaped' /\ Advanced
           /\ line = File(asmFileNames, currentFileIndex)[currentFileLine + 1]
           /\ currentFileLine < Len(File(asmFileNames, currentFileIndex))
           /\ instructionCount' = Counted(instructionCount, line)
<1>1. /\ GoodNames(asmFileNames) /\ Shaped /\ FrameShaped
      /\ currentFileIndex \in Nat /\ currentFileIndex < Len(asmFileNames)
      /\ currentFileLine \in Nat
    BY DEF Assembling
<1>2. line = File(asmFileNames, currentFileIndex)[currentFileLine + 1]
      /\ currentFileLine < Len(File(asmFileNames, currentFileIndex))
    BY LineMoves, LinesAre DEF HasLine, line
<1>3. line \in LineType /\ (line.word = "align" => NumOf(line, 1) > 0)
    BY <1>1, <1>2, LineFacts
<1>4. QED BY <1>1, <1>2, <1>3, LineStep, CountStep

LEMMA LineFollows ==
    ASSUME Assembling, AssembleLine, ~ LineTooLong, phase' # "exited",
           NEW table, NEW longer, Following(table),
           longer[<< currentFileIndex, currentFileLine + 1 >>]
              = Stepped(table[<< currentFileIndex, currentFileLine >>], line)
    PROVE  Following(longer)'
<1> DEFINE f == currentFileIndex
           l == currentFileLine
           names == asmFileNames
           w == File(names, f)[l + 1]
           entry == table[<< f, l >>]
<1>1. GoodNames(names) /\ f \in Nat /\ f < Len(names) /\ l \in Nat
    BY DEF Assembling
<1>2. /\ currentFileLine' = l + 1 /\ UNCHANGED << asmFileNames, currentFileIndex >>
    BY LineMoves
<1>3. line = w /\ l < Len(File(names, f)) /\ Now' = After(Now, w)
      /\ instructionCount' = Counted(instructionCount, w)
    BY LineAdvances DEF Advanced
<1>4. Follows(Now, entry.sizes, names, f, l) /\ instructionCount = entry.count
    BY DEF Following
<1>5. longer[<< f, l + 1 >>] = [sizes |-> After(entry.sizes, w), count |-> Counted(entry.count, w)]
    BY <1>3 DEF Stepped
<1> HIDE DEF entry
<1>6. Follows(After(Now, w), After(entry.sizes, w), names, f, l + 1)
    BY <1>1, <1>3, <1>4, FollowsLine
<1>7. QED BY <1>2, <1>3, <1>4, <1>5, <1>6 DEF Following

LineOn(longer, table) ==
    /\ Filling(longer)'
    /\ longer[<< currentFileIndex, currentFileLine + 1 >>]
          = Stepped(table[<< currentFileIndex, currentFileLine >>], line)
    /\ Agree(longer, table, currentFileIndex, currentFileLine + 1)
LEMMA FillingLine ==
    ASSUME Assembling, AssembleLine, ~ LineTooLong, phase' # "exited",
           NEW table, Filling(table)
    PROVE  \E longer : LineOn(longer, table)
<1> DEFINE f == currentFileIndex
           l == currentFileLine
           names == asmFileNames
           w == File(names, f)[l + 1]
<1>1. f \in Nat /\ l \in Nat /\ l < Len(File(names, f)) /\ line = w
    BY LineAdvances DEF Assembling
<1>2. /\ currentFileLine' = l + 1 /\ UNCHANGED << asmFileNames, currentFileIndex >>
    BY LineMoves
<1>3. Walk(table, names, f, l) /\ Following(table)
    BY DEF Filling
<1>4. PICK longer : /\ Walk(longer, names, f, l + 1)
                    /\ longer[<< f, l + 1 >>] = Stepped(table[<< f, l >>], w)
                    /\ Agree(longer, table, f, l + 1)
    BY <1>1, <1>3, WalkLine
<1>5. Following(longer)'
    BY <1>1, <1>3, <1>4, LineFollows
<1>6. Filling(longer)'
    BY <1>2, <1>4, <1>5 DEF Filling
<1>7. QED BY <1>1, <1>4, <1>6 DEF LineOn

LEMMA RetracingLine ==
    ASSUME Assembling, AssembleLine, ~ LineTooLong, phase' # "exited",
           NEW table, Retracing(table)
    PROVE  /\ Retracing(table)'
           /\ table[<< currentFileIndex, currentFileLine + 1 >>]
                 = Stepped(table[<< currentFileIndex, currentFileLine >>], line)
<1> DEFINE f == currentFileIndex
           l == currentFileLine
           names == asmFileNames
           w == File(names, f)[l + 1]
<1>1. f \in Nat /\ f < Len(names) /\ Len(names) \in Nat /\ l \in Nat
    BY LenProperties DEF Assembling, GoodNames
<1>2. /\ currentFileLine' = l + 1 /\ UNCHANGED << asmFileNames, currentFileIndex >>
    BY LineMoves
<1>3. line = w /\ l < Len(File(names, f)) /\ \A t \in Segments : Base(t)' = Base(t)
    BY LineAdvances DEF Advanced
<1>4. WholeWalk(table) /\ Following(table) /\ BasesOf(LastEntry(table))
    BY DEF Retracing
<1>5. f < LastFile(names) \/ (f = LastFile(names) /\ l < LastLine(names))
    <2>1. f < LastFile(names) \/ f = LastFile(names)
        BY <1>1 DEF LastFile
    <2>2. QED BY <1>3, <2>1 DEF LastLine
<1>6. table[<< f, l + 1 >>] = Stepped(table[<< f, l >>], w)
    BY <1>1, <1>3, <1>4, <1>5 DEF WholeWalk, Walk
<1>7. Following(table)'
    BY <1>3, <1>4, <1>6, LineFollows
<1>8. WholeWalk(table)' /\ LastEntry(table)' = LastEntry(table)
    BY <1>2, <1>4 DEF WholeWalk, LastEntry
<1>9. BasesOf(LastEntry(table))'
    <2>1. /\ Base("LITSEG")' = Base("LITSEG") /\ Base("BSSSEG")' = Base("BSSSEG")
          /\ Base("JTRGSEG")' = Base("JTRGSEG")
        BY <1>3 DEF Segments
    <2>2. QED BY <1>4, <1>8, <2>1 DEF BasesOf
<1>10. QED BY <1>3, <1>6, <1>7, <1>8, <1>9 DEF Retracing

LEMMA AssembleLineInv ==
    ASSUME PassInv, AssembleLine, ~ LineTooLong
    PROVE  PassInv'
<1>1. phase = "assemble" /\ NamesTyped /\ Assembling /\ currentFileLine < Len(Lines)
    BY LineMoves DEF HasLine, PassInv
<1>2. /\ GoodNames(asmFileNames) /\ Shaped /\ FrameShaped /\ passNumber \in {0, 1}
      /\ currentFileIndex \in Nat /\ currentFileIndex < Len(asmFileNames)
      /\ currentFileLine \in Nat /\ Pending
    BY <1>1 DEF Assembling
<1>3. /\ currentFileLine' = currentFileLine + 1
      /\ UNCHANGED << argv, asmFileNames, passNumber, currentFileIndex >>
      /\ phase' = phase \/ phase' = "exited"
    BY LineMoves
<1>4. NamesTyped'
    BY <1>1, <1>3 DEF NamesTyped
<1>5. CASE phase' = "exited"
    BY <1>4, <1>5 DEF PassInv
<1>6. CASE phase' = "assemble"
    <2> DEFINE f == currentFileIndex
               l == currentFileLine
               names == asmFileNames
               w == File(names, f)[l + 1]
    <2>1. line = w /\ Lines = File(names, f) /\ l < Len(File(names, f))
          /\ Len(File(names, f)) \in Nat
        BY <1>1, <1>2, LinesAre, FileFacts DEF line
    <2>2. line \in LineType /\ (line.word = "align" => NumOf(line, 1) > 0)
        BY <1>2, <2>1, LineFacts
    <2>3. phase' # "exited"
        BY <1>6
    <2>4. Shaped' /\ FrameShaped' /\ Advanced
        BY <1>2, <2>2, <2>3, LineStep
    <2>5. /\ Now' = After(Now, w) /\ \A t \in Segments : Base(t)' = Base(t)
        BY <2>1, <2>4 DEF Advanced
    <2>6. Lines' = Lines
        BY <1>3 DEF Lines
    <2>7. currentFileLine' \in Nat /\ currentFileLine' <= Len(Lines')
        BY <1>2, <1>3, <2>1, <2>6
    <2>8. frame'.argOffset = OffsetAfter(frame.argOffset, line)
        <3>1. Now'.offset = frame'.argOffset /\ Now.offset = frame.argOffset
            BY DEF Now
        <3>2. After(Now, w).offset = OffsetAfter(Now.offset, w)
            BY DEF After
        <3>3. QED BY <2>1, <2>5, <3>1, <3>2
    <2>9. Pending'
        <3> SUFFICES ASSUME frame'.argOffset # 0
                     PROVE  \E i \in 1 .. l + 1 :
                               /\ Lines[i].word = "ARG"
                               /\ \A j \in i + 1 .. l + 1 : Lines[j].word # "CALL"
            BY <1>3, <2>6 DEF Pending
        <3>1. Lines[l + 1].word # "CALL"
            BY <2>8 DEF OffsetAfter, line
        <3>2. CASE Lines[l + 1].word = "ARG"
            BY <1>2, <3>2
        <3>3. CASE Lines[l + 1].word # "ARG"
            <4>1. frame.argOffset # 0
                BY <2>8, <3>1, <3>3 DEF OffsetAfter, line
            <4>2. PICK i \in 1 .. l :
                     Lines[i].word = "ARG" /\ \A j \in i + 1 .. l : Lines[j].word # "CALL"
                BY <1>2, <4>1 DEF Pending
            <4>3. i \in 1 .. l + 1 /\ \A j \in i + 1 .. l + 1 : j \in i + 1 .. l \/ j = l + 1
                BY <1>2, <4>2
            <4>4. QED BY <3>1, <4>2, <4>3
        <3>4. QED BY <3>2, <3>3
    <2>10. ASSUME passNumber' = 0 PROVE \E table : Filling(table)'
        BY <1>1, <1>3, <2>3, <2>10, FillingLine DEF Assembling, LineOn
    <2>11. ASSUME passNumber' = 1 PROVE \E table : Retracing(table)'
        BY <1>1, <1>3, <2>3, <2>11, RetracingLine DEF Assembling
    <2>12. GoodNames(asmFileNames') /\ passNumber' \in {0, 1}
           /\ currentFileIndex' \in Nat /\ currentFileIndex' < Len(asmFileNames')
        BY <1>2, <1>3
    <2>13. Assembling'
        BY <2>4, <2>7, <2>9, <2>10, <2>11, <2>12 DEF Assembling
    <2>14. QED BY <1>4, <1>6, <2>13 DEF PassInv
<1>7. QED BY <1>1, <1>3, <1>5, <1>6

LEMMA StutterInv ==
    ASSUME PassInv, UNCHANGED vars
    PROVE  PassInv'
<1>1. UNCHANGED << argv, asmFileNames, phase, passNumber, currentFileIndex, currentFileLine,
                   currentSegment, segment, frame, instructionCount >>
    BY DEF vars, commandLine
<1>2. NamesTyped' = NamesTyped /\ Shaped' = Shaped /\ FrameShaped' = FrameShaped
      /\ Pending' = Pending /\ Lines' = Lines /\ SegmentsMeet' = SegmentsMeet
      /\ Base("JTRGSEG")' = Base("JTRGSEG")
    BY <1>1 DEF NamesTyped, Shaped, FrameShaped, Pending, Lines, Used, SegmentsMeet, Base
<1>3. \A table : /\ Filling(table)' = Filling(table) /\ Retracing(table)' = Retracing(table)
                 /\ WholeWalk(table)' = WholeWalk(table)
                 /\ SizesOf(LastEntry(table))' = SizesOf(LastEntry(table))
    BY <1>1 DEF Filling, Retracing, Following, WholeWalk, BasesOf, LastEntry, Base, Now, Used,
                SizesOf
<1>4. Beginning' = Beginning
    BY <1>1, <1>2, <1>3 DEF Beginning
<1>5. Assembling' = Assembling
    BY <1>1, <1>2, <1>3 DEF Assembling
<1>6. QED BY <1>1, <1>2, <1>4, <1>5 DEF PassInv

LEMMA PassInvariance == Spec => []PassInv
<1>1. Init => PassInv
    BY InitPassInv
<1>2. ASSUME PassInv, [Next]_vars PROVE PassInv'
    <2>1. CASE Option
        BY <1>2, <2>1, OptionInv
    <2>2. CASE Files
        BY <1>2, <2>2, FilesInv
    <2>3. CASE AssembleLine
        BY <1>2, <2>3, AssembleLineInv, LineTooLongInv
    <2>4. CASE Assemble
        BY <1>2, <2>4, BeginPassInv, NextFileInv, EndPassInv, ReserveStackInv, WriteInv
           DEF Assemble
    <2>5. CASE UNCHANGED vars
        BY <1>2, <2>5, StutterInv
    <2>6. QED BY <1>2, <2>1, <2>2, <2>3, <2>4, <2>5 DEF Next
<1>3. QED BY <1>1, <1>2, PTL DEF Spec

(* What the first pass computed addresses from is what the second wrote:    *)
(* each segment has the same size after both, in every assembly of files in *)
(* the shape lcc gives them, with errors or without (Assemble).             *)
THEOREM PassesMeet == Spec => []SegmentsMeet
<1>1. PassInv => SegmentsMeet
    BY DEF PassInv, SegmentsMeet
<1>2. QED BY <1>1, PassInvariance, PTL

-----------------------------------------------------------------------------
(* The code that is written is a row of instructions.                       *)

IsRow(s) == \E S : s \in Seq(S)

LEMMA SubRow ==
    ASSUME NEW s, NEW m \in Int, NEW n \in Int
    PROVE  /\ IsRow(SubSeq(s, m, n))
           /\ Len(SubSeq(s, m, n)) = IF m <= n THEN n - m + 1 ELSE 0
           /\ \A i \in 1 .. n - m + 1 : SubSeq(s, m, n)[i] = s[m + i - 1]
<1> DEFINE S == {s[i] : i \in m .. n}
<1>1. \A i \in m .. n : s[i] \in S
    OBVIOUS
<1> HIDE DEF S
<1>2. QED BY <1>1, SubSeqProperties DEF IsRow

LEMMA RowConcat ==
    ASSUME NEW a, NEW b, IsRow(a), IsRow(b)
    PROVE  /\ IsRow(a \o b)
           /\ Len(a) \in Nat /\ Len(b) \in Nat /\ Len(a \o b) = Len(a) + Len(b)
           /\ \A i \in 1 .. Len(a) + Len(b) :
                 (a \o b)[i] = IF i <= Len(a) THEN a[i] ELSE b[i - Len(a)]
<1>1. PICK S : a \in Seq(S)
    BY DEF IsRow
<1>2. PICK T : b \in Seq(T)
    BY DEF IsRow
<1> DEFINE U == S \cup T
<1>3. S \subseteq U /\ T \subseteq U
    OBVIOUS
<1> HIDE DEF U
<1>4. a \in Seq(U) /\ b \in Seq(U)
    BY <1>1, <1>2, <1>3, SeqMonotonic
<1>5. QED BY <1>4, ConcatProperties, LenProperties DEF IsRow

LEMMA SingleRow ==
    ASSUME NEW a
    PROVE  IsRow(<< a >>) /\ Len(<< a >>) = 1 /\ << a >>[1] = a
<1>1. << a >> \in Seq({a})
    OBVIOUS
<1>2. QED BY <1>1 DEF IsRow

(* An opcode is found by its number.                                        *)
LEMMA CodeNames ==
    ASSUME NEW op \in OpcodeNames
    PROVE  Name(Code(op)) = op
<1>1. \E n \in OP_UNDEF .. OP_MAX - 1 : Name(n) = op
    BY DEF OpcodeNames, OP_UNDEF, OP_MAX
<1>2. QED BY <1>1 DEF Code

LEMMA OpcodesNamed ==
    {"OP_ENTER", "OP_LEAVE", "OP_CALL", "OP_PUSH", "OP_POP", "OP_LOCAL", "OP_ARG",
     "OP_SEX8", "OP_SEX16"} \subseteq OpcodeNames
<1>1. /\ Name(3) = "OP_ENTER" /\ Name(4) = "OP_LEAVE" /\ Name(5) = "OP_CALL"
      /\ Name(6) = "OP_PUSH" /\ Name(7) = "OP_POP" /\ Name(9) = "OP_LOCAL"
      /\ Name(33) = "OP_ARG" /\ Name(35) = "OP_SEX8" /\ Name(36) = "OP_SEX16"
    BY DEF Name, Mnemonic, OP_MAX
<1>2. {3, 4, 5, 6, 7, 9, 33, 35, 36} \subseteq OP_UNDEF + 1 .. OP_MAX - 1
    BY DEF OP_UNDEF, OP_MAX
<1>3. QED BY <1>1, <1>2 DEF OpcodeNames

(* The bytes of one instruction.                                            *)
IsInstruction(bytes, op) ==
    /\ op \in OpcodeNames /\ IsRow(bytes) /\ bytes[1] = Code(op)
    /\ Len(bytes) = FileLength(Plain(op))

LEMMA FileLengths ==
    ASSUME NEW op
    PROVE  /\ FileLength(Plain(op)) \in {1, 2, 5}
           /\ op \in WordOperand => FileLength(Plain(op)) = 5
           /\ op \in ByteOperand => FileLength(Plain(op)) = 2
           /\ op \notin WordOperand \cup ByteOperand => FileLength(Plain(op)) = 1
<1>1. op \in ByteOperand => op \notin WordOperand
    BY DEF ByteOperand, WordOperand, Branches, IntBranches, FloatBranches
<1>2. Plain(op).op = op
    BY DEF Plain, Instruction
<1>3. QED BY <1>1, <1>2 DEF FileLength

LEMMA PlainInstruction ==
    ASSUME NEW op \in OpcodeNames, op \notin WordOperand \cup ByteOperand
    PROVE  IsInstruction(Instruct(op), op)
    BY SingleRow, FileLengths DEF IsInstruction, Instruct

LEMMA OperandsApart ==
    ASSUME NEW op, op \in WordOperand
    PROVE  op \notin ByteOperand
    BY DEF ByteOperand, WordOperand, Branches, IntBranches, FloatBranches

LEMMA OpcodeFirst ==
    ASSUME NEW a, NEW b, IsRow(a), IsRow(b), Len(a) = 1
    PROVE  IsRow(a \o b) /\ Len(a \o b) = 1 + Len(b) /\ (a \o b)[1] = a[1]
<1> DEFINE c == a \o b
<1>1. /\ IsRow(c) /\ Len(b) \in Nat /\ Len(c) = 1 + Len(b)
      /\ \A i \in 1 .. 1 + Len(b) : c[i] = IF i <= 1 THEN a[i] ELSE b[i - 1]
    BY RowConcat
<1> HIDE DEF c
<1>2. 1 \in 1 .. 1 + Len(b)
    BY <1>1
<1>3. c[1] = a[1]
    BY <1>1, <1>2
<1>4. QED BY <1>1, <1>3 DEF c

LEMMA WordInstruction ==
    ASSUME NEW op \in OpcodeNames, op \in WordOperand, NEW v
    PROVE  /\ IsInstruction(Instruct(op) \o Bytes(v), op)
           /\ IsInstruction(Encoded(Instruction(op, v)), op)
<1>1. IsRow(Instruct(op)) /\ Len(Instruct(op)) = 1 /\ Instruct(op)[1] = Code(op)
    BY SingleRow DEF Instruct
<1>2. IsRow(Bytes(v)) /\ Len(Bytes(v)) = 4
    BY BytesSeq DEF IsRow
<1> DEFINE a == Instruct(op)
           b == Bytes(v)
           e == a \o b
<1>3. IsRow(e) /\ Len(e) = 5 /\ e[1] = Code(op)
    <2> HIDE DEF a, b
    <2>1. IsRow(a) /\ Len(a) = 1 /\ a[1] = Code(op) /\ IsRow(b) /\ Len(b) = 4
        BY <1>1, <1>2 DEF a, b
    <2>2. IsRow(e) /\ Len(e) = 1 + Len(b) /\ e[1] = a[1]
        BY <2>1, OpcodeFirst
    <2> HIDE DEF e
    <2>3. QED BY <2>1, <2>2
<1>4. Encoded(Instruction(op, v)) = e
    <2>1. op \notin ByteOperand
        BY OperandsApart
    <2>2. Encoded(Instruction(op, v)) = << Code(op) >> \o Bytes(v)
        BY <2>1 DEF Encoded, Instruction
    <2>3. QED BY <2>2 DEF Instruct
<1> HIDE DEF a, b, e
<1>5. IsInstruction(e, op)
    BY <1>3, FileLengths DEF IsInstruction
<1>6. QED BY <1>4, <1>5 DEF a, b, e

LEMMA ByteInstruction ==
    ASSUME NEW v
    PROVE  IsInstruction(Encoded(Instruction("OP_ARG", v)), "OP_ARG")
<1>1. "OP_ARG" \in ByteOperand /\ "OP_ARG" \notin WordOperand /\ "OP_ARG" \in OpcodeNames
    BY OpcodesNamed DEF ByteOperand, WordOperand, Branches, IntBranches, FloatBranches
<1> DEFINE e == << Code("OP_ARG") >> \o << v >>
<1>2. Encoded(Instruction("OP_ARG", v)) = e
    BY <1>1 DEF Encoded, Instruction
<1>3. IsRow(e) /\ Len(e) = 2 /\ e[1] = Code("OP_ARG")
    BY SingleRow, RowConcat
<1> HIDE DEF e
<1>4. QED BY <1>1, <1>2, <1>3, FileLengths DEF IsInstruction

(* The code read up to its end, an instruction after the other.             *)
Reads(image, at, used, n) ==
    /\ at = [k \in 0 .. n |-> at[k]]
    /\ at[0] = 1 /\ at[n] = used + 1
    /\ \A k \in 1 .. n :
          /\ at[k - 1] \in 1 .. used
          /\ at[k] = at[k - 1] + FileLength(Plain(Name(image[at[k - 1]])))
Laid(image, used, n) ==
    n \in Nat /\ used \in Nat /\ \E at : Reads(image, at, used, n)

LEMMA NothingLaid ==
    ASSUME NEW image
    PROVE  Laid(image, 0, 0)
<1> DEFINE at == [k \in 0 .. 0 |-> 1]
<1>1. Reads(image, at, 0, 0)
    BY DEF Reads
<1>2. QED BY <1>1 DEF Laid

LEMMA LaidMore ==
    ASSUME NEW image, NEW used, NEW n, Laid(image, used, n),
           NEW more, \A x \in 1 .. used : more[x] = image[x],
           NEW op \in OpcodeNames, more[used + 1] = Code(op)
    PROVE  Laid(more, used + FileLength(Plain(op)), n + 1)
<1> DEFINE length == FileLength(Plain(op))
<1>1. n \in Nat /\ used \in Nat
    BY DEF Laid
<1>2. PICK at : Reads(image, at, used, n)
    BY DEF Laid
<1>3. length \in {1, 2, 5} /\ Name(more[used + 1]) = op
    BY FileLengths, CodeNames
<1> DEFINE all == [k \in 0 .. n + 1 |-> IF k = n + 1 THEN used + length + 1 ELSE at[k]]
<1>4. /\ all = [k \in 0 .. n + 1 |-> all[k]]
      /\ all[n + 1] = used + length + 1
      /\ \A k \in 0 .. n : all[k] = at[k]
    <2> HIDE DEF length
    <2>1. QED BY <1>1
<1>5. length = FileLength(Plain(Name(more[used + 1])))
    BY <1>3
<1> HIDE DEF all, length
<1>6. all[0] = 1 /\ all[n] = used + 1
    <2>1. at[0] = 1 /\ at[n] = used + 1
        BY <1>2 DEF Reads
    <2>2. 0 \in 0 .. n /\ n \in 0 .. n
        BY <1>1
    <2>3. QED BY <1>4, <2>1, <2>2
<1>7. ASSUME NEW k \in 1 .. n + 1
      PROVE  /\ all[k - 1] \in 1 .. used + length
             /\ all[k] = all[k - 1] + FileLength(Plain(Name(more[all[k - 1]])))
    <2>1. CASE k = n + 1
        <3>1. all[k - 1] = used + 1 /\ all[k] = used + 1 + length
            BY <1>1, <1>3, <1>4, <1>6, <2>1
        <3>2. QED BY <1>1, <1>3, <1>5, <3>1
    <2>2. CASE k # n + 1
        <3>1. k \in 1 .. n /\ k \in 0 .. n /\ k - 1 \in 0 .. n
            BY <1>1, <2>2
        <3>2. at[k - 1] \in 1 .. used
              /\ at[k] = at[k - 1] + FileLength(Plain(Name(image[at[k - 1]])))
            BY <1>2, <3>1 DEF Reads
        <3>3. more[at[k - 1]] = image[at[k - 1]]
            BY <3>2
        <3>4. all[k - 1] = at[k - 1] /\ all[k] = at[k]
            BY <1>4, <3>1
        <3>5. all[k - 1] \in 1 .. used + length
            BY <1>1, <1>3, <3>2, <3>4
        <3>6. QED BY <3>2, <3>3, <3>4, <3>5
    <2>3. QED BY <2>1, <2>2
<1>8. used + length \in Nat /\ n + 1 \in Nat
    BY <1>1, <1>3
<1>9. all[n + 1] = used + length + 1
    BY <1>4
<1>10. Reads(more, all, used + length, n + 1)
    BY <1>4, <1>6, <1>7, <1>9 DEF Reads
<1>11. QED BY <1>8, <1>10 DEF Laid, length

(* Who reads the code as the loader does comes to the same places.          *)
IsWalk(at, code, count) ==
    at = [k \in 0 .. count |->
            IF k = 0 THEN 1
            ELSE IF at[k - 1] \in DOMAIN code
                 THEN at[k - 1] + FileLength(Plain(Name(code[at[k - 1]])))
                 ELSE Len(code) + 5]

LEMMA WalkChosen ==
    ASSUME NEW code, NEW count
    PROVE  EndOfCode(code, count) = (CHOOSE at : IsWalk(at, code, count))[count] - 1
    BY DEF EndOfCode, IsWalk

LEMMA ReadsIsWalk ==
    ASSUME NEW code, NEW image, NEW used, NEW count, NEW at, count \in Nat, used \in Nat,
           Reads(image, at, used, count), 1 .. used \subseteq DOMAIN code,
           \A x \in 1 .. used : code[x] = image[x]
    PROVE  IsWalk(at, code, count)
<1>1. ASSUME NEW k \in 0 .. count
      PROVE  at[k] = IF k = 0 THEN 1
                     ELSE IF at[k - 1] \in DOMAIN code
                          THEN at[k - 1] + FileLength(Plain(Name(code[at[k - 1]])))
                          ELSE Len(code) + 5
    <2>1. CASE k = 0
        BY <2>1 DEF Reads
    <2>2. CASE k # 0
        <3>1. k \in 1 .. count
            BY <2>2
        <3>2. at[k - 1] \in 1 .. used
              /\ at[k] = at[k - 1] + FileLength(Plain(Name(image[at[k - 1]])))
            BY <3>1 DEF Reads
        <3>3. at[k - 1] \in DOMAIN code /\ code[at[k - 1]] = image[at[k - 1]]
            BY <3>2
        <3>4. QED BY <2>2, <3>2, <3>3
    <2>3. QED BY <2>1, <2>2
<1>2. at = [k \in 0 .. count |-> at[k]]
    BY DEF Reads
<1>3. QED BY <1>1, <1>2 DEF IsWalk

LEMMA WalksAgree ==
    ASSUME NEW code, NEW count \in Nat, NEW a, NEW b,
           IsWalk(a, code, count), IsWalk(b, code, count)
    PROVE  a[count] = b[count]
<1> DEFINE S == {k \in 0 .. count : a[k] = b[k]}
<1>1. 0 \in S
    <2>1. a[0] = 1 /\ b[0] = 1
        BY DEF IsWalk
    <2>2. QED BY <2>1
<1>2. ASSUME NEW k \in S, k < count PROVE k + 1 \in S
    <2>1. k + 1 \in 0 .. count /\ k + 1 # 0 /\ (k + 1) - 1 = k /\ a[k] = b[k]
        BY <1>2
    <2>2. a[k + 1] = IF a[k] \in DOMAIN code
                     THEN a[k] + FileLength(Plain(Name(code[a[k]]))) ELSE Len(code) + 5
        BY <2>1 DEF IsWalk
    <2>3. b[k + 1] = IF b[k] \in DOMAIN code
                     THEN b[k] + FileLength(Plain(Name(code[b[k]]))) ELSE Len(code) + 5
        BY <2>1 DEF IsWalk
    <2>4. a[k + 1] = b[k + 1]
        BY <2>1, <2>2, <2>3
    <2>5. QED BY <2>1, <2>4
<1>3. S = 0 .. count
    <2>1. S \in SUBSET (0 .. count)
        OBVIOUS
    <2> HIDE DEF S
    <2>2. QED BY <1>1, <1>2, <2>1, BoundedInduction
<1>4. count \in S
    <2>1. count \in 0 .. count
        OBVIOUS
    <2> HIDE DEF S
    <2>2. QED BY <1>3, <2>1
<1>5. QED BY <1>4

LEMMA EndOfLaid ==
    ASSUME NEW code, NEW image, NEW used, NEW count, Laid(image, used, count),
           1 .. used \subseteq DOMAIN code, \A x \in 1 .. used : code[x] = image[x]
    PROVE  EndOfCode(code, count) = used
<1>1. count \in Nat /\ used \in Nat
    BY DEF Laid
<1>2. PICK at : Reads(image, at, used, count)
    BY DEF Laid
<1>3. IsWalk(at, code, count)
    BY <1>1, <1>2, ReadsIsWalk
<1> DEFINE chosen == CHOOSE b : IsWalk(b, code, count)
<1>4. IsWalk(chosen, code, count)
    BY <1>3
<1>5. EndOfCode(code, count) = chosen[count] - 1
    BY WalkChosen
<1> HIDE DEF chosen
<1>6. chosen[count] = at[count]
    BY <1>1, <1>3, <1>4, WalksAgree
<1>7. at[count] = used + 1
    BY <1>2 DEF Reads
<1>8. QED BY <1>1, <1>5, <1>6, <1>7

-----------------------------------------------------------------------------
(* What a line leaves of the code segment.                                  *)

CodeImage == segment["CODESEG"].image
Bounds    == Len(CodeImage) = MaxImage /\ Used("CODESEG") \in 0 .. MaxImage
CodeGood  == errorCount = 0 => Laid(CodeImage, Used("CODESEG"), instructionCount)

(* No error is forgotten.                                                   *)
ErrorsKept == errorCount' \in Nat /\ (errorCount' = 0 => errorCount = 0)

LEMMA EmitCode ==
    ASSUME Shaped, Bounds, NEW bytes, IsRow(bytes), EmitsCode(bytes), phase' # "exited"
    PROVE  /\ Bounds' /\ Used("CODESEG")' = Used("CODESEG") + Len(bytes)
           /\ \A x \in 1 .. Used("CODESEG") : CodeImage'[x] = CodeImage[x]
           /\ \A i \in 1 .. Len(bytes) : CodeImage'[Used("CODESEG") + i] = bytes[i]
<1> DEFINE u == Used("CODESEG")
           n == u + Len(bytes)
           front == SubSeq(CodeImage, 1, u)
           back == SubSeq(CodeImage, n + 1, Len(CodeImage))
           im == front \o bytes \o back
<1>1. u \in 0 .. MaxImage /\ Len(CodeImage) = MaxImage /\ MaxImage \in Nat
    BY FileAssumption DEF Bounds
<1>2. Len(bytes) \in Nat
    BY LenProperties DEF IsRow
<1>3. segment' = [segment EXCEPT !["CODESEG"] = Emitted(segment["CODESEG"], bytes)]
      /\ Used("CODESEG") + Len(bytes) <= MaxImage
    <2>1. PICK e \in BOOLEAN : Emit("CODESEG", bytes, e)
        BY DEF EmitsCode
    <2>2. segment' = [segment EXCEPT !["CODESEG"] = Emitted(segment["CODESEG"], bytes)]
          /\ Used("CODESEG") + Len(bytes) <= MaxImage - (IF e THEN 1 ELSE 0)
        BY <2>1 DEF Emit
    <2>3. u + Len(bytes) \in Int
        BY <1>1, <1>2
    <2>4. QED BY <2>2, <2>3, <1>1
<1>4. segment["CODESEG"].imageUsed = u /\ segment["CODESEG"].image = CodeImage
    BY DEF Used, CodeImage
<1>5. Emitted(segment["CODESEG"], bytes) = [segment["CODESEG"] EXCEPT !.image = im, !.imageUsed = n]
    BY <1>4 DEF Emitted
<1>6. IsRow(front) /\ Len(front) = u /\ \A i \in 1 .. u : front[i] = CodeImage[i]
    <2>1. 1 \in Int /\ u \in Int /\ u - 1 + 1 = u
        BY <1>1
    <2>2. /\ IsRow(front) /\ Len(front) = IF 1 <= u THEN u - 1 + 1 ELSE 0
          /\ \A i \in 1 .. u - 1 + 1 : front[i] = CodeImage[1 + i - 1]
        BY <2>1, SubRow
    <2> HIDE DEF front, u
    <2>3. QED BY <1>1, <2>1, <2>2
<1>7. IsRow(back) /\ Len(back) = MaxImage - n
    <2>1. n + 1 \in Int /\ Len(CodeImage) \in Int
        BY <1>1, <1>2
    <2>2. IsRow(back) /\ Len(back) = IF n + 1 <= Len(CodeImage)
                                     THEN Len(CodeImage) - (n + 1) + 1 ELSE 0
        BY <2>1, SubRow
    <2>3. n <= MaxImage /\ n \in Nat
        BY <1>1, <1>2, <1>3
    <2> HIDE DEF back, n
    <2>4. QED BY <1>1, <2>2, <2>3
<1> HIDE DEF front, back
<1> DEFINE both == front \o bytes
<1>8. /\ IsRow(both) /\ Len(both) = u + Len(bytes)
      /\ \A i \in 1 .. u + Len(bytes) :
            both[i] = IF i <= u THEN front[i] ELSE bytes[i - u]
    <2> HIDE DEF u
    <2>1. QED BY <1>6, RowConcat
<1>9. im = both \o back
    OBVIOUS
<1> HIDE DEF both, im
<1>10. /\ Len(im) = Len(both) + Len(back)
       /\ \A i \in 1 .. Len(both) + Len(back) :
            im[i] = IF i <= Len(both) THEN both[i] ELSE back[i - Len(both)]
    BY <1>7, <1>8, <1>9, RowConcat
<1>11. u \in Nat /\ n \in Nat /\ n = u + Len(bytes) /\ n <= MaxImage
    BY <1>1, <1>2, <1>3
<1> HIDE DEF u, n
<1>12. Len(im) = MaxImage
    BY <1>1, <1>7, <1>8, <1>10, <1>11
<1>13. \A x \in 1 .. n : im[x] = IF x <= u THEN CodeImage[x] ELSE bytes[x - u]
    <2> SUFFICES ASSUME NEW x \in 1 .. n
                 PROVE  im[x] = IF x <= u THEN CodeImage[x] ELSE bytes[x - u]
        OBVIOUS
    <2>1. x \in 1 .. Len(both) + Len(back) /\ x <= Len(both) /\ x \in 1 .. u + Len(bytes)
        BY <1>1, <1>7, <1>8, <1>11
    <2>2. im[x] = IF x <= u THEN front[x] ELSE bytes[x - u]
        BY <1>8, <1>10, <2>1
    <2>3. x <= u => front[x] = CodeImage[x]
        BY <1>6, <1>11
    <2>4. QED BY <2>2, <2>3
<1>14. segment'["CODESEG"] = [image |-> im, imageUsed |-> n,
                              segmentBase |-> segment["CODESEG"].segmentBase]
    <2>1. SegmentRecord(segment["CODESEG"]) /\ "CODESEG" \in DOMAIN segment
        BY DEF Shaped, Segments
    <2>2. segment'["CODESEG"] = Emitted(segment["CODESEG"], bytes)
        BY <1>3, <2>1
    <2>3. QED BY <1>5, <2>1, <2>2, RecordExcept
<1>15. CodeImage' = im /\ Used("CODESEG")' = n
    BY <1>14 DEF CodeImage, Used
<1>16. Bounds'
    BY <1>1, <1>11, <1>12, <1>15 DEF Bounds
<1>17. \A x \in 1 .. u : CodeImage'[x] = CodeImage[x]
    <2>1. \A x \in 1 .. u : x \in 1 .. n /\ x <= u
        BY <1>2, <1>11
    <2>2. QED BY <1>13, <1>15, <2>1
<1>18. ASSUME NEW i \in 1 .. Len(bytes) PROVE CodeImage'[u + i] = bytes[i]
    <2> DEFINE x == u + i
    <2>1. x \in 1 .. n /\ ~ (x <= u) /\ x - u = i
        BY <1>2, <1>11
    <2> HIDE DEF x
    <2>2. im[x] = bytes[i]
        BY <1>13, <2>1
    <2>3. QED BY <1>15, <2>2 DEF x
<1>19. QED BY <1>11, <1>15, <1>16, <1>17, <1>18 DEF u

LEMMA AddInstruction ==
    ASSUME Shaped, Bounds, CodeGood, NEW op, NEW bytes, IsInstruction(bytes, op),
           EmitsCode(bytes), phase' # "exited",
           instructionCount' = instructionCount + 1, errorCount' = 0 => errorCount = 0
    PROVE  Bounds' /\ CodeGood'
<1>1. /\ Bounds' /\ Used("CODESEG")' = Used("CODESEG") + Len(bytes)
      /\ \A x \in 1 .. Used("CODESEG") : CodeImage'[x] = CodeImage[x]
      /\ \A i \in 1 .. Len(bytes) : CodeImage'[Used("CODESEG") + i] = bytes[i]
    BY EmitCode DEF IsInstruction
<1>2. op \in OpcodeNames /\ Len(bytes) = FileLength(Plain(op)) /\ bytes[1] = Code(op)
    BY DEF IsInstruction
<1>3. 1 \in 1 .. Len(bytes)
    BY <1>2, FileLengths
<1>4. CodeImage'[Used("CODESEG") + 1] = Code(op)
    BY <1>1, <1>2, <1>3
<1>5. ASSUME errorCount' = 0
      PROVE  Laid(CodeImage', Used("CODESEG")', instructionCount')
    <2>1. Laid(CodeImage, Used("CODESEG"), instructionCount)
        BY <1>5 DEF CodeGood
    <2> DEFINE u == Used("CODESEG")
               im == CodeImage
               more == CodeImage'
    <2>2. Laid(im, u, instructionCount) /\ (\A x \in 1 .. u : more[x] = im[x])
          /\ more[u + 1] = Code(op) /\ op \in OpcodeNames
        BY <1>1, <1>2, <1>4, <2>1
    <2> HIDE DEF u, im, more
    <2>3. Laid(more, u + FileLength(Plain(op)), instructionCount + 1)
        BY <2>2, LaidMore
    <2>4. QED BY <1>1, <1>2, <2>3 DEF u, im, more
<1>6. QED BY <1>1, <1>5 DEF CodeGood

(* What a line with an error adds does not matter.                          *)
LEMMA AddErroneous ==
    ASSUME Shaped, Bounds, NEW bytes, IsRow(bytes), EmitsCode(bytes), phase' # "exited",
           errorCount' # 0
    PROVE  Bounds' /\ CodeGood'
    BY EmitCode DEF CodeGood

LEMMA KeepCode ==
    ASSUME Bounds, CodeGood, segment'["CODESEG"] = segment["CODESEG"],
           instructionCount' = instructionCount, errorCount' = 0 => errorCount = 0
    PROVE  Bounds' /\ CodeGood'
    BY DEF Bounds, CodeGood, CodeImage, Used

LEMMA EmitElsewhere ==
    ASSUME Shaped, NEW s, s # "CODESEG", NEW bytes, NEW e, Emit(s, bytes, e)
    PROVE  segment'["CODESEG"] = segment["CODESEG"]
<1>1. "CODESEG" \in DOMAIN segment
    BY DEF Shaped, Segments
<1>2. QED BY <1>1 DEF Emit

LEMMA LookupErrors ==
    ASSUME errorCount \in Nat, NEW t, NEW n \in Nat, LookupEffects(t, n)
    PROVE  ErrorsKept /\ (errorCount' = 0 => n = 0)
<1>1. errorCount' \in {errorCount + n, errorCount + n + 2, errorCount + n + 1}
    BY DEF LookupEffects
<1>2. QED BY <1>1 DEF ErrorsKept

LEMMA DefineErrors ==
    ASSUME errorCount \in Nat, NEW name, NEW value, DefineSymbol(name, value)
    PROVE  ErrorsKept
<1>1. errorCount' \in {errorCount, errorCount + 1}
    BY DEF DefineSymbol
<1>2. QED BY <1>1 DEF ErrorsKept

CodeReady == Shaped /\ Bounds /\ CodeGood /\ errorCount \in Nat
CodeKept  == Bounds' /\ CodeGood' /\ errorCount' \in Nat

LEMMA PlainStatements ==
    ASSUME CodeReady, CALL \/ RET \/ pop, phase' # "exited"
    PROVE  CodeKept
<1>1. errorCount' = errorCount /\ instructionCount' = instructionCount + 1
    BY DEF CALL, RET, pop, symbolState
<1>2. \E op : \E bytes : IsInstruction(bytes, op) /\ EmitsCode(bytes)
    <2>1. CASE CALL
        <3>1. "OP_CALL" \in OpcodeNames /\ "OP_CALL" \notin WordOperand \cup ByteOperand
            BY OpcodesNamed DEF ByteOperand, WordOperand, Branches, IntBranches, FloatBranches
        <3>2. IsInstruction(Instruct("OP_CALL"), "OP_CALL")
            BY <3>1, PlainInstruction
        <3>3. EmitsCode(Instruct("OP_CALL"))
            BY <2>1 DEF CALL, EmitsCode
        <3>4. QED BY <3>2, <3>3
    <2>2. CASE RET
        <3>1. "OP_LEAVE" \in OpcodeNames /\ "OP_LEAVE" \in WordOperand
            BY OpcodesNamed DEF WordOperand
        <3> DEFINE e == Encoded(Instruction("OP_LEAVE", FrameSize))
        <3>2. IsInstruction(e, "OP_LEAVE")
            BY <3>1, WordInstruction
        <3>3. EmitsCode(e)
            BY <2>2 DEF RET, EmitsCode
        <3> HIDE DEF e
        <3>4. QED BY <3>2, <3>3
    <2>3. CASE pop
        <3>1. "OP_POP" \in OpcodeNames /\ "OP_POP" \notin WordOperand \cup ByteOperand
            BY OpcodesNamed DEF ByteOperand, WordOperand, Branches, IntBranches, FloatBranches
        <3>2. IsInstruction(Instruct("OP_POP"), "OP_POP")
            BY <3>1, PlainInstruction
        <3>3. EmitsCode(Instruct("OP_POP"))
            BY <2>3 DEF pop, EmitsCode
        <3>4. QED BY <3>2, <3>3
    <2>4. QED BY <2>1, <2>2, <2>3
<1>3. QED BY <1>1, <1>2, AddInstruction DEF CodeReady, CodeKept

LEMMA FrameStatements ==
    ASSUME CodeReady, ADDRF \/ ADDRL \/ proc, phase' # "exited"
    PROVE  CodeKept
<1>1. instructionCount' = instructionCount + 1
    BY DEF ADDRF, ADDRL, proc
<1>2. ErrorsKept
    <2>1. CASE ADDRF \/ ADDRL
        <3>1. LookupEffects(Arg(1), 0)
            BY <2>1 DEF ADDRF, ADDRL
        <3>2. QED BY <3>1, LookupErrors DEF CodeReady
    <2>2. CASE proc
        <3>1. \E a \in {0, 1}, b \in {0, 1} : errorCount' = errorCount + a + b
            BY <2>2 DEF proc
        <3>2. QED BY <3>1 DEF ErrorsKept, CodeReady
    <2>3. QED BY <2>1, <2>2
<1>3. "OP_LOCAL" \in OpcodeNames /\ "OP_LOCAL" \in WordOperand
      /\ "OP_ENTER" \in OpcodeNames /\ "OP_ENTER" \in WordOperand
    BY OpcodesNamed DEF WordOperand
<1>4. \E op \in {"OP_LOCAL", "OP_ENTER"} : \E v : EmitsCode(Encoded(Instruction(op, v)))
    BY DEF ADDRF, ADDRL, proc, EmitsCode
<1>5. PICK op \in {"OP_LOCAL", "OP_ENTER"} : \E v : EmitsCode(Encoded(Instruction(op, v)))
    BY <1>4
<1>6. PICK v : EmitsCode(Encoded(Instruction(op, v)))
    BY <1>5
<1> DEFINE e == Encoded(Instruction(op, v))
<1>7. IsInstruction(e, op) /\ EmitsCode(e)
    BY <1>3, <1>6, WordInstruction
<1> HIDE DEF e
<1>8. QED BY <1>1, <1>2, <1>7, AddInstruction DEF CodeReady, CodeKept, ErrorsKept

(* Past the limit the operand is missing, and an error is counted.          *)
LEMMA ArgStatement ==
    ASSUME CodeReady, ARG, phase' # "exited"
    PROVE  CodeKept
<1>1. CASE 8 + frame.argOffset >= ArgumentLimit
    <2>1. EmitsCode(Instruct("OP_ARG")) /\ errorCount' = errorCount + 1
        BY <1>1 DEF ARG, EmitsCode
    <2>2. IsRow(Instruct("OP_ARG"))
        BY SingleRow DEF Instruct
    <2>3. errorCount' \in Nat /\ errorCount' # 0
        BY <2>1 DEF CodeReady
    <2>4. QED BY <2>1, <2>2, <2>3, AddErroneous DEF CodeReady, CodeKept
<1>2. CASE ~ (8 + frame.argOffset >= ArgumentLimit)
    <2> DEFINE e == Encoded(Instruction("OP_ARG", 8 + frame.argOffset))
    <2>1. EmitsCode(e) /\ errorCount' = errorCount /\ instructionCount' = instructionCount + 1
        BY <1>2 DEF ARG, EmitsCode
    <2>2. IsInstruction(e, "OP_ARG")
        BY ByteInstruction
    <2> HIDE DEF e
    <2>3. QED BY <2>1, <2>2, AddInstruction DEF CodeReady, CodeKept
<1>3. QED BY <1>1, <1>2

(* The end of a function is two instructions.                               *)
LEMMA EndStatement ==
    ASSUME CodeReady, endproc, phase' # "exited"
    PROVE  CodeKept
<1> DEFINE a == Instruct("OP_PUSH")
           b == Encoded(Instruction("OP_LEAVE", FrameSize))
           e == a \o b
           u == Used("CODESEG")
           im == CodeImage
           more == CodeImage'
<1>1. EmitsCode(e) /\ errorCount' = errorCount /\ instructionCount' = instructionCount + 2
    BY DEF endproc, EmitsCode, symbolState
<1>2. "OP_PUSH" \in OpcodeNames /\ "OP_PUSH" \notin WordOperand \cup ByteOperand
      /\ "OP_LEAVE" \in OpcodeNames /\ "OP_LEAVE" \in WordOperand
    BY OpcodesNamed DEF ByteOperand, WordOperand, Branches, IntBranches, FloatBranches
<1>3. IsInstruction(a, "OP_PUSH") /\ IsInstruction(b, "OP_LEAVE")
    BY <1>2, PlainInstruction, WordInstruction
<1>4. FileLength(Plain("OP_PUSH")) = 1 /\ FileLength(Plain("OP_LEAVE")) = 5
    BY <1>2, FileLengths
<1> HIDE DEF a, b
<1>5. IsRow(a) /\ Len(a) = 1 /\ a[1] = Code("OP_PUSH")
      /\ IsRow(b) /\ Len(b) = 5 /\ b[1] = Code("OP_LEAVE")
    BY <1>3, <1>4 DEF IsInstruction
<1>6. /\ IsRow(e) /\ Len(e) = Len(a) + Len(b)
      /\ \A i \in 1 .. Len(a) + Len(b) : e[i] = IF i <= Len(a) THEN a[i] ELSE b[i - Len(a)]
    BY <1>5, RowConcat
<1> HIDE DEF e
<1>7. Len(e) = 6 /\ e[1] = Code("OP_PUSH") /\ e[2] = Code("OP_LEAVE")
    BY <1>5, <1>6
<1>8. /\ Bounds' /\ Used("CODESEG")' = u + Len(e)
      /\ \A x \in 1 .. u : more[x] = im[x]
      /\ \A i \in 1 .. Len(e) : more[u + i] = e[i]
    BY <1>1, <1>6, EmitCode DEF CodeReady
<1>9. ASSUME errorCount' = 0
      PROVE  Laid(more, Used("CODESEG")', instructionCount')
    <2>1. Laid(im, u, instructionCount) /\ u \in Nat /\ instructionCount \in Nat
        BY <1>1, <1>9 DEF CodeReady, CodeGood, Laid
    <2>2. more[u + 1] = Code("OP_PUSH") /\ more[u + 2] = Code("OP_LEAVE")
          /\ Used("CODESEG")' = u + 6
        BY <1>7, <1>8
    <2>3. \A x \in 1 .. u : more[x] = im[x]
        BY <1>8
    <2> HIDE DEF u, im, more
    <2>4. Laid(more, u + 1, instructionCount + 1)
        BY <1>2, <1>4, <2>1, <2>2, <2>3, LaidMore
    <2>5. more[(u + 1) + 1] = Code("OP_LEAVE")
        BY <2>1, <2>2
    <2>6. Laid(more, (u + 1) + 5, (instructionCount + 1) + 1)
        BY <1>2, <1>4, <2>4, <2>5, LaidMore
    <2>7. (u + 1) + 5 = Used("CODESEG")' /\ (instructionCount + 1) + 1 = instructionCount'
        BY <1>1, <2>1, <2>2
    <2>8. QED BY <2>6, <2>7
<1>10. QED BY <1>1, <1>8, <1>9 DEF CodeGood, CodeKept, CodeReady

OperandAgrees(l) ==
    (/\ l.word \in DOMAIN sourceOps
     /\ sourceOps[l.word] \notin {"OP_UNDEF", "OP_IGNORE", "OP_CVIF", "OP_CVFI"})
    => (Len(l.args) > (IF sourceOps[l.word] = "OP_SEX8" THEN 1 ELSE 0)
          <=> sourceOps[l.word] \in WordOperand)

(* An operation is emitted with an operand if its opcode has one.           *)
LEMMA Operation ==
    ASSUME CodeReady, Op, phase' # "exited", OperandAgrees(line)
    PROVE  CodeKept
<1> DEFINE named   == sourceOps[line.word]
           opcode  == IF IsExtension THEN SignExtension[Arg(1).n] ELSE named
           refused == IF named = "OP_UNDEF" THEN 1 ELSE 0
<1>1. line.word \in DOMAIN sourceOps /\ named # "OP_IGNORE"
      /\ instructionCount' = instructionCount + 1
    BY DEF Op, At
<1>2. HasExpression => /\ \E v : EmitsCode(Instruct(opcode) \o Bytes(v))
                       /\ \E t : LookupEffects(t, refused)
    BY DEF Op, EmitsCode
<1>3. ~ HasExpression => EmitsCode(Instruct(opcode)) /\ errorCount' = errorCount + refused
    BY DEF Op, EmitsCode
<1>4. opcode \in {named, "OP_SEX8", "OP_SEX16"} /\ (named # "OP_SEX8" => opcode = named)
      /\ (named = "OP_SEX8" => opcode \in {"OP_SEX8", "OP_SEX16"})
    BY DEF Op, IsExtension, SignExtension
<1>5. HasExpression <=> /\ Len(line.args) > (IF named = "OP_SEX8" THEN 1 ELSE 0)
                        /\ named \notin {"OP_CVIF", "OP_CVFI"}
    BY DEF HasExpression, IsExtension
<1>6. named \in (OpcodeNames \ ByteOperand) \cup {"OP_UNDEF"}
    BY <1>1, OperationsAssumption
<1>7. named \notin {"OP_UNDEF", "OP_CVIF", "OP_CVFI"} => (HasExpression <=> named \in WordOperand)
    BY <1>1, <1>5 DEF OperandAgrees
<1> HIDE DEF opcode
<1>8. ErrorsKept /\ (errorCount' = 0 => named # "OP_UNDEF")
    <2>1. refused \in Nat /\ (refused = 0 <=> named # "OP_UNDEF")
        OBVIOUS
    <2> HIDE DEF refused, named
    <2>2. CASE HasExpression
        <3>1. PICK t : LookupEffects(t, refused)
            BY <1>2, <2>2
        <3>2. QED BY <2>1, <3>1, LookupErrors DEF CodeReady
    <2>3. CASE ~ HasExpression
        BY <1>3, <2>1, <2>3 DEF CodeReady, ErrorsKept
    <2>4. QED BY <2>2, <2>3
<1> HIDE DEF refused, named
<1>9. CASE HasExpression
    <2>1. PICK v : EmitsCode(Instruct(opcode) \o Bytes(v))
        BY <1>2, <1>9
    <2> DEFINE e == Instruct(opcode) \o Bytes(v)
    <2>2. EmitsCode(e)
        BY <2>1
    <2>3. CASE named = "OP_UNDEF"
        <3>1. IsRow(Instruct(opcode)) /\ Len(Instruct(opcode)) = 1 /\ IsRow(Bytes(v))
            BY SingleRow, BytesSeq DEF Instruct, IsRow
        <3>2. IsRow(e)
            BY <3>1, OpcodeFirst
        <3>3. errorCount' # 0 /\ errorCount' \in Nat
            BY <1>8, <2>3 DEF ErrorsKept
        <3> HIDE DEF e
        <3>4. QED BY <2>2, <3>2, <3>3, AddErroneous DEF CodeReady, CodeKept
    <2>4. CASE named # "OP_UNDEF"
        <3>1. named \in WordOperand /\ named \in OpcodeNames
            BY <1>5, <1>6, <1>7, <1>9, <2>4
        <3>2. named # "OP_SEX8"
            BY <3>1 DEF WordOperand, Branches, IntBranches, FloatBranches
        <3>3. IsInstruction(e, opcode)
            <4>1. opcode \in OpcodeNames /\ opcode \in WordOperand
                BY <1>4, <3>1, <3>2
            <4>2. QED BY <4>1, WordInstruction
        <3> HIDE DEF e
        <3>4. QED BY <1>1, <1>8, <2>2, <3>3, AddInstruction DEF CodeReady, CodeKept, ErrorsKept
    <2>5. QED BY <2>3, <2>4
<1>10. CASE ~ HasExpression
    <2> DEFINE e == Instruct(opcode)
    <2>1. EmitsCode(e)
        BY <1>3, <1>10
    <2>2. CASE named = "OP_UNDEF"
        <3>1. IsRow(e)
            BY SingleRow DEF Instruct
        <3>2. errorCount' # 0 /\ errorCount' \in Nat
            BY <1>8, <2>2 DEF ErrorsKept
        <3> HIDE DEF e
        <3>3. QED BY <2>1, <3>1, <3>2, AddErroneous DEF CodeReady, CodeKept
    <2>3. CASE named # "OP_UNDEF"
        <3>1. named \in OpcodeNames /\ named \notin ByteOperand
            BY <1>6, <2>3
        <3>2. named \notin WordOperand
            <4>1. CASE named \in {"OP_CVIF", "OP_CVFI"}
                BY <4>1 DEF WordOperand, Branches, IntBranches, FloatBranches
            <4>2. CASE named \notin {"OP_CVIF", "OP_CVFI"}
                BY <1>7, <1>10, <2>3, <4>2
            <4>3. QED BY <4>1, <4>2
        <3>3. {"OP_SEX8", "OP_SEX16"} \cap (WordOperand \cup ByteOperand) = {}
            BY DEF ByteOperand, WordOperand, Branches, IntBranches, FloatBranches
        <3>4. opcode \in OpcodeNames /\ opcode \notin WordOperand \cup ByteOperand
            BY <1>4, <3>1, <3>2, <3>3, OpcodesNamed
        <3>5. IsInstruction(e, opcode)
            BY <3>4, PlainInstruction
        <3> HIDE DEF e
        <3>6. QED BY <1>1, <1>8, <2>1, <3>5, AddInstruction DEF CodeReady, CodeKept, ErrorsKept
    <2>4. QED BY <2>2, <2>3
<1>11. QED BY <1>9, <1>10

(* What is no instruction is put elsewhere.                                 *)
LEMMA QuietStatements ==
    ASSUME CodeReady,
           SegmentStatement \/ Ignored \/ equ \/ LABEL \/ OpIgnored \/ BadExtension
               \/ UnknownToken
    PROVE  CodeKept
<1>1. segment' = segment /\ instructionCount' = instructionCount
    BY DEF SegmentStatement, Ignored, equ, LABEL, OpIgnored, BadExtension, UnknownToken
<1>2. ErrorsKept
    <2>1. CASE SegmentStatement \/ Ignored \/ OpIgnored
        <3>1. errorCount' = errorCount
            BY <2>1 DEF SegmentStatement, Ignored, OpIgnored, symbolState
        <3>2. QED BY <3>1 DEF ErrorsKept, CodeReady
    <2>2. CASE BadExtension \/ UnknownToken
        <3>1. errorCount' = errorCount + 1
            BY <2>2 DEF BadExtension, UnknownToken
        <3>2. QED BY <3>1 DEF ErrorsKept, CodeReady
    <2>3. CASE equ \/ LABEL
        <3>1. \E name, value : DefineSymbol(name, value)
            BY <2>3 DEF equ, LABEL
        <3>2. QED BY <3>1, DefineErrors DEF CodeReady
    <2>4. QED BY <2>1, <2>2, <2>3
<1>3. QED BY <1>1, <1>2, KeepCode DEF CodeReady, CodeKept, ErrorsKept

LEMMA DataStatements ==
    ASSUME CodeReady, align \/ skip \/ byte \/ address, phase' # "exited",
           line.word \in {"align", "skip", "byte"} => currentSegment # "CODESEG"
    PROVE  CodeKept
<1>1. "CODESEG" \in DOMAIN segment
    BY DEF CodeReady, Shaped, Segments
<1>2. CASE align \/ skip
    <2>1. line.word \in {"align", "skip", "byte"} /\ errorCount' = errorCount
          /\ instructionCount' = instructionCount
        BY <1>2 DEF align, skip, At, symbolState
    <2>2. \E n : segment' = [segment EXCEPT ![currentSegment].imageUsed = n]
        BY <1>2 DEF align, skip
    <2>3. segment'["CODESEG"] = segment["CODESEG"]
        BY <1>1, <2>1, <2>2
    <2>4. QED BY <2>1, <2>3, KeepCode DEF CodeReady, CodeKept
<1>3. CASE byte
    <2>1. line.word = "byte" /\ instructionCount' = instructionCount
          /\ errorCount' \in {errorCount, errorCount + 1}
        BY <1>3 DEF byte, At
    <2>2. \E s, bytes : s # "CODESEG" /\ Emit(s, bytes, FALSE)
        BY <1>3, <2>1 DEF byte
    <2>3. segment'["CODESEG"] = segment["CODESEG"]
        BY <2>2, EmitElsewhere DEF CodeReady
    <2>4. ErrorsKept
        BY <2>1 DEF ErrorsKept, CodeReady
    <2>5. QED BY <2>1, <2>3, <2>4, KeepCode DEF CodeReady, CodeKept, ErrorsKept
<1>4. CASE address
    <2>1. instructionCount' = instructionCount
        BY <1>4 DEF address
    <2>2. \E d, j : segment' = [segment EXCEPT !["DATASEG"] = d, !["JTRGSEG"] = j]
        BY <1>4 DEF address
    <2>3. segment'["CODESEG"] = segment["CODESEG"]
        BY <1>1, <2>2
    <2>4. ErrorsKept
        <3>1. LookupEffects(Arg(1), 0) \/ errorCount' = errorCount
            BY <1>4 DEF address
        <3>2. QED BY <3>1, LookupErrors DEF CodeReady, ErrorsKept
    <2>5. QED BY <2>1, <2>3, <2>4, KeepCode DEF CodeReady, CodeKept, ErrorsKept
<1>5. QED BY <1>2, <1>3, <1>4

LEMMA LineCode ==
    ASSUME CodeReady, AssembleLine, phase' # "exited", OperandAgrees(line),
           line.word \in {"align", "skip", "byte"} => currentSegment # "CODESEG"
    PROVE  CodeKept
<1>1. CASE LineTooLong
    <2>1. segment' = segment /\ instructionCount' = instructionCount
          /\ errorCount' \in {errorCount + 1, 1}
        BY <1>1 DEF LineTooLong
    <2>2. ErrorsKept
        BY <2>1 DEF ErrorsKept, CodeReady
    <2>3. QED BY <2>1, <2>2, KeepCode DEF CodeReady, CodeKept, ErrorsKept
<1>2. QED BY <1>1, PlainStatements, FrameStatements, ArgStatement, EndStatement, Operation,
          QuietStatements, DataStatements DEF AssembleLine

-----------------------------------------------------------------------------
(* The invariant of the code that is written.                               *)

(* Behind the name of a segment for data, and no other since, the segment   *)
(* named last is not that of the code.                                      *)
Named(file, j, l) ==
    /\ file[j].word \in DOMAIN SegmentWords \ {"code"}
    /\ \A i \in j + 1 .. l : file[i].word # "code"
DataNamed ==
    (\E j \in 1 .. currentFileLine : Named(Lines, j, currentFileLine))
        => currentSegment # "CODESEG"

SizesCount == \A s \in Sized : Used(s) \in Nat

(* What is written of the code.                                             *)
AlignedCode ==
    /\ Bounds
    /\ errorCount = 0 => \E u : /\ Laid(CodeImage, u, instructionCount)
                                /\ Used("CODESEG") = Aligned(u)

CodeInv ==
    /\ phase # "exited" => errorCount \in Nat
    /\ phase \in {"options", "begin"} => Len(CodeImage) = MaxImage
    /\ phase = "assemble" => Bounds /\ CodeGood /\ SizesCount /\ DataNamed
    /\ phase \in {"stack", "write"} => AlignedCode /\ SizesCount
    /\ CodeDecodes

LEMMA LineDiscipline ==
    ASSUME NEW names, GoodNames(names), NEW g \in Nat, g < Len(names),
           NEW k \in Nat, k < Len(File(names, g))
    PROVE  /\ OperandAgrees(File(names, g)[k + 1])
           /\ File(names, g)[k + 1].word = "skip" => NumOf(File(names, g)[k + 1], 1) >= 0
           /\ File(names, g)[k + 1].word \in {"align", "skip", "byte"} =>
                 \E j \in 1 .. k : Named(File(names, g), j, k)
<1> DEFINE file == File(names, g)
<1>1. names[g + 1] \in DOMAIN AsmFiles /\ file \in Seq(LineType) /\ Len(file) \in Nat
    BY FileFacts
<1>2. k + 1 \in 1 .. Len(file) /\ (k + 1) - 1 = k
    BY <1>1
<1>3. file = AsmFiles[names[g + 1]]
    BY DEF File
<1> HIDE DEF file
<1>4. OperandAgrees(file[k + 1])
    BY <1>1, <1>2, <1>3, OperandsAssumption DEF OperandAgrees
<1>5. ASSUME file[k + 1].word = "skip" PROVE NumOf(file[k + 1], 1) >= 0
    <2>1. Len(file[k + 1].args) > 0 /\ ToWord(file[k + 1].args[1].n) >= 0
        BY <1>1, <1>2, <1>3, <1>5, DataAssumption
    <2>2. file[k + 1] \in LineType
        BY <1>1, <1>2, ElementOfSeq
    <2>3. file[k + 1].args \in Seq([sym : STRING, n : Int])
        BY <2>2 DEF LineType
    <2>4. 1 <= Len(file[k + 1].args)
        BY <2>1, <2>3, LenProperties
    <2>5. QED BY <2>1, <2>4 DEF NumOf, ArgOf
<1>6. ASSUME file[k + 1].word \in {"align", "skip", "byte"}
      PROVE  \E j \in 1 .. k : Named(file, j, k)
    <2>1. \E j \in 1 .. (k + 1) - 1 :
             /\ file[j].word \in DOMAIN SegmentWords \ {"code"}
             /\ \A i \in j + 1 .. (k + 1) - 1 : file[i].word # "code"
        BY <1>1, <1>2, <1>3, <1>6, DataAssumption
    <2>2. QED BY <1>2, <2>1 DEF Named
<1>7. QED BY <1>4, <1>5, <1>6 DEF file

LEMMA FilledNat ==
    ASSUME NEW l \in LineType, NEW offset, NEW n \in Nat,
           l.word = "align" => NumOf(l, 1) > 0, l.word = "skip" => NumOf(l, 1) >= 0
    PROVE  Filled(offset, l, n) \in Nat
<1> DEFINE v == NumOf(l, 1)
<1>1. v \in Int /\ InCode(offset, l) \in Nat
    BY LineNumbers, InCodeNat
<1>2. l.word = "align" => v \in Nat \ {0}
    BY <1>1
<1>3. l.word = "skip" => v \in Nat
    BY <1>1
<1> HIDE DEF v
<1>4. ASSUME v \in Nat \ {0} PROVE ((n + v - 1) \div v) * v \in Nat
    <2>1. (n + v - 1) \div v \in Nat
        BY <1>4
    <2> DEFINE q == (n + v - 1) \div v
    <2> HIDE DEF q
    <2>2. q \in Nat
        BY <2>1 DEF q
    <2>3. q * v \in Nat
        BY <1>4, <2>2
    <2>4. QED BY <2>3 DEF q
<1>5. Filled(offset, l, n) =
         IF l.word = "align" THEN ((n + v - 1) \div v) * v
         ELSE IF l.word = "skip" THEN n + v
         ELSE IF l.word = "byte" THEN n + (IF v > 0 THEN v ELSE 0)
         ELSE IF l.word = "address" THEN n + 4
         ELSE n + InCode(offset, l)
    BY DEF Filled, v
<1>6. CASE l.word = "align"
    BY <1>2, <1>4, <1>5, <1>6
<1>7. CASE l.word # "align"
    BY <1>1, <1>3, <1>5, <1>7
<1>8. QED BY <1>6, <1>7

LEMMA SizesGrow ==
    ASSUME SizesCount, Advanced, line \in LineType,
           line.word = "align" => NumOf(line, 1) > 0,
           line.word = "skip" => NumOf(line, 1) >= 0
    PROVE  SizesCount'
<1> SUFFICES ASSUME NEW s \in Sized PROVE Used(s)' \in Nat
    BY DEF SizesCount
<1>1. Now'.used[s] = Used(s)' /\ Now.used[s] = Used(s)
    BY DEF Now
<1>2. After(Now, line).used[s] = IF s = Place(Now.current, line)
                                 THEN Filled(Now.offset, line, Now.used[s]) ELSE Now.used[s]
    BY DEF After
<1>3. Used(s) \in Nat
    BY DEF SizesCount
<1>4. Filled(Now.offset, line, Used(s)) \in Nat
    BY <1>3, FilledNat
<1>5. QED BY <1>1, <1>2, <1>3, <1>4 DEF Advanced

LEMMA DataStaysNamed ==
    ASSUME DataNamed, Advanced, currentFileLine \in Nat, Lines' = Lines,
           currentFileLine' = currentFileLine + 1
    PROVE  DataNamed'
<1> DEFINE l == currentFileLine
<1>1. currentSegment' = CurrentAfter(currentSegment, line) /\ line = Lines[l + 1]
    BY DEF Advanced, Now, After, line
<1> SUFFICES ASSUME NEW j \in 1 .. l + 1, Named(Lines, j, l + 1)
             PROVE  currentSegment' # "CODESEG"
    BY DEF DataNamed
<1>2. Lines[j].word \in DOMAIN SegmentWords \ {"code"}
      /\ \A i \in j + 1 .. l + 1 : Lines[i].word # "code"
    BY DEF Named
<1>3. CASE j = l + 1
    <2>1. line.word \in {"data", "lit", "bss"}
        BY <1>1, <1>2, <1>3, SegmentWordsDomain
    <2>2. CurrentAfter(currentSegment, line) = SegmentWords[line.word]
        BY <2>1, SegmentWordsDomain DEF CurrentAfter
    <2>3. QED BY <1>1, <2>1, <2>2, SegmentWordsDomain
<1>4. CASE j # l + 1
    <2>1. j \in 1 .. l /\ l + 1 \in j + 1 .. l + 1
        BY <1>4
    <2>2. line.word # "code" /\ \A i \in j + 1 .. l : Lines[i].word # "code"
        BY <1>1, <1>2, <2>1
    <2>3. currentSegment # "CODESEG"
        BY <1>2, <2>1, <2>2 DEF DataNamed, Named
    <2>4. CurrentAfter(currentSegment, line) \in
              {currentSegment, "DATASEG", "LITSEG", "BSSSEG"}
        BY <2>2, SegmentWordsDomain DEF CurrentAfter
    <2>5. QED BY <1>1, <2>3, <2>4
<1>5. QED BY <1>3, <1>4

LEMMA AlignedNat ==
    ASSUME NEW n \in Nat
    PROVE  /\ Aligned(n) \in Nat /\ n <= Aligned(n)
           /\ n <= MaxImage => Aligned(n) <= MaxImage
<1>1. MaxImage \in Nat /\ MaxImage % 4 = 0
    BY FileAssumption, ImageAssumption
<1>2. QED BY <1>1 DEF Aligned

LEMMA InitCodeInv == Init => CodeInv
<1> SUFFICES ASSUME Init PROVE CodeInv
    OBVIOUS
<1>1. phase = "options" /\ errorCount = 0
    BY DEF Init
<1>2. CodeImage = [x \in 1 .. MaxImage |-> 0]
    BY DEF Init, CodeImage, Segments
<1>3. Len(CodeImage) = MaxImage
    BY <1>2, FileAssumption
<1>4. CodeDecodes
    BY <1>1 DEF CodeDecodes
<1>5. QED BY <1>1, <1>3, <1>4 DEF CodeInv

(* The command line.                                                        *)
LEMMA OptionsCode ==
    ASSUME CodeInv, Option \/ Files
    PROVE  CodeInv'
<1>1. phase = "options" /\ phase' \in {"options", "begin", "exited"}
      /\ segment' = segment /\ errorCount' = errorCount
    <2>1. CASE Option
        BY <2>1 DEF Option, ParseOptionFile, Exit, assembling
    <2>2. CASE Files
        BY <2>2 DEF Files
    <2>3. QED BY <2>1, <2>2
<1>2. errorCount' \in Nat /\ Len(CodeImage') = MaxImage
    BY <1>1 DEF CodeInv, CodeImage
<1>3. CodeDecodes'
    BY <1>1 DEF CodeDecodes
<1>4. QED BY <1>1, <1>2, <1>3 DEF CodeInv

LEMMA BeginPassCode ==
    ASSUME PassInv, CodeInv, BeginPass
    PROVE  CodeInv'
<1>1. phase = "begin" /\ phase' = "assemble" /\ currentFileLine' = 0
      /\ instructionCount' = 0 /\ errorCount' = errorCount
    BY DEF BeginPass, symbolState
<1>2. Len(CodeImage) = MaxImage /\ errorCount \in Nat
    BY <1>1 DEF CodeInv
<1>3. \A s \in Segments : /\ segment'[s].image = segment[s].image
                          /\ segment'[s].imageUsed = IF s = "DATASEG" THEN 4 ELSE 0
    BY DEF BeginPass
<1>4. CodeImage' = CodeImage /\ Used("CODESEG")' = 0
    BY <1>3 DEF CodeImage, Used, Segments
<1>5. Bounds'
    BY <1>2, <1>4, FileAssumption DEF Bounds
<1>6. CodeGood'
    BY <1>1, <1>4, NothingLaid DEF CodeGood
<1>7. SizesCount'
    <2>1. \A s \in Sized : Used(s)' \in {0, 4}
        BY <1>3, SizedSegments DEF Used
    <2>2. QED BY <2>1 DEF SizesCount
<1>8. DataNamed'
    BY <1>1 DEF DataNamed
<1>9. CodeDecodes'
    BY <1>1 DEF CodeDecodes
<1>10. QED BY <1>1, <1>2, <1>5, <1>6, <1>7, <1>8, <1>9 DEF CodeInv

LEMMA NextFileCode ==
    ASSUME CodeInv, NextFile
    PROVE  CodeInv'
<1>1. phase = "assemble" /\ phase' = phase /\ currentFileLine' = 0
      /\ segment' = segment /\ instructionCount' = instructionCount
      /\ errorCount' = errorCount
    BY DEF NextFile, EndOfFile, symbolState
<1>2. Bounds' /\ CodeGood' /\ SizesCount' /\ errorCount' \in Nat
    BY <1>1 DEF CodeInv, Bounds, CodeGood, CodeImage, Used, SizesCount
<1>3. DataNamed'
    BY <1>1 DEF DataNamed
<1>4. CodeDecodes'
    BY <1>1 DEF CodeDecodes
<1>5. QED BY <1>1, <1>2, <1>3, <1>4 DEF CodeInv

LEMMA LineStarts ==
    ASSUME PassInv, CodeInv, HasLine
    PROVE  /\ CodeReady /\ SizesCount /\ DataNamed /\ currentFileLine \in Nat
           /\ OperandAgrees(line) /\ line \in LineType
           /\ line.word = "align" => NumOf(line, 1) > 0
           /\ line.word = "skip" => NumOf(line, 1) >= 0
           /\ line.word \in {"align", "skip", "byte"} => currentSegment # "CODESEG"
<1>1. phase = "assemble" /\ currentFileLine < Len(Lines) /\ Assembling
    BY DEF HasLine, PassInv
<1>2. /\ GoodNames(asmFileNames) /\ Shaped
      /\ currentFileIndex \in Nat /\ currentFileIndex < Len(asmFileNames)
      /\ currentFileLine \in Nat
    BY <1>1 DEF Assembling
<1>3. Bounds /\ CodeGood /\ SizesCount /\ DataNamed /\ errorCount \in Nat
    BY <1>1 DEF CodeInv
<1> DEFINE file == File(asmFileNames, currentFileIndex)
<1>4. Lines = file /\ line = file[currentFileLine + 1]
    BY LinesAre DEF line
<1>5. /\ file[currentFileLine + 1] \in LineType
      /\ file[currentFileLine + 1].word = "align" => NumOf(file[currentFileLine + 1], 1) > 0
    BY <1>1, <1>2, <1>4, LineFacts
<1>6. /\ OperandAgrees(file[currentFileLine + 1])
      /\ file[currentFileLine + 1].word = "skip" => NumOf(file[currentFileLine + 1], 1) >= 0
      /\ file[currentFileLine + 1].word \in {"align", "skip", "byte"} =>
            \E j \in 1 .. currentFileLine : Named(file, j, currentFileLine)
    BY <1>1, <1>2, <1>4, LineDiscipline
<1> HIDE DEF file
<1>7. line.word \in {"align", "skip", "byte"} => currentSegment # "CODESEG"
    BY <1>3, <1>4, <1>6 DEF DataNamed
<1>8. QED BY <1>2, <1>3, <1>4, <1>5, <1>6, <1>7 DEF CodeReady

LEMMA AssembleLineCode ==
    ASSUME PassInv, CodeInv, AssembleLine
    PROVE  CodeInv'
<1>1. HasLine /\ phase = "assemble" /\ phase' \in {phase, "exited"}
    BY LineMoves DEF LineTooLong, HasLine
<1>2. /\ CodeReady /\ SizesCount /\ DataNamed /\ currentFileLine \in Nat
      /\ OperandAgrees(line) /\ line \in LineType
      /\ line.word = "align" => NumOf(line, 1) > 0
      /\ line.word = "skip" => NumOf(line, 1) >= 0
      /\ line.word \in {"align", "skip", "byte"} => currentSegment # "CODESEG"
    BY <1>1, LineStarts
<1>3. CodeDecodes'
    BY <1>1 DEF CodeDecodes
<1>4. CASE phase' = "exited"
    BY <1>3, <1>4 DEF CodeInv
<1>5. CASE phase' # "exited"
    <2>1. CodeKept
        BY <1>2, <1>5, LineCode
    <2>2. SizesCount' /\ DataNamed'
        <3>1. CASE LineTooLong
            <4>1. UNCHANGED << asmFileNames, currentFileIndex, currentFileLine,
                               currentSegment, segment >>
                BY <3>1 DEF LineTooLong, commandLine
            <4>2. Lines' = Lines
                BY <4>1 DEF Lines
            <4>3. QED BY <1>2, <4>1, <4>2 DEF SizesCount, DataNamed, Used
        <3>2. CASE ~ LineTooLong
            <4>1. /\ currentFileLine' = currentFileLine + 1
                  /\ UNCHANGED << asmFileNames, currentFileIndex >>
                BY <3>2, LineMoves
            <4>2. Lines' = Lines
                BY <4>1 DEF Lines
            <4>3. Advanced
                BY <1>1, <1>2, <1>5, <3>2, LineStep DEF CodeReady, PassInv, Assembling
            <4>4. QED BY <1>2, <4>1, <4>2, <4>3, SizesGrow, DataStaysNamed
        <3>3. QED BY <3>1, <3>2
    <2>3. QED BY <1>1, <1>3, <2>1, <2>2 DEF CodeKept, CodeInv
<1>6. QED BY <1>4, <1>5

LEMMA EndPassCode ==
    ASSUME PassInv, CodeInv, EndPass
    PROVE  CodeInv'
<1>1. phase = "assemble" /\ Assembling
    BY DEF EndPass, EndOfFile, PassInv
<1>2. /\ segment' = [s \in Segments |-> [segment[s] EXCEPT !.imageUsed = Aligned(@)]]
      /\ phase' \in {"begin", "stack"}
      /\ instructionCount' = instructionCount /\ errorCount' = errorCount
    BY DEF EndPass
<1>3. Shaped /\ Bounds /\ CodeGood /\ SizesCount /\ errorCount \in Nat
    BY <1>1 DEF Assembling, CodeInv
<1>4. ASSUME NEW s \in Segments
      PROVE  segment'[s].image = segment[s].image /\ Used(s)' = Aligned(Used(s))
    <2> DEFINE n == Aligned(Used(s))
    <2>1. segment'[s] = [segment[s] EXCEPT !.imageUsed = n]
        BY <1>2 DEF Used
    <2>2. SegmentRecord(segment[s])
        BY <1>3 DEF Shaped
    <2> HIDE DEF n
    <2>3. segment'[s] = [image |-> segment[s].image, imageUsed |-> n,
                         segmentBase |-> segment[s].segmentBase]
        BY <2>1, <2>2, RecordExcept
    <2>4. QED BY <2>3 DEF n, Used
<1>5. CodeImage' = CodeImage /\ Used("CODESEG")' = Aligned(Used("CODESEG"))
    BY <1>4 DEF CodeImage, Segments
<1>6. Bounds'
    <2>1. Used("CODESEG") \in Nat /\ Used("CODESEG") <= MaxImage
        BY <1>3, FileAssumption DEF Bounds
    <2>2. Aligned(Used("CODESEG")) \in Nat /\ Aligned(Used("CODESEG")) <= MaxImage
        BY <2>1, AlignedNat
    <2>3. QED BY <1>3, <1>5, <2>2, FileAssumption DEF Bounds
<1>7. AlignedCode'
    BY <1>2, <1>3, <1>5, <1>6 DEF AlignedCode, CodeGood
<1>8. SizesCount'
    BY <1>3, <1>4, SizedSegments, AlignedNat DEF SizesCount
<1>9. CodeDecodes'
    BY <1>2 DEF CodeDecodes
<1>10. QED BY <1>2, <1>3, <1>6, <1>7, <1>8, <1>9 DEF CodeInv, Bounds

LEMMA ReserveStackCode ==
    ASSUME PassInv, CodeInv, ReserveStack
    PROVE  CodeInv'
<1>1. phase = "stack" /\ phase' = "write" /\ Shaped /\ AlignedCode /\ SizesCount
      /\ errorCount \in Nat /\ instructionCount' = instructionCount
    BY DEF ReserveStack, PassInv, CodeInv
<1> DEFINE n == Used("BSSSEG") + StackSize
           clashes == {k \in 1 .. 2 : Exists(symtable, StackSymbols[k][1])}
<1>2. segment' = [segment EXCEPT !["BSSSEG"].imageUsed = n]
      /\ errorCount' = errorCount + Cardinality(clashes)
    BY DEF ReserveStack, Used
<1>3. n \in Nat
    BY <1>1, CommandLinesAssumption DEF SizesCount, Sized
<1>4. Cardinality(clashes) \in Nat
    <2>1. clashes \in SUBSET (1 .. 2)
        OBVIOUS
    <2>2. IsFiniteSet(1 .. 2)
        <3>1. 1 \in Int /\ 2 \in Int
            OBVIOUS
        <3>2. QED BY ONLY <3>1, FS_Interval, Zenon
    <2> HIDE DEF clashes
    <2>3. QED BY <2>1, <2>2, FS_Subset, FS_CardinalityType
<1> HIDE DEF n, clashes
<1>5. segment'["CODESEG"] = segment["CODESEG"]
    BY <1>1, <1>2 DEF Shaped, Segments
<1>6. Grown("BSSSEG", n)
    <2>1. n \in Int /\ "BSSSEG" \in Segments
        BY <1>3 DEF Segments
    <2>2. QED BY <1>1, <1>2, <2>1, SizeStep
<1>7. SizesCount'
    BY <1>1, <1>3, <1>6 DEF Grown, SizesCount
<1>8. errorCount' \in Nat /\ (errorCount' = 0 => errorCount = 0)
    BY <1>1, <1>2, <1>4
<1>9. AlignedCode'
    BY <1>1, <1>5, <1>8 DEF AlignedCode, Bounds, CodeImage, Used
<1>10. CodeDecodes'
    BY <1>1 DEF CodeDecodes
<1>11. QED BY <1>1, <1>7, <1>8, <1>9, <1>10 DEF CodeInv

(* A file that is written.                                                  *)
LEMMA WrittenFile ==
    ASSUME AlignedCode, SizesCount, errorCount = 0, instructionCount > 0
    PROVE  LET code   == WriteVmFile.code
               h      == WriteVmFile.header
               length == HeaderSize + Len(code) + Len(WriteVmFile.data)
           IN  /\ Aligned(EndOfCode(code, instructionCount)) = h.codeLength
               /\ (length <= MaxImage /\ h.bssLength <= MaxBss) => GoodHeader(h, length)
<1> DEFINE c == Used("CODESEG")
           d == Used("DATASEG")
           l == Used("LITSEG")
           b == Used("BSSSEG")
           code == Content("CODESEG")
           data == Content("DATASEG") \o Content("LITSEG")
           h == [magic            |-> TRUE,
                 instructionCount |-> instructionCount,
                 codeOffset       |-> HeaderSize,
                 codeLength       |-> c,
                 dataOffset       |-> HeaderSize + c,
                 dataLength       |-> d,
                 litLength        |-> l,
                 bssLength        |-> b]
<1>1. c \in Nat /\ d \in Nat /\ l \in Nat /\ b \in Nat
    BY DEF SizesCount, Sized
<1>2. PICK u : Laid(CodeImage, u, instructionCount) /\ c = Aligned(u)
    BY DEF AlignedCode
<1>3. u \in Nat /\ instructionCount \in Nat /\ u >= 1
    <2>1. PICK at : Reads(CodeImage, at, u, instructionCount)
        BY <1>2 DEF Laid
    <2>2. 1 \in 1 .. instructionCount /\ u \in Nat /\ instructionCount \in Nat
        BY <1>2 DEF Laid
    <2>3. at[1 - 1] \in 1 .. u
        BY <2>1, <2>2 DEF Reads
    <2>4. QED BY <2>2, <2>3
<1>4. u <= c /\ c >= 1
    BY <1>1, <1>2, <1>3, AlignedNat
<1>5. WriteVmFile.code = code /\ WriteVmFile.data = data /\ WriteVmFile.header = h
    BY DEF WriteVmFile
<1>6. /\ IsRow(code) /\ Len(code) = c
      /\ \A i \in 1 .. c : code[i] = CodeImage[i]
    <2>1. code = SubSeq(CodeImage, 1, c)
        BY DEF Content, CodeImage
    <2> HIDE DEF c, code
    <2>2. QED BY <1>1, <1>4, <2>1, SubRow
<1>7. Len(data) = d + l
    <2>1. \A s \in Sized : IsRow(Content(s)) /\ Len(Content(s)) = Used(s)
        BY SubRow DEF SizesCount, Content
    <2>2. QED BY <2>1, RowConcat DEF Sized
<1> HIDE DEF code, data, c, d, l, b
<1>8. EndOfCode(code, instructionCount) = u
    <2>1. DOMAIN code = 1 .. c
        BY <1>6, LenProperties DEF IsRow
    <2>2. 1 .. u \subseteq DOMAIN code /\ \A x \in 1 .. u : code[x] = CodeImage[x]
        BY <1>1, <1>3, <1>4, <1>6, <2>1
    <2>3. QED BY <1>2, <2>2, EndOfLaid
<1> DEFINE length == HeaderSize + Len(code) + Len(data)
<1>9. ASSUME length <= MaxImage, b <= MaxBss
      PROVE  GoodHeader(h, length)
    <2>1. HeaderSize \in Nat /\ MaxImage \in Nat /\ MaxBss \in Nat
        BY FileAssumption
    <2>2. length = HeaderSize + c + (d + l)
        BY <1>6, <1>7
    <2> HIDE DEF length
    <2>3. /\ h.magic /\ h.instructionCount > 0
          /\ h.codeOffset = HeaderSize /\ h.codeLength = c
          /\ h.dataOffset = HeaderSize + c /\ h.dataLength = d
          /\ h.litLength = l /\ h.bssLength = b
        OBVIOUS
    <2> HIDE DEF h
    <2>4. GoodFields(h, length)
        BY <1>1, <1>4, <1>9, <2>1, <2>2, <2>3 DEF GoodFields, length
    <2>5. CodeEnd(h) <= length /\ DataEnd(h) <= length
        BY <1>1, <2>1, <2>2, <2>3 DEF CodeEnd, DataEnd
    <2>6. QED BY <2>4, <2>5 DEF GoodHeader
<1>10. h.codeLength = c /\ h.bssLength = b
    OBVIOUS
<1> HIDE DEF h
<1>11. QED BY <1>2, <1>5, <1>8, <1>9, <1>10

LEMMA WriteCode ==
    ASSUME CodeInv, Write
    PROVE  CodeInv'
<1>1. phase = "write" /\ errorCount \in Nat /\ AlignedCode /\ SizesCount
    BY DEF Write, CodeInv
<1>2. /\ phase' = IF errorCount = 0 THEN "done" ELSE "failed"
      /\ output'.qvm = WriteVmFile
      /\ errorCount' = errorCount /\ instructionCount' = instructionCount
    BY DEF Write, symbolState
<1>3. CodeDecodes'
    <2>1. CASE errorCount = 0 /\ instructionCount > 0
        BY <1>1, <1>2, <2>1, WrittenFile DEF CodeDecodes
    <2>2. CASE errorCount # 0
        BY <1>2, <2>2 DEF CodeDecodes
    <2>3. CASE ~ (instructionCount > 0)
        BY <1>2, <2>3 DEF CodeDecodes
    <2>4. QED BY <2>1, <2>2, <2>3
<1>4. QED BY <1>1, <1>2, <1>3 DEF CodeInv

LEMMA StutterCode ==
    ASSUME CodeInv, UNCHANGED vars
    PROVE  CodeInv'
<1>1. UNCHANGED << asmFileNames, phase, currentFileIndex, currentFileLine,
                   currentSegment, segment, instructionCount, errorCount, output >>
    BY DEF vars, commandLine
<1>2. Lines' = Lines
    BY <1>1 DEF Lines
<1>3. /\ Bounds' = Bounds /\ CodeGood' = CodeGood /\ SizesCount' = SizesCount
      /\ DataNamed' = DataNamed /\ AlignedCode' = AlignedCode
      /\ CodeDecodes' = CodeDecodes /\ CodeImage' = CodeImage
    BY <1>1, <1>2 DEF Bounds, CodeGood, SizesCount, DataNamed, AlignedCode, CodeDecodes,
                      CodeImage, Used
<1>4. QED BY <1>1, <1>3 DEF CodeInv

LEMMA CodeInvariance == Spec => []CodeInv
<1>1. Init => CodeInv
    BY InitCodeInv
<1>2. ASSUME PassInv, CodeInv, [Next]_vars PROVE CodeInv'
    <2>1. CASE Option \/ Files
        BY <1>2, <2>1, OptionsCode
    <2>2. CASE AssembleLine
        BY <1>2, <2>2, AssembleLineCode
    <2>3. CASE Assemble
        BY <1>2, <2>3, BeginPassCode, NextFileCode, EndPassCode, ReserveStackCode, WriteCode
           DEF Assemble
    <2>4. CASE UNCHANGED vars
        BY <1>2, <2>4, StutterCode
    <2>5. QED BY <1>2, <2>1, <2>2, <2>3, <2>4 DEF Next
<1>3. QED BY <1>1, <1>2, PassInvariance, PTL DEF Spec

(* The code of a file that is written is a row of as many instructions as   *)
(* its header says, for the loader, which reads an operand where the opcode  *)
(* has one and not where the assembly file had a token; and the loader      *)
(* accepts the header if the file and the .bss are small enough.            *)
THEOREM WrittenCodeDecodes == Spec => []CodeDecodes
<1>1. CodeInv => CodeDecodes
    BY DEF CodeInv
<1>2. QED BY <1>1, CodeInvariance, PTL

-----------------------------------------------------------------------------
(* The symbol table: no name twice, and every name in its bucket.           *)

GlobalName(sym)   == << sym >>
LocalName(sym, f) == Append(<< sym >>, f)
Names   == {GlobalName(sym) : sym \in STRING} \cup {LocalName(sym, f) : sym \in STRING, f \in Nat}
Entries == [name : Names, segment : Segments \cup {"none"}, value : Int]
HashTyped == \A name \in Names : HashString(name) \in Int

Chains(n) == [0 .. n - 1 -> Seq(Names)]
Tables(n) == [list : Seq(Entries), chains : Chains(n)]
Chained(tab) == \A i \in 1 .. Len(tab.list) : Exists(tab, tab.list[i].name)
Distinct(list) == \A i, j \in 1 .. Len(list) : list[i].name = list[j].name => i = j
GoodTable ==
    /\ \E n \in Nat \ {0} : symtable \in Tables(n)
    /\ Chained(symtable) /\ Distinct(symtable.list)

LEMMA Buckets0 ==
    ASSUME NEW n \in Nat \ {0}, DOMAIN symtable.chains = 0 .. n - 1, HashTyped,
           NEW name \in Names
    PROVE  Bucket(name) \in 0 .. n - 1
<1>1. 0 \in Int /\ n - 1 \in Int
    OBVIOUS
<1>2. Cardinality(0 .. n - 1) = IF 0 > n - 1 THEN 0 ELSE (n - 1) - 0 + 1
    BY ONLY <1>1, FS_Interval, Zenon
<1>3. Buckets = n
    BY <1>2 DEF Buckets
<1>4. HashString(name) \in Int
    BY DEF HashTyped
<1> DEFINE h == IF HashString(name) < 0 THEN - HashString(name) ELSE HashString(name)
<1>5. h \in Nat /\ Bucket(name) = h % n
    BY <1>3, <1>4 DEF Bucket
<1> HIDE DEF h
<1>6. QED BY <1>5

LEMMA AppendMore ==
    ASSUME NEW S, NEW s \in Seq(S), NEW e \in S
    PROVE  /\ Append(s, e) \in Seq(S) /\ Len(Append(s, e)) = Len(s) + 1
           /\ Len(s) \in Nat
           /\ \A i \in 1 .. Len(s) : Append(s, e)[i] = s[i]
           /\ Append(s, e)[Len(s) + 1] = e
    OBVIOUS

LEMMA ChainGrows ==
    ASSUME NEW s \in Seq(Names), NEW e \in Names, NEW name
    PROVE  name \in Range(Append(s, e)) <=> name \in Range(s) \/ name = e
<1> DEFINE a == Append(s, e)
<1>1. /\ Len(a) = Len(s) + 1 /\ Len(s) \in Nat
      /\ \A i \in 1 .. Len(s) : a[i] = s[i]
      /\ a[Len(s) + 1] = e /\ DOMAIN a = 1 .. Len(s) + 1
    <2>1. a \in Seq(Names)
        BY AppendMore
    <2>2. QED BY <2>1, AppendMore, LenProperties
<1>2. DOMAIN s = 1 .. Len(s)
    OBVIOUS
<1> HIDE DEF a
<1>3. ASSUME name \in Range(a) PROVE name \in Range(s) \/ name = e
    <2>1. PICK i \in 1 .. Len(s) + 1 : a[i] = name
        BY <1>1, <1>3 DEF Range
    <2>2. i \in 1 .. Len(s) \/ i = Len(s) + 1
        BY <1>1
    <2>3. QED BY <1>1, <1>2, <2>1, <2>2 DEF Range
<1>4. ASSUME name \in Range(s) PROVE name \in Range(a)
    <2>1. PICK i \in 1 .. Len(s) : s[i] = name
        BY <1>2, <1>4 DEF Range
    <2>2. i \in 1 .. Len(s) + 1 /\ a[i] = name
        BY <1>1, <2>1
    <2>3. QED BY <1>1, <2>2 DEF Range
<1>5. ASSUME name = e PROVE name \in Range(a)
    <2>1. Len(s) + 1 \in DOMAIN a
        BY <1>1
    <2>2. QED BY <1>1, <1>5, <2>1 DEF Range
<1>6. QED BY <1>3, <1>4, <1>5 DEF a

TableParts(n) ==
    /\ symtable = [list |-> symtable.list, chains |-> symtable.chains]
    /\ symtable.list \in Seq(Entries) /\ Len(symtable.list) \in Nat
    /\ symtable.chains \in Chains(n) /\ DOMAIN symtable.chains = 0 .. n - 1
LEMMA TableHas ==
    ASSUME GoodTable
    PROVE  \E n \in Nat \ {0} : TableParts(n)
<1>1. PICK n \in Nat \ {0} : symtable \in Tables(n)
    BY DEF GoodTable
<1> DEFINE L == Seq(Entries)
<1>2. /\ symtable = [list |-> symtable.list, chains |-> symtable.chains]
      /\ symtable.list \in L /\ symtable.chains \in Chains(n)
    <2>1. symtable \in [list : L, chains : Chains(n)]
        BY <1>1 DEF Tables
    <2> HIDE DEF L
    <2>2. QED BY <2>1
<1>3. DOMAIN symtable.chains = 0 .. n - 1
    BY <1>2 DEF Chains
<1>4. Len(symtable.list) \in Nat
    BY <1>2, LenProperties
<1>5. QED BY <1>2, <1>3, <1>4 DEF TableParts

SameBuckets == \A name : Bucket(name)' = Bucket(name)
LEMMA BucketsStay ==
    ASSUME DOMAIN symtable'.chains = DOMAIN symtable.chains
    PROVE  SameBuckets
BY DEF SameBuckets, Bucket, Buckets

(* A new entry.                                                             *)
NewEntry(name, value) == [name |-> name, segment |-> currentSegment, value |-> value]
Entered(entry) ==
    /\ Len(symtable'.list) = Len(symtable.list) + 1
    /\ \A i \in 1 .. Len(symtable.list) : symtable'.list[i] = symtable.list[i]
    /\ symtable'.list[Len(symtable.list) + 1] = entry
LEMMA AddedGood ==
    ASSUME HashTyped, GoodTable, NEW name \in Names, NEW value \in Int,
           currentSegment \in Segments \cup {"none"}, ~ Exists(symtable, name),
           symtable' = Added(symtable, name, value)
    PROVE  GoodTable' /\ Entered(NewEntry(name, value))
<1>1. PICK n \in Nat \ {0} : TableParts(n)
    BY TableHas
<1> DEFINE L == symtable.list
           C == symtable.chains
           b == Bucket(name)
           e == NewEntry(name, value)
           more == Append(L, e)
           chains == [C EXCEPT ![b] = Append(@, name)]
<1>2. /\ L \in Seq(Entries) /\ C \in Chains(n) /\ DOMAIN C = 0 .. n - 1 /\ Len(L) \in Nat
    BY <1>1 DEF TableParts
<1>3. e \in Entries /\ e.name = name
    BY DEF NewEntry, Entries
<1>4. symtable' = [list |-> more, chains |-> chains]
    BY DEF Added, NewEntry
<1>5. \A nm \in Names : Bucket(nm) \in 0 .. n - 1
    BY <1>2, Buckets0
<1>6. /\ more \in Seq(Entries) /\ Len(more) = Len(L) + 1
      /\ \A i \in 1 .. Len(L) : more[i] = L[i]
      /\ more[Len(L) + 1] = e
    <2> HIDE DEF L, e
    <2>1. QED BY <1>2, <1>3, AppendMore
<1>7. \A c \in 0 .. n - 1 : C[c] \in Seq(Names)
    BY <1>2 DEF Chains
<1>8. /\ chains \in Chains(n) /\ DOMAIN chains = 0 .. n - 1
      /\ \A c \in 0 .. n - 1 : chains[c] = IF c = b THEN Append(C[c], name) ELSE C[c]
    <2>1. b \in 0 .. n - 1
        BY <1>5
    <2>2. Append(C[b], name) \in Seq(Names)
        BY <1>7, <2>1, AppendMore
    <2> DEFINE a == Append(C[b], name)
    <2>3. chains = [C EXCEPT ![b] = a] /\ a \in Seq(Names)
        BY <2>2
    <2> DEFINE S == Seq(Names)
    <2> HIDE DEF C, b, a, chains, S
    <2>4. C \in [0 .. n - 1 -> S] /\ a \in S
        BY <1>2, <2>3 DEF Chains, S
    <2>5. chains \in [0 .. n - 1 -> S] /\ \A c \in 0 .. n - 1 : chains[c] = IF c = b THEN a ELSE C[c]
        BY <2>1, <2>3, <2>4
    <2>6. QED BY <2>5 DEF Chains, S, a
<1> HIDE DEF more, chains, b, e
<1>9. symtable'.list = more /\ symtable'.chains = chains
    BY <1>4
<1>10. SameBuckets
    BY <1>2, <1>8, <1>9, BucketsStay
<1>11. \A nm \in Names : Exists(symtable, nm)' <=> Exists(symtable, nm) \/ nm = name
    <2> SUFFICES ASSUME NEW nm \in Names
                 PROVE  Exists(symtable, nm)' <=> Exists(symtable, nm) \/ nm = name
        OBVIOUS
    <2> DEFINE c == Bucket(nm)
    <2>1. c \in 0 .. n - 1 /\ c' = c
        BY <1>5, <1>10 DEF SameBuckets
    <2>2. Exists(symtable, nm)' <=> nm \in Range(chains[c])
        BY <1>9, <2>1 DEF Exists
    <2>3. Exists(symtable, nm) <=> nm \in Range(C[c])
        BY DEF Exists
    <2>4. nm = name => c = b
        BY DEF b
    <2>5. C[c] \in Seq(Names) /\ chains[c] = IF c = b THEN Append(C[c], name) ELSE C[c]
        BY <1>7, <1>8, <2>1
    <2>6. nm \in Range(Append(C[c], name)) <=> nm \in Range(C[c]) \/ nm = name
        BY <2>5, ChainGrows
    <2> HIDE DEF c
    <2>7. QED BY <2>2, <2>3, <2>4, <2>5, <2>6
<1>12. \A i \in 1 .. Len(L) : /\ L[i].name \in Names /\ Exists(symtable, L[i].name)
                              /\ L[i].name # name
    <2>1. \A i \in 1 .. Len(L) : L[i] \in Entries
        BY <1>2, ElementOfSeq
    <2>2. \A i \in 1 .. Len(L) : L[i].name \in Names
        BY <2>1 DEF Entries
    <2>3. QED BY <2>2 DEF GoodTable, Chained
<1>13. \A i \in 1 .. Len(L) + 1 : i \in 1 .. Len(L) \/ i = Len(L) + 1
    BY <1>2
<1>14. Chained(symtable)'
    <2> SUFFICES ASSUME NEW i \in 1 .. Len(symtable'.list),
                        NEW nm, nm = symtable'.list[i].name
                 PROVE  Exists(symtable, nm)'
        BY DEF Chained, Exists, Bucket, Buckets
    <2>1. nm = more[i].name /\ i \in 1 .. Len(L) + 1
        BY <1>6, <1>9
    <2>2. CASE i \in 1 .. Len(L)
        <3>1. nm = L[i].name
            BY <1>6, <2>1, <2>2
        <3>2. QED BY <1>11, <1>12, <2>2, <3>1
    <2>3. CASE i = Len(L) + 1
        BY <1>3, <1>6, <1>11, <2>1, <2>3
    <2>4. QED BY <1>13, <2>1, <2>2, <2>3
<1>15. Distinct(more)
    <2> SUFFICES ASSUME NEW i \in 1 .. Len(L) + 1, NEW j \in 1 .. Len(L) + 1,
                        more[i].name = more[j].name
                 PROVE  i = j
        BY <1>6 DEF Distinct
    <2>1. CASE i \in 1 .. Len(L) /\ j \in 1 .. Len(L)
        BY <1>6, <2>1 DEF GoodTable, Distinct
    <2>2. CASE i \in 1 .. Len(L) /\ j = Len(L) + 1
        BY <1>3, <1>6, <1>12, <2>2
    <2>3. CASE i = Len(L) + 1 /\ j \in 1 .. Len(L)
        BY <1>3, <1>6, <1>12, <2>3
    <2>4. QED BY <1>13, <2>1, <2>2, <2>3
<1>16. symtable' \in Tables(n)
    <2> DEFINE S == Seq(Entries)
    <2>1. more \in S /\ chains \in Chains(n)
        BY <1>6, <1>8
    <2> HIDE DEF S
    <2>2. symtable' \in [list : S, chains : Chains(n)]
        BY <1>4, <2>1
    <2>3. QED BY <2>2 DEF Tables, S
<1>17. GoodTable'
    BY <1>9, <1>14, <1>15, <1>16 DEF GoodTable
<1>18. Entered(e)
    BY <1>6, <1>9 DEF Entered
<1>19. QED BY <1>17, <1>18 DEF e

(* The last entry in another segment.                                       *)
LEMMA EntryExcept ==
    ASSUME NEW e \in Entries, NEW s, NEW v
    PROVE  [[e EXCEPT !.segment = s] EXCEPT !.value = v]
              = [name |-> e.name, segment |-> s, value |-> v]
<1>1. e = [name |-> e.name, segment |-> e.segment, value |-> e.value]
    BY DEF Entries
<1> DEFINE a == e.name
           b == e.segment
           c == e.value
<1> HIDE DEF a, b, c
<1>2. e = [name |-> a, segment |-> b, value |-> c]
    BY <1>1 DEF a, b, c
<1>3. [e EXCEPT !.segment = s] = [name |-> a, segment |-> s, value |-> c]
    BY <1>2
<1>4. [[name |-> a, segment |-> s, value |-> c] EXCEPT !.value = v]
         = [name |-> a, segment |-> s, value |-> v]
    OBVIOUS
<1>5. QED BY <1>3, <1>4 DEF a

LEMMA TableExcept ==
    ASSUME NEW n \in Nat \ {0}, TableParts(n), Len(symtable.list) > 0, NEW s, NEW v
    PROVE  [symtable EXCEPT !.list[Len(symtable.list)].segment = s,
                            !.list[Len(symtable.list)].value = v]
              = [list   |-> [symtable.list EXCEPT ![Len(symtable.list)] =
                                [name |-> symtable.list[Len(symtable.list)].name,
                                 segment |-> s, value |-> v]],
                 chains |-> symtable.chains]
<1> DEFINE L == symtable.list
           C == symtable.chains
           k == Len(symtable.list)
           a == [L[k] EXCEPT !.segment = s]
           LA == [L EXCEPT ![k] = a]
           e == [name |-> L[k].name, segment |-> s, value |-> v]
<1>1. symtable = [list |-> L, chains |-> C] /\ L \in Seq(Entries) /\ k \in 1 .. Len(L)
    BY DEF TableParts
<1>2. L[k] \in Entries
    BY <1>1, ElementOfSeq
<1>3. [a EXCEPT !.value = v] = e
    <2> DEFINE x == L[k]
    <2>1. x \in Entries
        BY <1>2
    <2> HIDE DEF x
    <2>2. [[x EXCEPT !.segment = s] EXCEPT !.value = v]
             = [name |-> x.name, segment |-> s, value |-> v]
        BY <2>1, EntryExcept
    <2>3. QED BY <2>2 DEF x
<1>4. k \in DOMAIN L
    BY <1>1
<1> HIDE DEF e
<1>5. LA[k] = a
    <2> HIDE DEF a, k, L
    <2>1. QED BY <1>4
<1>6. [LA EXCEPT ![k] = [a EXCEPT !.value = v]] = [L EXCEPT ![k] = e]
    <2> HIDE DEF a, k, L
    <2>1. QED BY <1>3, <1>4
<1>7. [symtable EXCEPT !.list[Len(symtable.list)].segment = s]
         = [list |-> LA, chains |-> C]
    <2>1. [[list |-> L, chains |-> C] EXCEPT !.list[k].segment = s]
             = [list |-> [L EXCEPT ![k].segment = s], chains |-> C]
        <3> HIDE DEF L, k, C
        <3>1. QED OBVIOUS
    <2>2. [L EXCEPT ![k].segment = s] = [L EXCEPT ![k] = [L[k] EXCEPT !.segment = s]]
        <3> HIDE DEF L, k
        <3>1. QED OBVIOUS
    <2>3. symtable = [list |-> L, chains |-> C]
        BY <1>1
    <2>4. QED BY <2>1, <2>2, <2>3
<1>8. [symtable EXCEPT !.list[Len(symtable.list)].segment = s,
                       !.list[Len(symtable.list)].value = v]
         = [[list |-> LA, chains |-> C] EXCEPT !.list[k].value = v]
    BY <1>7
<1>9. [[list |-> LA, chains |-> C] EXCEPT !.list[k].value = v]
         = [list |-> [LA EXCEPT ![k] = [a EXCEPT !.value = v]], chains |-> C]
    <2>1. [[list |-> LA, chains |-> C] EXCEPT !.list[k].value = v]
             = [list |-> [LA EXCEPT ![k].value = v], chains |-> C]
        <3> HIDE DEF LA, k, C
        <3>1. QED OBVIOUS
    <2>2. [LA EXCEPT ![k].value = v] = [LA EXCEPT ![k] = [LA[k] EXCEPT !.value = v]]
        <3> HIDE DEF LA, k
        <3>1. QED OBVIOUS
    <2>3. QED BY <1>5, <2>1, <2>2
<1>10. QED BY <1>6, <1>8, <1>9 DEF e

MoveLast(s, v) ==
    symtable' = [symtable EXCEPT !.list[Len(symtable.list)].segment = s,
                                 !.list[Len(symtable.list)].value = v]
MovedLast(s, v) ==
    /\ Len(symtable'.list) = Len(symtable.list)
    /\ \A i \in 1 .. Len(symtable.list) : i # Len(symtable.list) =>
           symtable'.list[i] = symtable.list[i]
    /\ symtable'.list[Len(symtable.list)]
          = [name |-> symtable.list[Len(symtable.list)].name, segment |-> s, value |-> v]
LEMMA MovedGood ==
    ASSUME GoodTable, Len(symtable.list) > 0, NEW s \in Segments, NEW v \in Int,
           MoveLast(s, v)
    PROVE  GoodTable' /\ MovedLast(s, v)
<1>1. PICK n \in Nat \ {0} : TableParts(n)
    BY TableHas
<1> DEFINE L == symtable.list
           k == Len(symtable.list)
           e == [name |-> L[k].name, segment |-> s, value |-> v]
           moved == [L EXCEPT ![k] = e]
<1>2. symtable' = [list |-> moved, chains |-> symtable.chains]
    BY <1>1, TableExcept DEF MoveLast
<1>3. L \in Seq(Entries) /\ k \in 1 .. Len(L) /\ k \in Nat
    BY <1>1 DEF TableParts
<1>4. L[k] \in Entries
    BY <1>3, ElementOfSeq
<1>5. e \in Entries /\ e.name = L[k].name
    BY <1>4 DEF Entries
<1>6. /\ moved \in Seq(Entries) /\ Len(moved) = Len(L)
      /\ \A i \in 1 .. Len(L) : moved[i] = IF i = k THEN e ELSE L[i]
    <2> HIDE DEF L, k, e
    <2>1. L \in [1 .. Len(L) -> Entries] /\ Len(L) \in Nat
        BY <1>3
    <2>2. moved \in [1 .. Len(L) -> Entries]
          /\ \A i \in 1 .. Len(L) : moved[i] = IF i = k THEN e ELSE L[i]
        BY <1>3, <1>5, <2>1
    <2> HIDE DEF moved
    <2>3. moved \in Seq(Entries)
        BY <2>1, <2>2
    <2>4. Len(moved) = Len(L)
        BY <2>1, <2>2, <2>3
    <2>5. QED BY <2>2, <2>3, <2>4
<1> HIDE DEF moved, e
<1>7. symtable'.list = moved /\ symtable'.chains = symtable.chains
    <2> DEFINE C == symtable.chains
    <2>1. symtable' = [list |-> moved, chains |-> C]
        BY <1>2
    <2> HIDE DEF C
    <2>2. symtable'.list = moved /\ symtable'.chains = C
        BY <2>1
    <2>3. QED BY <2>2 DEF C
<1>8. SameBuckets
    BY <1>7, BucketsStay
<1>9. \A i \in 1 .. Len(L) : moved[i].name = L[i].name
    BY <1>5, <1>6
<1>10. Chained(symtable)'
    <2> SUFFICES ASSUME NEW i \in 1 .. Len(symtable'.list),
                        NEW nm, nm = symtable'.list[i].name
                 PROVE  Exists(symtable, nm)'
        BY DEF Chained, Exists, Bucket, Buckets
    <2>1. nm = L[i].name /\ i \in 1 .. Len(L)
        BY <1>6, <1>7, <1>9
    <2>2. Exists(symtable, nm)
        BY <2>1 DEF GoodTable, Chained
    <2>3. QED BY <1>7, <1>8, <2>2 DEF Exists, SameBuckets
<1>11. Distinct(moved)
    BY <1>6, <1>9 DEF GoodTable, Distinct
<1>12. symtable' \in Tables(n)
    <2> DEFINE S == Seq(Entries)
    <2>1. moved \in S /\ symtable.chains \in Chains(n)
        BY <1>1, <1>6 DEF TableParts
    <2> HIDE DEF S
    <2>2. symtable' \in [list : S, chains : Chains(n)]
        BY <1>2, <2>1
    <2>3. QED BY <2>2 DEF Tables, S
<1>13. GoodTable'
    BY <1>7, <1>10, <1>11, <1>12 DEF GoodTable
<1>14. MovedLast(s, v)
    BY <1>3, <1>6, <1>7 DEF MovedLast, e
<1>15. QED BY <1>13, <1>14

(* Sorting keeps the entries: no two have the same number up to them.       *)
LEMMA UpToInList ==
    ASSUME NEW list \in Seq(Entries), NEW k \in 1 .. Len(list)
    PROVE  /\ UpTo(list, k) \subseteq 1 .. Len(list) /\ k \in UpTo(list, k)
           /\ IsFiniteSet(UpTo(list, k)) /\ Cardinality(UpTo(list, k)) \in 1 .. Len(list)
<1> DEFINE N == Len(list)
           S == UpTo(list, k)
<1>1. N \in Nat /\ 1 \in Int /\ N \in Int
    BY LenProperties
<1>2. S \subseteq 1 .. N /\ k \in S
    BY DEF UpTo
<1> HIDE DEF S, N
<1>3. IsFiniteSet(1 .. N) /\ Cardinality(1 .. N) = IF 1 > N THEN 0 ELSE N - 1 + 1
    BY ONLY <1>1, FS_Interval, Zenon
<1>4. Cardinality(1 .. N) = N
    BY <1>1, <1>3
<1>5. S \in SUBSET (1 .. N)
    BY <1>2
<1>6. IsFiniteSet(S) /\ Cardinality(S) <= N
    <2> DEFINE T == 1 .. N
    <2>1. IsFiniteSet(T) /\ S \in SUBSET T /\ Cardinality(T) = N
        BY <1>3, <1>4, <1>5
    <2> HIDE DEF T
    <2>2. IsFiniteSet(S) /\ Cardinality(S) <= Cardinality(T)
        BY <2>1, FS_Subset
    <2>3. QED BY <2>1, <2>2
<1>7. Cardinality(S) \in Nat /\ Cardinality(S) # 0
    BY <1>2, <1>6, FS_CardinalityType, FS_EmptySet
<1>8. QED BY <1>1, <1>2, <1>6, <1>7 DEF S, N

LEMMA UpToDiffers ==
    ASSUME NEW list \in Seq(Entries), NEW i \in 1 .. Len(list), NEW j \in 1 .. Len(list),
           Cardinality(UpTo(list, i)) = Cardinality(UpTo(list, j))
    PROVE  i = j
<1>1. \A k \in 1 .. Len(list) : list[k].value \in Int
    <2>1. \A k \in 1 .. Len(list) : list[k] \in Entries
        BY ElementOfSeq
    <2>2. QED BY <2>1 DEF Entries
<1>2. Len(list) \in Nat
    BY LenProperties
<1> DEFINE v == [k \in 1 .. Len(list) |-> list[k].value]
<1>3. \A k \in 1 .. Len(list) :
         v[k] \in Int /\ UpTo(list, k) = {m \in 1 .. Len(list) : v[m] < v[k] \/ (v[m] = v[k] /\ m <= k)}
    BY <1>1 DEF UpTo
<1> HIDE DEF v
<1>4. UpTo(list, i) \subseteq UpTo(list, j) \/ UpTo(list, j) \subseteq UpTo(list, i)
    <2>1. CASE v[i] < v[j] \/ (v[i] = v[j] /\ i <= j)
        BY <1>2, <1>3, <2>1
    <2>2. CASE v[j] < v[i] \/ (v[i] = v[j] /\ j <= i)
        BY <1>2, <1>3, <2>2
    <2>3. QED BY <1>2, <1>3, <2>1, <2>2
<1>5. UpTo(list, i) = UpTo(list, j)
    <2> DEFINE S == UpTo(list, i)
               T == UpTo(list, j)
    <2>1. IsFiniteSet(S) /\ IsFiniteSet(T) /\ Cardinality(S) = Cardinality(T)
          /\ (S \in SUBSET T \/ T \in SUBSET S)
        BY <1>4, UpToInList
    <2> HIDE DEF S, T
    <2>2. S = T
        BY <2>1, FS_Subset
    <2>3. QED BY <2>2 DEF S, T
<1>6. i \in UpTo(list, j) /\ j \in UpTo(list, i)
    BY <1>5, UpToInList
<1>7. QED BY <1>2, <1>3, <1>6

LEMMA EveryRank ==
    ASSUME NEW list \in Seq(Entries), NEW r \in 1 .. Len(list)
    PROVE  \E k \in 1 .. Len(list) : Cardinality(UpTo(list, k)) = r
<1> DEFINE N == Len(list)
           S == 1 .. N
           f == [k \in S |-> Cardinality(UpTo(list, k))]
<1>1. 1 \in Int /\ N \in Int
    BY LenProperties
<1>2. IsFiniteSet(S)
    <2> HIDE DEF N
    <2>1. QED BY ONLY <1>1, FS_Interval, Zenon DEF S
<1>3. \A k \in S : f[k] \in S
    BY UpToInList
<1>4. \A i, j \in S : f[i] = f[j] => i = j
    BY UpToDiffers
<1> HIDE DEF f, S
<1>5. f \in [S -> S]
    BY <1>3 DEF f
<1>6. f \in Injection(S, S)
    BY <1>4, <1>5 DEF Injection, IsInjective
<1>7. f \in Surjection(S, S)
    BY <1>2, <1>6, FS_Injection
<1>8. PICK k \in S : f[k] = r
    BY <1>7 DEF Surjection, S
<1>9. QED BY <1>8 DEF f, S

LEMMA SortedHas ==
    ASSUME NEW list \in Seq(Entries)
    PROVE  /\ Sorted(list) \in Seq(Entries) /\ Len(Sorted(list)) = Len(list)
           /\ \A r \in 1 .. Len(list) : \E k \in 1 .. Len(list) :
                 Cardinality(UpTo(list, k)) = r /\ Sorted(list)[r] = list[k]
<1> DEFINE at(r) == CHOOSE k \in 1 .. Len(list) : Cardinality(UpTo(list, k)) = r
           sorted == [r \in 1 .. Len(list) |-> list[at(r)]]
<1>1. Len(list) \in Nat /\ \A k \in 1 .. Len(list) : list[k] \in Entries
    BY LenProperties, ElementOfSeq
<1>2. \A r \in 1 .. Len(list) : at(r) \in 1 .. Len(list) /\ Cardinality(UpTo(list, at(r))) = r
    BY EveryRank
<1>3. Sorted(list) = sorted
    BY DEF Sorted
<1> HIDE DEF at
<1>4. sorted \in [1 .. Len(list) -> Entries] /\ \A r \in 1 .. Len(list) : sorted[r] = list[at(r)]
    BY <1>1, <1>2
<1> HIDE DEF sorted
<1>5. sorted \in Seq(Entries) /\ Len(sorted) = Len(list)
    BY <1>1, <1>4
<1>6. QED BY <1>2, <1>3, <1>4, <1>5

SameEntries ==
    \A i \in 1 .. Len(symtable.list) : \E j \in 1 .. Len(symtable'.list) :
        symtable'.list[j] = symtable.list[i]
LEMMA SortedGood ==
    ASSUME GoodTable, symtable' = [symtable EXCEPT !.list = Sorted(@)]
    PROVE  GoodTable' /\ SameEntries
<1>1. PICK n \in Nat \ {0} : TableParts(n)
    BY TableHas
<1> DEFINE L == symtable.list
           C == symtable.chains
           sorted == Sorted(L)
<1>2. /\ symtable = [list |-> L, chains |-> C] /\ L \in Seq(Entries) /\ Len(L) \in Nat
      /\ C \in Chains(n)
    BY <1>1 DEF TableParts
<1>3. /\ sorted \in Seq(Entries) /\ Len(sorted) = Len(L)
      /\ \A r \in 1 .. Len(L) : \E k \in 1 .. Len(L) :
            Cardinality(UpTo(L, k)) = r /\ sorted[r] = L[k]
    BY <1>2, SortedHas
<1>4. symtable' = [list |-> sorted, chains |-> C]
    BY <1>2
<1> HIDE DEF sorted
<1>5. symtable'.list = sorted /\ symtable'.chains = C
    BY <1>4
<1>6. SameBuckets
    BY <1>5, BucketsStay
<1>7. Chained(symtable)'
    <2> SUFFICES ASSUME NEW i \in 1 .. Len(symtable'.list),
                        NEW nm, nm = symtable'.list[i].name
                 PROVE  Exists(symtable, nm)'
        BY DEF Chained, Exists, Bucket, Buckets
    <2>1. i \in 1 .. Len(L) /\ nm = sorted[i].name
        BY <1>3, <1>5
    <2>2. PICK k \in 1 .. Len(L) : sorted[i] = L[k]
        BY <1>3, <2>1
    <2>3. Exists(symtable, nm)
        BY <2>1, <2>2 DEF GoodTable, Chained
    <2>4. QED BY <1>5, <1>6, <2>3 DEF Exists, SameBuckets
<1>8. Distinct(sorted)
    <2> SUFFICES ASSUME NEW i \in 1 .. Len(L), NEW j \in 1 .. Len(L),
                        sorted[i].name = sorted[j].name
                 PROVE  i = j
        BY <1>3 DEF Distinct
    <2>1. PICK k \in 1 .. Len(L) : Cardinality(UpTo(L, k)) = i /\ sorted[i] = L[k]
        BY <1>3
    <2>2. PICK m \in 1 .. Len(L) : Cardinality(UpTo(L, m)) = j /\ sorted[j] = L[m]
        BY <1>3
    <2>3. k = m
        BY <2>1, <2>2 DEF GoodTable, Distinct
    <2>4. QED BY <2>1, <2>2, <2>3
<1>9. symtable' \in Tables(n)
    <2> DEFINE S == Seq(Entries)
    <2>1. sorted \in S
        BY <1>3
    <2> HIDE DEF S
    <2>2. symtable' \in [list : S, chains : Chains(n)]
        BY <1>2, <1>4, <2>1
    <2>3. QED BY <2>2 DEF Tables, S
<1>10. GoodTable'
    BY <1>5, <1>7, <1>8, <1>9 DEF GoodTable
<1>11. SameEntries
    <2> SUFFICES ASSUME NEW i \in 1 .. Len(L)
                 PROVE  \E j \in 1 .. Len(sorted) : sorted[j] = L[i]
        BY <1>5 DEF SameEntries
    <2> DEFINE r == Cardinality(UpTo(L, i))
    <2>1. r \in 1 .. Len(L)
        BY <1>2, UpToInList
    <2>2. PICK k \in 1 .. Len(L) : Cardinality(UpTo(L, k)) = r /\ sorted[r] = L[k]
        BY <1>3, <2>1
    <2>3. k = i
        BY <1>2, <2>2, UpToDiffers
    <2>4. QED BY <1>3, <2>1, <2>2, <2>3
<1>12. QED BY <1>10, <1>11

(* With the names distinct a symbol that has an entry is found there.       *)
LEMMA FoundThere ==
    ASSUME NEW tab, Distinct(tab.list), NEW i \in 1 .. Len(tab.list)
    PROVE  Found(tab, tab.list[i].name) = i
<1> DEFINE name == tab.list[i].name
<1>1. \A k \in 1 .. Len(tab.list) : tab.list[k].name = name <=> k = i
    BY DEF Distinct
<1>2. (CHOOSE k \in 1 .. Len(tab.list) : tab.list[k].name = name) = i
    BY <1>1
<1>3. QED BY <1>2 DEF Found

-----------------------------------------------------------------------------
(* What a line does to the symbols in the first pass, if it counts no error.*)

NewName == Expanded(<< Arg(1).sym >>)
HereNow == IF currentSegment = "CODESEG" THEN instructionCount ELSE Used(currentSegment)
Defines ==
    /\ line.word \in Definers /\ ~ Exists(symtable, NewName)
    /\ \E value \in {HereNow, instructionCount, Num(2)} :
          /\ symtable' = Added(symtable, NewName, value)
          /\ line.word = "LABEL" => value = HereNow
    /\ currentSegment' = currentSegment
    /\ line.word = "LABEL" => UNCHANGED << segment, instructionCount >>
Moves ==
    /\ line.word \notin Definers /\ Home(line) \in {"DATASEG", "LITSEG"}
    /\ currentSegment # Home(line) /\ currentSegment' = Home(line)
    /\ MoveLast(Home(line), Used(Home(line)))
Keeps ==
    /\ line.word \notin Definers /\ symtable' = symtable
    /\ line.word \in Places => currentSegment' = currentSegment

LEMMA DefinersApart ==
    /\ Definers \cap Places = {} /\ Definers \cap Silent = {}
    /\ Definers \cap DOMAIN SegmentWords = {} /\ Places \cap Silent = {}
    /\ Places \cap DOMAIN SegmentWords = {} /\ Definers \cap DOMAIN sourceOps = {}
<1>1. Definers \cap DOMAIN sourceOps = {}
    BY OperationsAssumption DEF Definers
<1>2. Silent \cap DOMAIN sourceOps = {} /\ DOMAIN SegmentWords \cap DOMAIN sourceOps = {}
    BY OperationsAssumption
<1>3. QED BY <1>1, <1>2, SegmentWordsDomain DEF Definers, Places, Silent

LEMMA NoneUndefined ==
    ASSUME passNumber = 0, NEW t
    PROVE  ~ Undefined(t)
    BY DEF Undefined

LEMMA SymbolsOfStatements ==
    ASSUME passNumber = 0,
           CALL \/ ARG \/ RET \/ pop \/ ADDRF \/ ADDRL \/ endproc \/ align \/ skip
    PROVE  Keeps
<1>1. \A words : At(words) => line.word \in words
    BY DEF At
<1>2. \A t, n : LookupEffects(t, n) => symtable' = symtable
    BY NoneUndefined DEF LookupEffects
<1>3. line.word \in {"CALL", "ARG", "RET", "pop", "ADDRF", "ADDRL", "endproc", "align", "skip"}
    BY <1>1 DEF CALL, ARG, RET, pop, ADDRF, ADDRL, endproc, align, skip
<1>4. symtable' = symtable /\ currentSegment' = currentSegment
    <2>1. CASE CALL \/ RET \/ pop \/ endproc \/ align \/ skip
        BY <2>1 DEF CALL, RET, pop, endproc, align, skip, symbolState
    <2>2. CASE ARG
        BY <2>2 DEF ARG
    <2>3. CASE ADDRF \/ ADDRL
        BY <1>2, <2>3 DEF ADDRF, ADDRL
    <2>4. QED BY <2>1, <2>2, <2>3
<1>5. QED BY <1>3, <1>4 DEF Keeps, Definers

LEMMA SymbolsOfWords ==
    ASSUME passNumber = 0,
           SegmentStatement \/ Ignored \/ OpIgnored \/ BadExtension \/ Op \/ UnknownToken
    PROVE  Keeps
<1>1. \A words : At(words) => line.word \in words
    BY DEF At
<1>2. \A t, n : LookupEffects(t, n) => symtable' = symtable
    BY NoneUndefined DEF LookupEffects
<1>3. CASE SegmentStatement
    BY <1>1, <1>3, DefinersApart DEF SegmentStatement, Keeps
<1>4. CASE Ignored
    BY <1>1, <1>4, DefinersApart DEF Ignored, Keeps, symbolState
<1>5. CASE OpIgnored \/ BadExtension
    BY <1>1, <1>5, DefinersApart DEF OpIgnored, BadExtension, Keeps, symbolState
<1>6. CASE Op
    BY <1>1, <1>2, <1>6, DefinersApart DEF Op, Keeps
<1>7. CASE UnknownToken
    <2>1. line.word \notin Statements /\ UNCHANGED << symtable, currentSegment >>
        BY <1>7 DEF UnknownToken
    <2>2. QED BY <2>1 DEF Statements, Keeps, Definers
<1>8. QED BY <1>3, <1>4, <1>5, <1>6, <1>7

LEMMA SymbolsOfDefiners ==
    ASSUME passNumber = 0, errorCount \in Nat, errorCount' = errorCount,
           LABEL \/ equ \/ proc
    PROVE  Defines
<1>1. \A words : At(words) => line.word \in words
    BY DEF At
<1>2. \A name, v : DefineSymbol(name, v) =>
         ~ Exists(symtable, Expanded(name)) /\ symtable' = Added(symtable, Expanded(name), v)
    BY DEF DefineSymbol
<1>3. CASE LABEL
    <2>1. line.word = "LABEL" /\ UNCHANGED << currentSegment, segment, instructionCount >>
          /\ DefineSymbol(<< Arg(1).sym >>, HereNow)
        BY <1>1, <1>3 DEF LABEL, HereNow
    <2>2. QED BY <1>2, <2>1 DEF Defines, Definers, NewName
<1>4. CASE equ
    <2>1. line.word = "equ" /\ UNCHANGED currentSegment
          /\ DefineSymbol(<< Arg(1).sym >>, Num(2))
        BY <1>1, <1>4 DEF equ
    <2>2. QED BY <1>2, <2>1 DEF Defines, Definers, NewName
<1>5. CASE proc
    <2> DEFINE clashes == passNumber = 0 /\ Exists(symtable, NewName)
               size == 8 + frame'.locals + frame'.args
    <2>1. /\ line.word = "proc" /\ UNCHANGED currentSegment
          /\ symtable' = IF passNumber = 1 \/ clashes THEN symtable
                         ELSE Added(symtable, NewName, instructionCount)
          /\ errorCount' = errorCount + (IF clashes THEN 1 ELSE 0)
                                      + (IF size >= FrameLimit THEN 1 ELSE 0)
        BY <1>1, <1>5 DEF proc, NewName
    <2> HIDE DEF size
    <2>2. ~ clashes
        BY <2>1
    <2>3. symtable' = Added(symtable, NewName, instructionCount)
        BY <2>1, <2>2
    <2>4. QED BY <2>1, <2>2, <2>3 DEF Defines, Definers
<1>6. QED BY <1>3, <1>4, <1>5

LEMMA SymbolsOfHack ==
    ASSUME passNumber = 0, HackToSegment(Home(line)), Home(line) \in {"DATASEG", "LITSEG"},
           line.word \notin Definers
    PROVE  Moves \/ Keeps
<1>1. CASE currentSegment = Home(line)
    BY <1>1 DEF HackToSegment, Keeps
<1>2. CASE currentSegment # Home(line)
    BY <1>2 DEF HackToSegment, Moves, MoveLast
<1>3. QED BY <1>1, <1>2

LEMMA SymbolsOfData ==
    ASSUME passNumber = 0, address \/ byte
    PROVE  Moves \/ Keeps
<1>1. \A words : At(words) => line.word \in words
    BY DEF At
<1>2. CASE address
    <2>1. line.word = "address" /\ HackToSegment("DATASEG")
        BY <1>1, <1>2, NoneUndefined DEF address
    <2>2. Home(line) = "DATASEG" /\ line.word \notin Definers
        BY <2>1 DEF Home, Definers
    <2>3. QED BY <2>1, <2>2, SymbolsOfHack
<1>3. CASE byte
    <2> DEFINE v == Num(1)
               s == CASE v = 1 -> "LITSEG" [] v = 4 -> "DATASEG" [] OTHER -> currentSegment
    <2>1. line.word = "byte"
          /\ IF v \in {1, 4} THEN HackToSegment(s) ELSE UNCHANGED << currentSegment, symtable >>
        BY <1>1, <1>3 DEF byte
    <2>2. line.word \notin Definers
        BY <2>1 DEF Definers
    <2>3. CASE v \notin {1, 4}
        BY <2>1, <2>2, <2>3 DEF Keeps
    <2>4. CASE v \in {1, 4}
        <3>1. ~ (1 <= Len(line.args)) => v = 0
            <4>1. ToWord(0) = 0
                BY SmallWords, ToWordFacts
            <4>2. QED BY <4>1 DEF Num, Arg, Number
        <3>2. 1 <= Len(line.args) => line.args # << >> /\ v = ToWord(line.args[1].n)
            BY EmptySeq DEF Num, Arg
        <3>3. line.args # << >> /\ v = ToWord(line.args[1].n)
            BY <2>4, <3>1, <3>2
        <3> HIDE DEF v
        <3>4. Home(line) = s /\ s \in {"DATASEG", "LITSEG"}
            BY <2>1, <2>4, <3>3 DEF Home
        <3>5. QED BY <2>1, <2>2, <2>4, <3>4, SymbolsOfHack
    <2>5. QED BY <2>3, <2>4
<1>4. QED BY <1>2, <1>3

LEMMA ErrorsNeverLost ==
    ASSUME errorCount \in Nat, AssembleLine
    PROVE  ErrorsKept
<1>1. \A t : LookupEffects(t, 0) => ErrorsKept
    BY LookupErrors
<1>2. errorCount' = errorCount => ErrorsKept
    BY DEF ErrorsKept
<1>3. errorCount' = errorCount + 1 => ErrorsKept
    BY DEF ErrorsKept
<1>4. CASE CALL \/ RET \/ pop \/ endproc \/ align \/ skip \/ SegmentStatement \/ Ignored
    BY <1>2, <1>4 DEF CALL, RET, pop, endproc, align, skip, SegmentStatement, Ignored, symbolState
<1>5. CASE ARG \/ BadExtension \/ UnknownToken \/ OpIgnored
    BY <1>2, <1>3, <1>5 DEF ARG, BadExtension, UnknownToken, OpIgnored, symbolState
<1>6. CASE ADDRF \/ ADDRL
    BY <1>1, <1>6 DEF ADDRF, ADDRL
<1>7. CASE LABEL \/ equ
    BY <1>7, DefineErrors DEF LABEL, equ
<1>8. CASE proc
    <2>1. \E m \in {0, 1}, n \in {0, 1} : errorCount' = errorCount + m + n
        BY <1>8 DEF proc
    <2>2. QED BY <2>1 DEF ErrorsKept
<1>9. CASE address
    BY <1>1, <1>2, <1>9 DEF address
<1>10. CASE byte
    BY <1>2, <1>3, <1>10 DEF byte
<1>11. CASE Op
    <2>1. \E refused \in {0, 1} : errorCount' = errorCount + refused
                                  \/ LookupEffects(Arg(IF IsExtension THEN 2 ELSE 1), refused)
        BY <1>11 DEF Op
    <2>2. QED BY <1>2, <1>3, <2>1, LookupErrors
<1>12. CASE LineTooLong
    BY <1>12 DEF LineTooLong, ErrorsKept
<1>13. QED BY <1>4, <1>5, <1>6, <1>7, <1>8, <1>9, <1>10, <1>11, <1>12 DEF AssembleLine

LEMMA SymbolStep ==
    ASSUME passNumber = 0, errorCount \in Nat, errorCount' = 0, AssembleLine
    PROVE  Defines \/ Moves \/ Keeps
<1>1. errorCount' = errorCount
    BY ErrorsNeverLost DEF ErrorsKept
<1>2. ~ LineTooLong
    BY DEF LineTooLong
<1>3. QED BY <1>1, <1>2, SymbolsOfStatements, SymbolsOfWords, SymbolsOfDefiners, SymbolsOfData
         DEF AssembleLine

(* In the second pass nothing is added, if it counts no error.              *)
LEMMA SecondPassStep ==
    ASSUME passNumber = 1, errorCount \in Nat, errorCount' = 0, AssembleLine
    PROVE  symtable' = symtable
<1>1. errorCount = 0
    BY ErrorsNeverLost DEF ErrorsKept
<1>2. \A t : \A n \in Nat : LookupEffects(t, n) => symtable' = symtable
    BY <1>1 DEF LookupEffects
<1>3. CASE CALL \/ RET \/ pop \/ endproc \/ align \/ skip \/ SegmentStatement \/ Ignored
    BY <1>3 DEF CALL, RET, pop, endproc, align, skip, SegmentStatement, Ignored, symbolState
<1>4. CASE ARG \/ BadExtension \/ UnknownToken \/ OpIgnored \/ LineTooLong
    BY <1>4 DEF ARG, BadExtension, UnknownToken, OpIgnored, symbolState, LineTooLong
<1>5. CASE ADDRF \/ ADDRL
    BY <1>2, <1>5 DEF ADDRF, ADDRL
<1>6. CASE LABEL \/ equ
    BY <1>6 DEF LABEL, equ, DefineSymbol
<1>7. CASE proc
    BY <1>7 DEF proc
<1>8. \A s : HackToSegment(s) => symtable' = symtable
    BY DEF HackToSegment
<1>9. CASE address
    BY <1>2, <1>8, <1>9 DEF address
<1>10. CASE byte
    BY <1>8, <1>10 DEF byte
<1>11. CASE Op
    BY <1>2, <1>11 DEF Op
<1>12. QED BY <1>3, <1>4, <1>5, <1>6, <1>7, <1>9, <1>10, <1>11 DEF AssembleLine

-----------------------------------------------------------------------------
(* Where the data of a label goes.                                          *)

LEMMA HomeCurrent ==
    ASSUME NEW l \in LineType, NEW c
    PROVE  /\ CurrentAfter(c, l) = IF l.word \in DOMAIN SegmentWords THEN SegmentWords[l.word]
                                   ELSE IF Home(l) # "none" THEN Home(l) ELSE c
           /\ Home(l) # "none" => /\ l.word \notin DOMAIN SegmentWords \cup Silent \cup Definers
                                  /\ Home(l) \in {"DATASEG", "LITSEG"}
<1>1. CASE l.word = "address"
    BY <1>1, SegmentWordsDomain DEF CurrentAfter, Home, Silent, Definers
<1>2. CASE l.word = "byte"
    <2>1. l.word \notin DOMAIN SegmentWords \cup Silent \cup Definers
        BY <1>2, SegmentWordsDomain DEF Silent, Definers
    <2>2. CASE l.args = << >>
        <3>1. NumOf(l, 1) = 0
            <4>1. ToWord(0) = 0
                BY SmallWords, ToWordFacts
            <4>2. ~ (1 <= Len(l.args))
                BY <2>2, EmptySeq
            <4>3. QED BY <4>1, <4>2 DEF NumOf, ArgOf, Number
        <3>2. QED BY <1>2, <2>1, <2>2, <3>1 DEF CurrentAfter, Home
    <2>3. CASE l.args # << >>
        <3>1. l.args \in Seq([sym : STRING, n : Int])
            BY DEF LineType
        <3>2. 1 <= Len(l.args)
            BY <2>3, <3>1, EmptySeq, LenProperties
        <3>3. NumOf(l, 1) = ToWord(l.args[1].n)
            BY <3>2 DEF NumOf, ArgOf
        <3>4. QED BY <1>2, <2>1, <2>3, <3>3 DEF CurrentAfter, Home
    <2>4. QED BY <2>2, <2>3
<1>3. CASE l.word \notin {"address", "byte"}
    BY <1>3 DEF CurrentAfter, Home
<1>4. QED BY <1>1, <1>2, <1>3

NamedSegment ==
    currentSegment \in Sized \/ Silence(asmFileNames, currentFileIndex, currentFileLine)

(* Behind definer i, up to line l, there is data for segment h and no other.*)
HomeAt(file, i, l, h) ==
    /\ file[i].word \in Definers /\ h # "none" /\ Home(file[i + 1]) = h
    /\ \A j \in i + 1 .. l : /\ file[j].word \notin Definers \cup DOMAIN SegmentWords
                             /\ Home(file[j]) \in {"none", h}
HomeKept ==
    \A i \in 1 .. currentFileLine - 1, h \in {"DATASEG", "LITSEG"} :
        HomeAt(Lines, i, currentFileLine, h) => currentSegment = h
Placed == NamedSegment /\ HomeKept /\ Base("CODESEG") = 0

LEMMA PlacedLine ==
    ASSUME Assembling, Placed, AssembleLine, ~ LineTooLong, phase' # "exited"
    PROVE  Placed'
<1> DEFINE f == currentFileIndex
           l == currentFileLine
           names == asmFileNames
<1>1. GoodNames(names) /\ f \in Nat /\ f < Len(names) /\ l \in Nat /\ Lines = File(names, f)
    BY LinesAre DEF Assembling
<1>2. /\ currentFileLine' = l + 1 /\ UNCHANGED << asmFileNames, currentFileIndex >>
    BY LineMoves
<1>3. line = File(names, f)[l + 1] /\ l < Len(File(names, f)) /\ Advanced
    BY LineAdvances
<1>4. line \in LineType
    BY <1>1, <1>3, LineFacts
<1>5. currentSegment' = CurrentAfter(currentSegment, line)
    BY <1>3 DEF Advanced, Now, After
<1>6. /\ currentSegment' = IF line.word \in DOMAIN SegmentWords THEN SegmentWords[line.word]
                           ELSE IF Home(line) # "none" THEN Home(line) ELSE currentSegment
      /\ Home(line) # "none" => /\ line.word \notin Silent
                                /\ Home(line) \in {"DATASEG", "LITSEG"}
    BY <1>4, <1>5, HomeCurrent
<1>7. NamedSegment'
    <2>1. CASE line.word \in DOMAIN SegmentWords
        <3>1. currentSegment' \in Sized
            BY <1>6, <2>1, SegmentWordsDomain DEF Sized
        <3>2. QED BY <3>1 DEF NamedSegment
    <2>2. CASE Home(line) # "none" /\ line.word \notin DOMAIN SegmentWords
        BY <1>6, <2>2 DEF NamedSegment, Sized
    <2>3. CASE Home(line) = "none" /\ line.word \notin DOMAIN SegmentWords
        <3>1. currentSegment' = currentSegment
            BY <1>6, <2>3
        <3>2. CASE currentSegment \in Sized
            BY <3>1, <3>2 DEF NamedSegment
        <3>3. CASE Silence(names, f, l)
            <4>1. f = 0 /\ \A j \in 1 .. l : File(names, 0)[j].word \in Silent
                BY <3>3 DEF Silence
            <4>2. line.word \in Silent
                BY <1>1, <1>3, <2>3, <3>3, <4>1, SilenceEnds
            <4>3. \A j \in 1 .. l + 1 : j \in 1 .. l \/ j = l + 1
                BY <1>1
            <4>4. Silence(names, f, l + 1)
                BY <1>3, <4>1, <4>2, <4>3 DEF Silence
            <4>5. QED BY <1>2, <4>4 DEF NamedSegment
        <3>4. QED BY <3>2, <3>3 DEF Placed, NamedSegment
    <2>4. QED BY <2>1, <2>2, <2>3
<1>8. HomeKept'
    <2>1. Lines' = Lines
        BY <1>2 DEF Lines
    <2> SUFFICES ASSUME NEW i \in 1 .. l, NEW h \in {"DATASEG", "LITSEG"},
                        HomeAt(Lines, i, l + 1, h)
                 PROVE  currentSegment' = h
        BY <1>1, <1>2, <2>1 DEF HomeKept
    <2>2. /\ Lines[i].word \in Definers /\ Home(Lines[i + 1]) = h
          /\ \A j \in i + 1 .. l + 1 : /\ Lines[j].word \notin Definers \cup DOMAIN SegmentWords
                                       /\ Home(Lines[j]) \in {"none", h}
        BY DEF HomeAt
    <2>3. line.word \notin DOMAIN SegmentWords /\ Home(line) \in {"none", h}
        BY <1>1, <1>3, <2>2
    <2>4. CASE i = l
        BY <1>1, <1>3, <1>6, <2>2, <2>3, <2>4
    <2>5. CASE i # l
        <3>1. i \in 1 .. l - 1 /\ \A j \in i + 1 .. l : j \in i + 1 .. l + 1
            BY <1>1, <2>5
        <3>2. HomeAt(Lines, i, l, h)
            BY <2>2, <3>1 DEF HomeAt
        <3>3. currentSegment = h
            BY <3>1, <3>2 DEF Placed, HomeKept
        <3>4. QED BY <1>6, <2>3, <3>3
    <2>6. QED BY <2>4, <2>5
<1>9. Base("CODESEG")' = 0
    BY <1>3 DEF Advanced, Placed, Segments
<1>10. QED BY <1>7, <1>8, <1>9 DEF Placed

LEMMA PlacedFile ==
    ASSUME Assembling, Placed, NextFile
    PROVE  Placed'
<1>1. /\ currentFileIndex' = currentFileIndex + 1 /\ currentFileLine' = 0
      /\ UNCHANGED << asmFileNames, segment, currentSegment >>
      /\ currentFileLine = Len(File(asmFileNames, currentFileIndex))
      /\ GoodNames(asmFileNames)
    BY LinesAre DEF NextFile, EndOfFile, commandLine, symbolState, Assembling
<1>2. ~ Silence(asmFileNames, currentFileIndex, currentFileLine)
    BY <1>1, SilenceEnds DEF Silence
<1>3. NamedSegment'
    BY <1>1, <1>2 DEF NamedSegment, Placed
<1>4. HomeKept'
    BY <1>1 DEF HomeKept
<1>5. QED BY <1>1, <1>3, <1>4 DEF Placed, Base

LEMMA PlacedPass ==
    ASSUME BeginPass
    PROVE  Placed'
<1>1. currentFileIndex' = 0 /\ currentFileLine' = 0
    BY DEF BeginPass
<1>2. NamedSegment'
    BY <1>1 DEF NamedSegment, Silence
<1>3. HomeKept'
    BY <1>1 DEF HomeKept
<1>4. Base("CODESEG")' = 0
    BY DEF BeginPass, Base, Segments
<1>5. QED BY <1>2, <1>3, <1>4 DEF Placed

(* So a label is moved by the line behind it only.                          *)
LEMMA MovesAtOnce ==
    ASSUME Unmixed, Assembling, Placed, HasLine, Moves
    PROVE  currentFileLine > 0 /\ Lines[currentFileLine].word \in Definers
<1> DEFINE l == currentFileLine
           file == Lines
           h == Home(line)
<1>1. /\ l \in Nat /\ l < Len(file) /\ asmFileNames[currentFileIndex + 1] \in DOMAIN AsmFiles
      /\ Len(file) \in Nat
    BY FileFacts, LinesAre DEF Assembling, HasLine
<1>2. h \in {"DATASEG", "LITSEG"} /\ currentSegment # h
    BY DEF Moves
<1>3. l + 1 \in 1 .. Len(file) /\ line = file[l + 1] /\ (l + 1) - 1 = l
    BY <1>1 DEF line
<1>4. file = AsmFiles[asmFileNames[currentFileIndex + 1]]
    BY DEF Lines
<1> HIDE DEF file
<1>5. PICK i \in 1 .. l :
         /\ file[i].word \in Definers /\ Home(file[i + 1]) = h
         /\ \A j \in i + 1 .. l + 1 : /\ file[j].word \notin Definers \cup DOMAIN SegmentWords
                                      /\ Home(file[j]) \in {"none", h}
    BY <1>1, <1>2, <1>3, <1>4 DEF Unmixed
<1>6. CASE i = l
    BY <1>1, <1>5, <1>6 DEF file
<1>7. CASE i # l
    <2>1. i \in 1 .. l - 1 /\ \A j \in i + 1 .. l : j \in i + 1 .. l + 1
        BY <1>1, <1>7
    <2>2. HomeAt(file, i, l, h)
        BY <1>2, <1>5, <2>1 DEF HomeAt
    <2>3. currentSegment = h
        BY <1>2, <2>1, <2>2 DEF Placed, HomeKept, file
    <2>4. QED BY <1>2, <2>3
<1>8. QED BY <1>6, <1>7

-----------------------------------------------------------------------------
(* The labels of the first pass.                                            *)

SymbolName(g, sym) == IF sym \in LocalNames THEN LocalName(sym, g) ELSE GlobalName(sym)

(* A label with something behind it that takes a place.                     *)
Marked(names, g, k) ==
    /\ g < Len(names) /\ 0 < k /\ k < Len(File(names, g))
    /\ File(names, g)[k].word = "LABEL" /\ File(names, g)[k + 1].word \in Places

(* The place of the line behind, in a table of the pass.                    *)
IsAt(e, table, names, g, k) ==
    /\ e.name = SymbolName(g, File(names, g)[k].args[1].sym)
    /\ e.segment = table[<< g, k + 1 >>].sizes.current
    /\ e.value = IF e.segment = "CODESEG" THEN table[<< g, k >>].count
                 ELSE table[<< g, k >>].sizes.used[e.segment]

JustDefined == currentFileLine > 0 /\ Lines[currentFileLine].word \in Definers
Behind(g, k) == g < currentFileIndex \/ (g = currentFileIndex /\ k < currentFileLine)
Settled(i)   == i \in 1 .. Len(symtable.list) /\ (JustDefined => i # Len(symtable.list))
LabelsSet(table) ==
    \A g, k \in Nat : (Marked(asmFileNames, g, k) /\ Behind(g, k)) =>
        \E i \in Nat : Settled(i) /\ IsAt(symtable.list[i], table, asmFileNames, g, k)
Fresh ==
    JustDefined =>
        /\ Len(symtable.list) > 0
        /\ Lines[currentFileLine].word = "LABEL" =>
              symtable.list[Len(symtable.list)]
                 = [name    |-> SymbolName(currentFileIndex, Lines[currentFileLine].args[1].sym),
                    segment |-> currentSegment, value |-> HereNow]
AllLabels(table) ==
    \A g, k \in Nat : Marked(asmFileNames, g, k) =>
        \E i \in 1 .. Len(symtable.list) :
            IsAt(symtable.list[i], table, asmFileNames, g, k)

LEMMA ExpandedName ==
    ASSUME NEW sym \in STRING, currentFileIndex \in Nat
    PROVE  /\ Expanded(<< sym >>) = SymbolName(currentFileIndex, sym)
           /\ Expanded(<< sym >>) \in Names
<1>1. << sym >>[1] = sym
    OBVIOUS
<1>2. Expanded(<< sym >>) = SymbolName(currentFileIndex, sym)
    BY <1>1 DEF Expanded, SymbolName, GlobalName, LocalName
<1>3. GlobalName(sym) \in Names /\ LocalName(sym, currentFileIndex) \in Names
    BY DEF Names
<1>4. SymbolName(currentFileIndex, sym) \in Names
    BY <1>3 DEF SymbolName
<1>5. QED BY <1>2, <1>4

(* What defines a symbol has its name.                                      *)
LEMMA DefinerHasName ==
    ASSUME NEW names, GoodNames(names), NEW g \in Nat, g < Len(names),
           NEW k \in Nat, k < Len(File(names, g)), File(names, g)[k + 1].word \in Definers
    PROVE  /\ File(names, g)[k + 1].args[1] = ArgOf(File(names, g)[k + 1], 1)
           /\ File(names, g)[k + 1].args[1].sym \in STRING
<1> DEFINE file == File(names, g)
           args == file[k + 1].args
           Token == [sym : STRING, n : Int]
<1>1. /\ names[g + 1] \in DOMAIN AsmFiles /\ Len(file) \in Nat /\ file = AsmFiles[names[g + 1]]
      /\ file[k + 1] \in LineType
    BY FileFacts, LineFacts DEF File
<1>2. k + 1 \in 1 .. Len(file)
    BY <1>1
<1> HIDE DEF file
<1>3. Len(args) > 0
    BY <1>1, <1>2, LinesAssumption DEF file
<1>4. args \in Seq(Token)
    BY <1>1 DEF LineType
<1> HIDE DEF args, Token
<1>5. 1 <= Len(args) /\ 1 \in 1 .. Len(args)
    BY <1>3, <1>4, LenProperties
<1>6. args[1] = ArgOf(file[k + 1], 1)
    BY <1>5 DEF ArgOf, args
<1>7. args[1] \in Token
    BY <1>4, <1>5, ElementOfSeq
<1>8. QED BY <1>6, <1>7 DEF file, args, Token

(* The line that is assembled, in the shape the lemmas above want it.       *)
Counts == instructionCount \in Int /\ SizesCount
LineReady(table, longer) ==
    /\ Assembling /\ Placed /\ GoodTable /\ Counts
    /\ passNumber = 0 /\ errorCount \in Nat /\ errorCount' = 0
    /\ AssembleLine /\ ~ LineTooLong /\ phase' # "exited"
    /\ Filling(table) /\ LineOn(longer, table) /\ LabelsSet(table) /\ Fresh

LEMMA LineIs ==
    ASSUME Assembling, AssembleLine, ~ LineTooLong, phase' # "exited"
    PROVE  /\ GoodNames(asmFileNames) /\ currentFileIndex \in Nat
           /\ currentFileIndex < Len(asmFileNames) /\ currentFileLine \in Nat
           /\ Lines = File(asmFileNames, currentFileIndex) /\ Lines' = Lines
           /\ line = Lines[currentFileLine + 1] /\ line \in LineType
           /\ currentFileLine < Len(Lines) /\ Len(Lines) \in Nat
           /\ currentFileLine' = currentFileLine + 1
           /\ UNCHANGED << asmFileNames, currentFileIndex, passNumber >>
           /\ HasLine
<1>1. GoodNames(asmFileNames) /\ currentFileIndex \in Nat
      /\ currentFileIndex < Len(asmFileNames) /\ currentFileLine \in Nat
    BY DEF Assembling
<1>2. Lines = File(asmFileNames, currentFileIndex) /\ line = Lines[currentFileLine + 1]
    BY LinesAre DEF line
<1>3. currentFileLine < Len(Lines) /\ HasLine /\ currentFileLine' = currentFileLine + 1
      /\ UNCHANGED << asmFileNames, currentFileIndex, passNumber >>
    BY LineMoves DEF HasLine
<1>4. Lines' = Lines
    BY <1>3 DEF Lines
<1>5. line \in LineType /\ Len(Lines) \in Nat
    BY <1>1, <1>2, <1>3, LineFacts, FileFacts
<1>6. QED BY <1>1, <1>2, <1>3, <1>4, <1>5

LEMMA NotSilentNamed ==
    ASSUME Assembling, Placed, AssembleLine, ~ LineTooLong, phase' # "exited",
           line.word \in Definers \cup Places
    PROVE  /\ currentSegment \in Sized /\ currentSegment' \in Sized
           /\ ~ Silence(asmFileNames, currentFileIndex, currentFileLine)
           /\ ~ Silence(asmFileNames, currentFileIndex, currentFileLine + 1)
<1> DEFINE f == currentFileIndex
           l == currentFileLine
           names == asmFileNames
<1>1. /\ GoodNames(names) /\ f \in Nat /\ l \in Nat /\ Lines = File(names, f)
      /\ line = Lines[l + 1] /\ l < Len(Lines)
      /\ currentFileLine' = l + 1 /\ UNCHANGED << asmFileNames, currentFileIndex >>
    BY LineIs
<1>2. line.word \notin Silent /\ line.word \notin DOMAIN SegmentWords
    BY DefinersApart
<1>3. ~ Silence(names, f, l)
    <2>1. Silence(names, f, l) => f = 0
        BY DEF Silence
    <2>2. QED BY <1>1, <1>2, <2>1, SilenceEnds
<1>4. ~ Silence(names, f, l + 1)
    <2>1. l + 1 \in 1 .. l + 1
        BY <1>1
    <2>2. QED BY <1>1, <1>2, <2>1 DEF Silence
<1>5. Placed'
    BY PlacedLine
<1>6. QED BY <1>1, <1>3, <1>4, <1>5 DEF Placed, NamedSegment

(* The entry of a label agrees with the table behind the line after it.     *)
LEMMA EntryOfLine ==
    ASSUME NEW table, NEW longer, LineReady(table, longer), line.word \in Places,
           currentFileLine > 0, NEW e,
           e.name = SymbolName(currentFileIndex, Lines[currentFileLine].args[1].sym),
           e.segment = currentSegment',
           e.value = IF currentSegment' = "CODESEG" THEN instructionCount
                     ELSE Used(currentSegment')
    PROVE  IsAt(e, longer, asmFileNames, currentFileIndex, currentFileLine)
<1> DEFINE f == currentFileIndex
           l == currentFileLine
<1>1. /\ Assembling /\ Placed /\ AssembleLine /\ ~ LineTooLong /\ phase' # "exited"
      /\ Filling(table) /\ LineOn(longer, table)
    BY DEF LineReady
<1>2. /\ f \in Nat /\ l \in Nat /\ Lines = File(asmFileNames, f)
      /\ currentFileLine' = l + 1 /\ UNCHANGED << asmFileNames, currentFileIndex >>
    BY <1>1, LineIs
<1>3. currentSegment' \in Sized /\ ~ Silence(asmFileNames, f, l + 1)
    BY <1>1, NotSilentNamed
<1>4. longer[<< f, l + 1 >>].sizes.current = currentSegment'
    <2>1. Following(longer)'
        BY <1>1 DEF LineOn, Filling
    <2>2. Follows(Now', longer[<< f, l + 1 >>].sizes, asmFileNames, f, l + 1)
        BY <1>2, <2>1 DEF Following
    <2>3. Now'.current = currentSegment'
        BY DEF Now
    <2>4. QED BY <1>3, <2>2, <2>3 DEF Follows
<1>5. longer[<< f, l >>] = table[<< f, l >>]
    BY <1>1, <1>2 DEF LineOn, Agree
<1>6. /\ instructionCount = table[<< f, l >>].count
      /\ \A s \in Sized : table[<< f, l >>].sizes.used[s] = Used(s)
    <2>1. Following(table)
        BY <1>1 DEF Filling
    <2>2. Now.used = table[<< f, l >>].sizes.used /\ instructionCount = table[<< f, l >>].count
        BY <2>1 DEF Following, Follows
    <2>3. \A s \in Sized : Now.used[s] = Used(s)
        BY DEF Now
    <2>4. QED BY <2>2, <2>3
<1>7. e.value = IF e.segment = "CODESEG" THEN longer[<< f, l >>].count
                ELSE longer[<< f, l >>].sizes.used[e.segment]
    BY <1>3, <1>5, <1>6
<1>8. e.name = SymbolName(f, File(asmFileNames, f)[l].args[1].sym)
    BY <1>2
<1>9. QED BY <1>4, <1>7, <1>8 DEF IsAt

(* An entry that agreed with the table still does.                          *)
LEMMA EntryStays ==
    ASSUME NEW table, NEW longer, LineReady(table, longer), NEW g \in Nat, NEW k \in Nat,
           Behind(g, k), NEW e, IsAt(e, table, asmFileNames, g, k)
    PROVE  IsAt(e, longer, asmFileNames, g, k)
<1> DEFINE f == currentFileIndex
           l == currentFileLine
<1>1. /\ Assembling /\ AssembleLine /\ ~ LineTooLong /\ phase' # "exited"
      /\ Agree(longer, table, f, l + 1)
    BY DEF LineReady, LineOn
<1>2. f \in Nat /\ l \in Nat
    BY <1>1, LineIs
<1>3. << g, k >> # << f, l + 1 >> /\ << g, k + 1 >> # << f, l + 1 >> /\ k + 1 \in Nat
    BY <1>2 DEF Behind
<1>4. longer[<< g, k >>] = table[<< g, k >>] /\ longer[<< g, k + 1 >>] = table[<< g, k + 1 >>]
    BY <1>1, <1>3 DEF Agree
<1>5. QED BY <1>4 DEF IsAt

(* Which labels are set behind the line.                                    *)
LEMMA SetBehind ==
    ASSUME NEW table, NEW longer, LineReady(table, longer),
           \A i \in Nat : Settled(i) => Settled(i)' /\ symtable'.list[i] = symtable.list[i],
           Marked(asmFileNames, currentFileIndex, currentFileLine) =>
               \E i \in Nat : /\ Settled(i)'
                             /\ IsAt(symtable'.list[i], longer, asmFileNames,
                                     currentFileIndex, currentFileLine)
    PROVE  LabelsSet(longer)'
<1> DEFINE f == currentFileIndex
           l == currentFileLine
<1>1. /\ Assembling /\ AssembleLine /\ ~ LineTooLong /\ phase' # "exited" /\ LabelsSet(table)
    BY DEF LineReady
<1>2. f \in Nat /\ l \in Nat /\ currentFileLine' = l + 1
      /\ UNCHANGED << asmFileNames, currentFileIndex >>
    BY <1>1, LineIs
<1>3. \A g, k \in Nat : Behind(g, k)' <=> Behind(g, k) \/ (g = f /\ k = l)
    BY <1>2 DEF Behind
<1> SUFFICES ASSUME NEW g \in Nat, NEW k \in Nat, Marked(asmFileNames, g, k),
                    Behind(g, k) \/ (g = f /\ k = l)
             PROVE  \E i \in Nat : Settled(i)' /\ IsAt(symtable'.list[i], longer,
                                                       asmFileNames, g, k)
    BY <1>2, <1>3 DEF LabelsSet
<1>4. CASE Behind(g, k)
    <2>1. PICK i \in Nat : Settled(i) /\ IsAt(symtable.list[i], table, asmFileNames, g, k)
        BY <1>1, <1>4 DEF LabelsSet
    <2>2. IsAt(symtable.list[i], longer, asmFileNames, g, k)
        BY <1>4, <2>1, EntryStays
    <2>3. QED BY <2>1, <2>2
<1>5. CASE g = f /\ k = l
    BY <1>5
<1>6. QED BY <1>4, <1>5

LEMMA ListLength ==
    ASSUME GoodTable
    PROVE  Len(symtable.list) \in Nat
    BY TableHas DEF TableParts

LEMMA NotBoth == line.word \in Definers => line.word \notin Places
    BY DefinersApart

(* A line that defines a symbol, in the first pass.                         *)
LEMMA LineDefines ==
    ASSUME HashTyped, NEW table, NEW longer, LineReady(table, longer), Defines
    PROVE  GoodTable' /\ LabelsSet(longer)' /\ Fresh'
<1> DEFINE f == currentFileIndex
           l == currentFileLine
           names == asmFileNames
           last == Len(symtable.list) + 1
<1>1. /\ Assembling /\ Placed /\ AssembleLine /\ ~ LineTooLong /\ phase' # "exited"
      /\ GoodTable /\ Counts
    BY DEF LineReady
<1>2. /\ GoodNames(names) /\ f \in Nat /\ f < Len(names) /\ l \in Nat
      /\ Lines = File(names, f) /\ Lines' = Lines /\ line = Lines[l + 1] /\ line \in LineType
      /\ l < Len(Lines) /\ currentFileLine' = l + 1
      /\ UNCHANGED << asmFileNames, currentFileIndex, passNumber >>
    BY <1>1, LineIs
<1>3. /\ line.word \in Definers /\ ~ Exists(symtable, NewName)
      /\ currentSegment' = currentSegment
      /\ line.word = "LABEL" => UNCHANGED << segment, instructionCount >>
    BY DEF Defines
<1>4. PICK value \in {HereNow, instructionCount, Num(2)} :
          /\ symtable' = Added(symtable, NewName, value)
          /\ line.word = "LABEL" => value = HereNow
    BY DEF Defines
<1>5. currentSegment \in Sized
    BY <1>1, <1>3, NotSilentNamed
<1>6. value \in Int
    <2>1. HereNow \in Int /\ instructionCount \in Int
        BY <1>1, <1>5 DEF HereNow, Counts, SizesCount
    <2>2. Num(2) = NumOf(line, 2)
        BY DEF Num, NumOf, Arg, ArgOf
    <2>3. Num(2) \in Int
        BY <1>2, <2>2, LineNumbers
    <2>4. QED BY <1>4, <2>1, <2>3
<1>7. Arg(1) = line.args[1] /\ line.args[1].sym \in STRING
    <2>1. line = File(names, f)[l + 1]
        BY <1>2
    <2>2. line.args[1] = ArgOf(line, 1) /\ line.args[1].sym \in STRING
        BY <1>2, <1>3, <2>1, DefinerHasName
    <2>3. QED BY <2>2 DEF Arg, ArgOf
<1>8. NewName = SymbolName(f, line.args[1].sym) /\ NewName \in Names
    BY <1>2, <1>7, ExpandedName DEF NewName
<1>9. GoodTable' /\ Entered(NewEntry(NewName, value))
    <2>1. currentSegment \in Segments \cup {"none"}
        BY <1>5, SizedSegments
    <2>2. QED BY <1>1, <1>3, <1>4, <1>6, <1>8, <2>1, AddedGood
<1>10. Len(symtable.list) \in Nat
    BY <1>1, ListLength
<1>11. JustDefined'
    BY <1>2, <1>3 DEF JustDefined
<1>12. \A i \in Nat : Settled(i) => Settled(i)' /\ symtable'.list[i] = symtable.list[i]
    BY <1>9, <1>10 DEF Settled, Entered
<1>13. ~ Marked(names, f, l)
    BY <1>2, <1>3, NotBoth DEF Marked
<1>14. LabelsSet(longer)'
    BY <1>12, <1>13, SetBehind
<1>15. Fresh'
    <2>1. Len(symtable'.list) = last /\ last > 0
          /\ symtable'.list[last] = NewEntry(NewName, value)
        BY <1>9, <1>10 DEF Entered
    <2>2. Lines'[currentFileLine'] = line /\ currentFileIndex' = f
        BY <1>2
    <2>3. ASSUME line.word = "LABEL"
          PROVE  symtable'.list[last] = [name |-> SymbolName(f, line.args[1].sym),
                                         segment |-> currentSegment', value |-> HereNow']
        <3>1. HereNow' = HereNow
            BY <1>3, <2>3 DEF HereNow, Used
        <3>2. QED BY <1>3, <1>4, <1>8, <2>1, <2>3, <3>1 DEF NewEntry
    <2>4. QED BY <2>1, <2>2, <2>3 DEF Fresh
<1>16. QED BY <1>9, <1>14, <1>15

(* A line that moves the label behind which it is.                          *)
LEMMA LineMovesLabel ==
    ASSUME Unmixed, NEW table, NEW longer, LineReady(table, longer), Moves
    PROVE  GoodTable' /\ LabelsSet(longer)' /\ Fresh'
<1> DEFINE f == currentFileIndex
           l == currentFileLine
           names == asmFileNames
           last == Len(symtable.list)
           h == Home(line)
<1>1. /\ Assembling /\ Placed /\ AssembleLine /\ ~ LineTooLong /\ phase' # "exited"
      /\ GoodTable /\ Counts /\ Fresh
    BY DEF LineReady
<1>2. /\ GoodNames(names) /\ f \in Nat /\ f < Len(names) /\ l \in Nat
      /\ Lines = File(names, f) /\ Lines' = Lines /\ line = Lines[l + 1] /\ line \in LineType
      /\ l < Len(Lines) /\ currentFileLine' = l + 1 /\ HasLine
      /\ UNCHANGED << asmFileNames, currentFileIndex, passNumber >>
    BY <1>1, LineIs
<1>3. /\ line.word \notin Definers /\ h \in {"DATASEG", "LITSEG"} /\ currentSegment' = h
      /\ MoveLast(h, Used(h))
    BY DEF Moves
<1>4. l > 0 /\ Lines[l].word \in Definers
    BY <1>1, <1>2, MovesAtOnce
<1>5. JustDefined /\ last > 0 /\ last \in Nat
    BY <1>1, <1>4, ListLength DEF JustDefined, Fresh
<1>6. ~ JustDefined'
    BY <1>2, <1>3 DEF JustDefined
<1>7. GoodTable' /\ MovedLast(h, Used(h))
    <2>1. h \in Segments /\ Used(h) \in Int
        BY <1>1, <1>3 DEF Segments, Counts, SizesCount, Sized
    <2> HIDE DEF h
    <2>2. QED BY <1>1, <1>3, <1>5, <2>1, MovedGood
<1>8. \A i \in Nat : Settled(i) => Settled(i)' /\ symtable'.list[i] = symtable.list[i]
    BY <1>5, <1>6, <1>7 DEF Settled, MovedLast
<1>9. ASSUME Marked(names, f, l)
      PROVE  \E i \in Nat : Settled(i)' /\ IsAt(symtable'.list[i], longer, names, f, l)
    <2>1. Lines[l].word = "LABEL" /\ line.word \in Places
        BY <1>2, <1>9 DEF Marked
    <2>2. symtable.list[last].name = SymbolName(f, Lines[l].args[1].sym)
        BY <1>1, <1>5, <2>1 DEF Fresh
    <2> DEFINE e == symtable'.list[last]
    <2>3. e = [name |-> symtable.list[last].name, segment |-> h, value |-> Used(h)]
        BY <1>7 DEF MovedLast
    <2>4. /\ e.name = SymbolName(f, Lines[l].args[1].sym) /\ e.segment = currentSegment'
          /\ e.value = IF currentSegment' = "CODESEG" THEN instructionCount
                       ELSE Used(currentSegment')
        BY <1>3, <2>2, <2>3
    <2> HIDE DEF e
    <2>5. IsAt(e, longer, names, f, l)
        BY <1>4, <2>1, <2>4, EntryOfLine
    <2>6. PICK i \in Nat : i = last
        BY <1>5
    <2>7. Settled(i)'
        BY <1>5, <1>6, <1>7, <2>6 DEF Settled, MovedLast
    <2>8. QED BY <2>5, <2>6, <2>7 DEF e
<1>10. LabelsSet(longer)'
    BY <1>8, <1>9, SetBehind
<1>11. QED BY <1>6, <1>7, <1>10 DEF Fresh

(* And a line that does neither.                                            *)
LEMMA TableKept ==
    ASSUME GoodTable, symtable' = symtable
    PROVE  GoodTable'
    BY DEF GoodTable, Chained, Exists, Bucket, Buckets

LEMMA LineKeeps ==
    ASSUME NEW table, NEW longer, LineReady(table, longer), Keeps
    PROVE  GoodTable' /\ LabelsSet(longer)' /\ Fresh'
<1> DEFINE f == currentFileIndex
           l == currentFileLine
           names == asmFileNames
           last == Len(symtable.list)
<1>1. /\ Assembling /\ Placed /\ AssembleLine /\ ~ LineTooLong /\ phase' # "exited"
      /\ GoodTable /\ Fresh
    BY DEF LineReady
<1>2. /\ f \in Nat /\ l \in Nat /\ Lines = File(names, f) /\ Lines' = Lines
      /\ line = Lines[l + 1] /\ currentFileLine' = l + 1
    BY <1>1, LineIs
<1>3. /\ line.word \notin Definers /\ symtable' = symtable
      /\ line.word \in Places => currentSegment' = currentSegment
    BY DEF Keeps
<1>4. last \in Nat /\ GoodTable'
    BY <1>1, <1>3, ListLength, TableKept
<1>5. ~ JustDefined'
    BY <1>2, <1>3 DEF JustDefined
<1>6. \A i \in Nat : Settled(i) => Settled(i)' /\ symtable'.list[i] = symtable.list[i]
    BY <1>3, <1>5 DEF Settled
<1>7. ASSUME Marked(names, f, l)
      PROVE  \E i \in Nat : Settled(i)' /\ IsAt(symtable'.list[i], longer, names, f, l)
    <2>1. l > 0 /\ Lines[l].word = "LABEL" /\ line.word \in Places
        BY <1>2, <1>7 DEF Marked
    <2>2. JustDefined
        BY <2>1 DEF JustDefined, Definers
    <2> DEFINE e == symtable.list[last]
    <2>3. last > 0 /\ e = [name    |-> SymbolName(f, Lines[l].args[1].sym),
                           segment |-> currentSegment, value |-> HereNow]
        BY <1>1, <2>1, <2>2 DEF Fresh
    <2>4. /\ e.name = SymbolName(f, Lines[l].args[1].sym) /\ e.segment = currentSegment'
          /\ e.value = IF currentSegment' = "CODESEG" THEN instructionCount
                       ELSE Used(currentSegment')
        BY <1>3, <2>1, <2>3 DEF HereNow
    <2> HIDE DEF e
    <2>5. IsAt(e, longer, names, f, l)
        BY <2>1, <2>4, EntryOfLine
    <2>6. Settled(last)'
        BY <1>3, <1>4, <1>5, <2>3 DEF Settled
    <2>7. QED BY <1>3, <1>4, <2>5, <2>6 DEF e
<1>8. LabelsSet(longer)'
    BY <1>6, <1>7, SetBehind
<1>9. QED BY <1>4, <1>5, <1>8 DEF Fresh

LEMMA FirstPassLine ==
    ASSUME HashTyped, Unmixed, NEW table, NEW longer, LineReady(table, longer)
    PROVE  GoodTable' /\ LabelsSet(longer)' /\ Fresh'
<1>1. Defines \/ Moves \/ Keeps
    BY SymbolStep DEF LineReady
<1>2. QED BY <1>1, LineDefines, LineMovesLabel, LineKeeps

-----------------------------------------------------------------------------
(* From file to file, and from the first pass to the second.                *)

LEMMA LabelsFile ==
    ASSUME Assembling, NextFile, NEW table, NEW longer, FileOn(longer, table), LabelsSet(table)
    PROVE  LabelsSet(longer)' /\ Fresh'
<1> DEFINE f == currentFileIndex
           names == asmFileNames
<1>1. f \in Nat /\ currentFileLine = Len(File(names, f)) /\ Agree(longer, table, f + 1, 0)
    BY LinesAre DEF Assembling, NextFile, EndOfFile, FileOn, GoesOn
<1>2. currentFileIndex' = f + 1 /\ currentFileLine' = 0 /\ UNCHANGED << asmFileNames, symtable >>
    BY DEF NextFile, commandLine, symbolState
<1>3. ~ JustDefined'
    BY <1>2 DEF JustDefined
<1> SUFFICES ASSUME NEW g \in Nat, NEW k \in Nat, Marked(names, g, k), Behind(g, k)'
             PROVE  \E i \in Nat : Settled(i)' /\ IsAt(symtable'.list[i], longer, names, g, k)
    BY <1>2, <1>3 DEF LabelsSet, Fresh
<1>4. g <= f /\ Behind(g, k)
    BY <1>1, <1>2 DEF Behind, Marked
<1>5. PICK i \in Nat : Settled(i) /\ IsAt(symtable.list[i], table, names, g, k)
    BY <1>4 DEF LabelsSet
<1>6. << g, k >> # << f + 1, 0 >> /\ << g, k + 1 >> # << f + 1, 0 >> /\ k + 1 \in Nat
    BY <1>1, <1>4
<1>7. longer[<< g, k >>] = table[<< g, k >>] /\ longer[<< g, k + 1 >>] = table[<< g, k + 1 >>]
    BY <1>1, <1>6 DEF Agree
<1>8. Settled(i)'
    BY <1>2, <1>3, <1>5 DEF Settled
<1>9. IsAt(symtable.list[i], longer, names, g, k)
    BY <1>5, <1>7 DEF IsAt
<1>10. QED BY <1>2, <1>8, <1>9

(* The table is sorted by value, and the labels are still in it.            *)
LEMMA LabelsEnd ==
    ASSUME Assembling, EndPass, passNumber = 0, GoodTable, NEW table, LabelsSet(table)
    PROVE  GoodTable' /\ AllLabels(table)'
<1> DEFINE f == currentFileIndex
           names == asmFileNames
<1>1. /\ f \in Nat /\ currentFileLine = Len(File(names, f)) /\ f + 1 = Len(names)
      /\ UNCHANGED asmFileNames /\ symtable' = [symtable EXCEPT !.list = Sorted(@)]
    BY LinesAre DEF Assembling, EndPass, EndOfFile, commandLine
<1>2. GoodTable' /\ SameEntries
    BY <1>1, SortedGood
<1> SUFFICES ASSUME NEW g \in Nat, NEW k \in Nat, Marked(names, g, k)
             PROVE  \E j \in 1 .. Len(symtable'.list) :
                        IsAt(symtable'.list[j], table, names, g, k)
    BY <1>1, <1>2 DEF AllLabels
<1>3. Behind(g, k)
    <2>1. g < f \/ g = f
        BY <1>1 DEF Marked
    <2>2. QED BY <1>1, <2>1 DEF Marked, Behind
<1>4. PICK i \in Nat : Settled(i) /\ IsAt(symtable.list[i], table, names, g, k)
    BY <1>3 DEF LabelsSet
<1>5. PICK j \in 1 .. Len(symtable'.list) : symtable'.list[j] = symtable.list[i]
    BY <1>2, <1>4 DEF SameEntries, Settled
<1>6. QED BY <1>4, <1>5

LEMMA NothingSet ==
    ASSUME currentFileIndex' = 0, currentFileLine' = 0
    PROVE  Fresh' /\ \A table : LabelsSet(table)'
<1>1. Fresh'
    BY DEF Fresh, JustDefined
<1>2. \A g, k \in Nat : ~ Behind(g, k)'
    BY DEF Behind
<1>3. QED BY <1>1, <1>2 DEF LabelsSet

LEMMA AllKept ==
    ASSUME NEW table, AllLabels(table), UNCHANGED << symtable, asmFileNames >>
    PROVE  AllLabels(table)'
    BY DEF AllLabels

-----------------------------------------------------------------------------
(* The invariant.                                                           *)

BucketsGiven ==
    /\ "symtablelen" \in DOMAIN options /\ options.symtablelen \in Nat \ {0}
    /\ \A k \in 1 .. Len(argv) - 1 : argv[k] = "-b" => argv[k + 1] \in DOMAIN Numbers
    /\ symtable = [list |-> << >>, chains |-> << >>]

LabelInv ==
    /\ phase = "options" => BucketsGiven
    /\ phase = "assemble" => Placed
    /\ errorCount = 0 =>
          /\ phase \in {"begin", "assemble"} => GoodTable
          /\ phase = "begin" /\ passNumber = 1 =>
                \E table : WholeWalk(table) /\ SizesOf(LastEntry(table)) /\ AllLabels(table)
          /\ phase = "assemble" /\ passNumber = 0 =>
                Fresh /\ \E table : Filling(table) /\ LabelsSet(table)
          /\ phase = "assemble" /\ passNumber = 1 =>
                \E table : Retracing(table) /\ AllLabels(table)

LEMMA InitLabels == Init => LabelInv
<1> SUFFICES ASSUME Init PROVE LabelInv
    OBVIOUS
<1>1. phase = "options" /\ argv \in CommandLines
      /\ options = [outputFilename |-> "q3asm", symtablelen |-> DefaultBuckets,
                    writeMapFile |-> FALSE]
      /\ symtable = [list |-> << >>, chains |-> << >>]
    BY DEF Init
<1>2. BucketsGiven
    BY <1>1, BucketsAssumption DEF BucketsGiven
<1>3. QED BY <1>1, <1>2 DEF LabelInv

LEMMA TailsOf ==
    ASSUME NEW S, NEW s \in Seq(S), s # << >>
    PROVE  /\ Head(s) = s[1] /\ Len(s) \in Nat /\ Len(s) > 0
           /\ Tail(s) \in Seq(S) /\ Len(Tail(s)) = Len(s) - 1
           /\ \A k \in 1 .. Len(s) - 1 : Tail(s)[k] = s[k + 1]
    OBVIOUS

Given(a) == \A k \in 1 .. Len(a) - 1 : a[k] = "-b" => a[k + 1] \in DOMAIN Numbers
LEMMA GivenTail ==
    ASSUME NEW s \in Seq(STRING), s # << >>, Given(s)
    PROVE  Given(Tail(s)) /\ Tail(s) \in Seq(STRING)
<1> DEFINE t == Tail(s)
<1>1. t \in Seq(STRING) /\ Len(t) = Len(s) - 1 /\ Len(s) \in Nat
      /\ \A k \in 1 .. Len(s) - 1 : t[k] = s[k + 1]
    BY TailsOf
<1> HIDE DEF t
<1> SUFFICES ASSUME NEW k \in 1 .. Len(t) - 1, t[k] = "-b"
             PROVE  t[k + 1] \in DOMAIN Numbers
    BY <1>1 DEF Given, t
<1>2. k + 1 \in 1 .. Len(s) - 1 /\ t[k] = s[k + 1] /\ t[k + 1] = s[(k + 1) + 1]
    BY <1>1
<1>3. QED BY <1>2 DEF Given

LEMMA OptionLabels ==
    ASSUME PassInv, LabelInv, Option
    PROVE  LabelInv'
<1>1. phase = "options" /\ argv # << >> /\ argv \in Seq(STRING) /\ BucketsGiven
    BY DEF PassInv, NamesTyped, Option, LabelInv
<1>2. /\ "symtablelen" \in DOMAIN options /\ options.symtablelen \in Nat \ {0} /\ Given(argv)
      /\ symtable = [list |-> << >>, chains |-> << >>]
    BY <1>1 DEF BucketsGiven, Given
<1>3. Given(Tail(argv)) /\ Head(argv) = argv[1] /\ Tail(argv) \in Seq(STRING)
      /\ Len(Tail(argv)) = Len(argv) - 1 /\ Len(argv) \in Nat
    BY <1>1, <1>2, GivenTail, TailsOf
<1>4. Len(argv) > 1 => Given(Tail(Tail(argv)))
    <2> DEFINE t == Tail(argv)
    <2> HIDE DEF t
    <2>1. t \in Seq(STRING) /\ Given(t) /\ (Len(argv) > 1 => t # << >>)
        <3>1. t \in Seq(STRING) /\ Given(t) /\ Len(t) = Len(argv) - 1 /\ Len(argv) \in Nat
            BY <1>3 DEF t
        <3>2. Len(argv) > 1 => Len(t) # 0
            BY <3>1
        <3>3. QED BY <3>1, <3>2
    <2>2. QED BY <2>1, GivenTail DEF t
<1>5. symtable' = symtable
    BY DEF Option, ParseOptionFile, Exit, assembling
<1>6. CASE phase' = "options"
    <2>1. Given(argv')
        <3>1. argv' = Tail(argv) \/ (Len(argv) > 1 /\ argv' = Tail(Tail(argv)))
            BY <1>6 DEF Option, ParseOptionFile, Exit
        <3>2. QED BY <1>3, <1>4, <3>1
    <2>2. "symtablelen" \in DOMAIN options' /\ options'.symtablelen \in Nat \ {0}
        <3>1. ASSUME NEW v PROVE
                 /\ DOMAIN [options EXCEPT !.outputFilename = v] = DOMAIN options
                 /\ [options EXCEPT !.outputFilename = v].symtablelen = options.symtablelen
                 /\ DOMAIN [options EXCEPT !.writeMapFile = v] = DOMAIN options
                 /\ [options EXCEPT !.writeMapFile = v].symtablelen = options.symtablelen
                 /\ DOMAIN [options EXCEPT !.symtablelen = v] = DOMAIN options
                 /\ [options EXCEPT !.symtablelen = v].symtablelen = v
            BY <1>2
        <3>2. CASE Head(argv) = "-b" /\ Len(argv) > 1
            <4>1. options' = [options EXCEPT !.symtablelen = Numbers[argv[2]]]
                BY <3>2 DEF Option
            <4>2. 1 \in 1 .. Len(argv) - 1 /\ argv[1] = "-b" /\ 1 + 1 = 2
                BY <1>3, <3>2
            <4>3. argv[2] \in DOMAIN Numbers
                BY <1>2, <4>2 DEF Given
            <4>4. Numbers[argv[2]] \in Nat \ {0}
                BY <4>3, BucketsAssumption
            <4>5. QED BY <1>2, <3>1, <4>1, <4>4
        <3>3. CASE ~ (Head(argv) = "-b" /\ Len(argv) > 1)
            <4>1. \/ \E v : options' = [options EXCEPT !.outputFilename = v]
                  \/ \E v : options' = [options EXCEPT !.writeMapFile = v]
                BY <1>6, <3>3 DEF Option, ParseOptionFile, Exit
            <4>2. QED BY <1>2, <3>1, <4>1
        <3>4. QED BY <3>2, <3>3
    <2>3. BucketsGiven'
        BY <1>2, <1>5, <2>1, <2>2 DEF BucketsGiven, Given
    <2>4. QED BY <1>6, <2>3 DEF LabelInv
<1>7. CASE phase' # "options"
    <2>1. phase' = "exited"
        BY <1>1, <1>7 DEF Option, ParseOptionFile, Exit
    <2>2. QED BY <2>1 DEF LabelInv
<1>8. QED BY <1>6, <1>7

LEMMA FilesLabels ==
    ASSUME PassInv, LabelInv, Files
    PROVE  LabelInv'
<1>1. phase = "options" /\ BucketsGiven /\ passNumber = 0
    BY DEF Files, LabelInv, PassInv
<1>2. phase' \in {"begin", "exited"} /\ passNumber' = 0
    BY <1>1 DEF Files
<1> DEFINE n == options.symtablelen
           chains == [b \in 0 .. n - 1 |-> << >>]
<1>3. n \in Nat \ {0}
    BY <1>1 DEF BucketsGiven
<1>4. symtable' = [list |-> << >>, chains |-> chains]
    BY <1>1 DEF Files, BucketsGiven
<1>5. << >> \in Seq(Entries) /\ << >> \in Seq(Names)
    OBVIOUS
<1>6. chains \in Chains(n)
    BY <1>5 DEF Chains
<1> HIDE DEF n, chains
<1>7. symtable' \in Tables(n) /\ symtable'.list = << >>
    <2> DEFINE S == Seq(Entries)
    <2>1. << >> \in S
        BY <1>5
    <2> HIDE DEF S
    <2>2. symtable' \in [list : S, chains : Chains(n)]
        BY <1>4, <1>6, <2>1
    <2>3. QED BY <1>4, <2>2 DEF Tables, S
<1>8. \A i \in 1 .. Len(symtable'.list) : FALSE
    BY <1>7
<1>9. GoodTable'
    BY <1>3, <1>7, <1>8 DEF GoodTable, Chained, Distinct
<1>10. QED BY <1>2, <1>9 DEF LabelInv

LEMMA BeginPassLabels ==
    ASSUME PassInv, LabelInv, BeginPass
    PROVE  LabelInv'
<1>1. /\ phase = "begin" /\ phase' = "assemble" /\ currentFileIndex' = 0 /\ currentFileLine' = 0
      /\ UNCHANGED << asmFileNames, symtable, errorCount, passNumber >>
    BY DEF BeginPass, commandLine, symbolState
<1>2. Beginning
    BY <1>1 DEF PassInv
<1>3. Placed'
    BY PlacedPass
<1>4. ASSUME errorCount = 0 PROVE GoodTable'
    BY <1>1, <1>4, TableKept DEF LabelInv
<1>5. ASSUME passNumber = 0 PROVE Fresh' /\ \E table : Filling(table)' /\ LabelsSet(table)'
    BY <1>1, <1>2, FillingBegins, NothingSet
<1>6. ASSUME errorCount = 0, passNumber = 1
      PROVE  \E table : Retracing(table)' /\ AllLabels(table)'
    <2>1. PICK table : WholeWalk(table) /\ SizesOf(LastEntry(table)) /\ AllLabels(table)
        BY <1>1, <1>6 DEF LabelInv
    <2>2. QED BY <1>1, <1>2, <2>1, RetracingBegins, AllKept
<1>7. QED BY <1>1, <1>3, <1>4, <1>5, <1>6 DEF LabelInv

LEMMA NextFileLabels ==
    ASSUME PassInv, LabelInv, NextFile
    PROVE  LabelInv'
<1>1. /\ phase = "assemble" /\ phase' = phase
      /\ UNCHANGED << asmFileNames, symtable, errorCount, passNumber >>
    BY DEF NextFile, EndOfFile, commandLine, symbolState
<1>2. Assembling /\ Placed
    BY <1>1 DEF PassInv, LabelInv
<1>3. Placed'
    BY <1>2, PlacedFile
<1>4. ASSUME errorCount = 0 PROVE GoodTable'
    BY <1>1, <1>4, TableKept DEF LabelInv
<1>5. ASSUME errorCount = 0, passNumber = 0
      PROVE  Fresh' /\ \E table : Filling(table)' /\ LabelsSet(table)'
    <2>1. PICK table : Filling(table) /\ LabelsSet(table)
        BY <1>1, <1>5 DEF LabelInv
    <2>2. PICK longer : FileOn(longer, table)
        BY <1>2, <2>1, FillingFile
    <2>3. Filling(longer)'
        BY <2>2 DEF FileOn
    <2>4. QED BY <1>2, <2>1, <2>2, <2>3, LabelsFile
<1>6. ASSUME errorCount = 0, passNumber = 1
      PROVE  \E table : Retracing(table)' /\ AllLabels(table)'
    <2>1. PICK table : Retracing(table) /\ AllLabels(table)
        BY <1>1, <1>6 DEF LabelInv
    <2>2. QED BY <1>1, <1>2, <2>1, RetracingFile, AllKept
<1>7. QED BY <1>1, <1>3, <1>4, <1>5, <1>6 DEF LabelInv

LEMMA EndPassLabels ==
    ASSUME PassInv, LabelInv, EndPass
    PROVE  LabelInv'
<1>1. /\ phase = "assemble" /\ phase' = (IF passNumber = 0 THEN "begin" ELSE "stack")
      /\ errorCount' = errorCount /\ Assembling
    BY DEF EndPass, EndOfFile, PassInv
<1>2. CASE passNumber # 0
    BY <1>1, <1>2 DEF LabelInv
<1>3. CASE passNumber = 0
    <2>1. ASSUME errorCount = 0
          PROVE  /\ GoodTable'
                 /\ \E table : WholeWalk(table)' /\ SizesOf(LastEntry(table))' /\ AllLabels(table)'
        <3>1. PICK table : Filling(table) /\ LabelsSet(table)
            BY <1>1, <1>3, <2>1 DEF LabelInv
        <3>2. GoodTable' /\ AllLabels(table)'
            BY <1>1, <1>3, <2>1, <3>1, LabelsEnd DEF LabelInv
        <3>3. QED BY <1>1, <3>1, <3>2, FillingEnds
    <2>2. QED BY <1>1, <1>3, <2>1 DEF LabelInv
<1>4. QED BY <1>2, <1>3

LEMMA AssembleLineLabels ==
    ASSUME HashTyped, Unmixed, PassInv, CodeInv, LabelInv, AssembleLine
    PROVE  LabelInv'
<1>1. HasLine /\ phase = "assemble" /\ phase' \in {phase, "exited"}
    BY LineMoves DEF LineTooLong, HasLine
<1>2. Assembling /\ Placed /\ errorCount \in Nat /\ SizesCount /\ passNumber \in {0, 1}
    BY <1>1 DEF PassInv, LabelInv, CodeInv, Assembling
<1>3. CASE phase' = "exited"
    BY <1>3 DEF LabelInv
<1>4. CASE LineTooLong
    <2>1. /\ UNCHANGED << asmFileNames, currentFileIndex, currentFileLine, currentSegment, segment,
                          phase >>
          /\ errorCount' \in {errorCount + 1, 1}
        BY <1>4 DEF LineTooLong, commandLine
    <2>2. Placed'
        BY <1>2, <2>1 DEF Placed, NamedSegment, HomeKept, Base, Lines
    <2>3. errorCount' # 0
        BY <1>2, <2>1
    <2>4. QED BY <1>1, <2>1, <2>2, <2>3 DEF LabelInv
<1>5. CASE phase' = "assemble" /\ ~ LineTooLong
    <2>1. Placed'
        BY <1>2, <1>5, PlacedLine
    <2>2. UNCHANGED << asmFileNames, passNumber >>
        BY <1>5, LineMoves
    <2>3. ASSUME errorCount' = 0 PROVE errorCount = 0 /\ GoodTable
        BY <1>1, <1>2, <2>3, ErrorsNeverLost DEF ErrorsKept, LabelInv
    <2>4. ASSUME errorCount' = 0, passNumber = 0
          PROVE  GoodTable' /\ Fresh' /\ \E table : Filling(table)' /\ LabelsSet(table)'
        <3>1. PICK table : Filling(table) /\ LabelsSet(table)
            BY <1>1, <2>3, <2>4 DEF LabelInv
        <3>2. PICK longer : LineOn(longer, table)
            BY <1>2, <1>5, <3>1, FillingLine
        <3>3. Counts
            <4>1. Laid(CodeImage, Used("CODESEG"), instructionCount)
                BY <1>1, <2>3, <2>4 DEF CodeInv, CodeGood
            <4>2. QED BY <1>2, <4>1 DEF Counts, Laid
        <3>4. Fresh
            BY <1>1, <2>3, <2>4 DEF LabelInv
        <3>5. LineReady(table, longer)
            BY <1>2, <1>5, <2>3, <2>4, <3>1, <3>2, <3>3, <3>4 DEF LineReady
        <3>6. Filling(longer)'
            BY <3>2 DEF LineOn
        <3>7. QED BY <3>5, <3>6, FirstPassLine
    <2>5. ASSUME errorCount' = 0, passNumber = 1
          PROVE  GoodTable' /\ \E table : Retracing(table)' /\ AllLabels(table)'
        <3>1. PICK table : Retracing(table) /\ AllLabels(table)
            BY <1>1, <2>3, <2>5 DEF LabelInv
        <3>2. symtable' = symtable
            BY <1>2, <2>5, SecondPassStep
        <3>3. Retracing(table)'
            BY <1>2, <1>5, <3>1, RetracingLine
        <3>4. QED BY <2>2, <2>3, <2>5, <3>1, <3>2, <3>3, AllKept, TableKept
    <2>6. QED BY <1>2, <1>5, <2>1, <2>2, <2>4, <2>5 DEF LabelInv
<1>6. QED BY <1>1, <1>3, <1>4, <1>5

LEMMA OtherLabels ==
    ASSUME LabelInv, ReserveStack \/ Write
    PROVE  LabelInv'
<1>1. phase' \notin {"options", "begin", "assemble"}
    BY DEF ReserveStack, Write
<1>2. QED BY <1>1 DEF LabelInv

LEMMA StutterLabels ==
    ASSUME LabelInv, UNCHANGED vars
    PROVE  LabelInv'
<1>1. UNCHANGED << argv, options, asmFileNames, phase, passNumber, currentFileIndex,
                   currentFileLine, currentSegment, segment, symtable, frame, instructionCount,
                   errorCount >>
    BY DEF vars, commandLine
<1>2. BucketsGiven' = BucketsGiven /\ Placed' = Placed
    BY <1>1 DEF BucketsGiven, Placed, NamedSegment, HomeKept, Base, Lines
<1>3. GoodTable => GoodTable'
    BY <1>1, TableKept
<1>4. Lines' = Lines /\ HereNow' = HereNow /\ JustDefined' = JustDefined
    BY <1>1 DEF Lines, HereNow, JustDefined, Used
<1>5. Fresh' = Fresh
    BY <1>1, <1>4 DEF Fresh
<1>6. \A table : /\ Filling(table)' = Filling(table) /\ Retracing(table)' = Retracing(table)
                 /\ WholeWalk(table)' = WholeWalk(table)
                 /\ SizesOf(LastEntry(table))' = SizesOf(LastEntry(table))
    BY <1>1 DEF Filling, Retracing, Following, WholeWalk, BasesOf, LastEntry, Base, Now, Used,
                SizesOf
<1>7. \A table : LabelsSet(table)' = LabelsSet(table) /\ AllLabels(table)' = AllLabels(table)
    BY <1>1, <1>4 DEF LabelsSet, AllLabels, Settled, Behind
<1>8. QED BY <1>1, <1>2, <1>3, <1>5, <1>6, <1>7 DEF LabelInv

-----------------------------------------------------------------------------
(* What a label is resolved to.                                             *)

ResolvesLabel ==
    /\ HasLine /\ passNumber = 1 /\ errorCount' = 0 /\ phase' = "assemble"
    /\ BehindLabel /\ line.word \in Places
LEMMA OnlyLines ==
    ASSUME PassInv, Next, ResolvesLabel
    PROVE  AssembleLine /\ ~ LineTooLong /\ Assembling
<1>1. phase = "assemble" /\ currentFileLine < Len(Lines) /\ line.word \in Places
    BY DEF ResolvesLabel, HasLine
<1>2. Assembling
    BY <1>1 DEF PassInv
<1>3. currentFileLine \in Nat /\ Len(Lines) \in Nat
    BY <1>2, FileFacts, LinesAre DEF Assembling
<1>4. ~ EndOfFile
    BY <1>1, <1>3 DEF EndOfFile
<1>5. ~ (Option \/ Files \/ Assemble)
    BY <1>1, <1>4 DEF Option, Files, Assemble, BeginPass, NextFile, EndPass, ReserveStack, Write
<1>6. "TooLong" \notin Places
    BY OperationsAssumption DEF Places
<1>7. QED BY <1>1, <1>2, <1>5, <1>6 DEF Next, LineTooLong

LEMMA ResolvedLabel ==
    ASSUME PassInv, CodeInv, LabelInv, Next, ResolvesLabel
    PROVE  Address(<< Lines[currentFileLine].args[1].sym >>)
              = IF currentSegment' = "CODESEG" THEN instructionCount
                ELSE segment[currentSegment'].segmentBase + Used(currentSegment')
<1> DEFINE f == currentFileIndex
           l == currentFileLine
           names == asmFileNames
           sym == Lines[l].args[1].sym
<1>1. AssembleLine /\ ~ LineTooLong /\ Assembling
    BY OnlyLines
<1>2. /\ phase = "assemble" /\ phase' # "exited" /\ passNumber = 1 /\ errorCount' = 0
      /\ l > 0 /\ Lines[l].word = "LABEL" /\ line.word \in Places
    BY DEF ResolvesLabel, HasLine, BehindLabel
<1>3. errorCount = 0 /\ Placed /\ SizesCount /\ CodeGood
    BY <1>1, <1>2, ErrorsNeverLost DEF ErrorsKept, LabelInv, CodeInv
<1>4. PICK table : Retracing(table) /\ AllLabels(table)
    BY <1>2, <1>3 DEF LabelInv
<1>5. /\ GoodNames(names) /\ f \in Nat /\ f < Len(names) /\ l \in Nat
      /\ Lines = File(names, f) /\ line = Lines[l + 1] /\ l < Len(Lines) /\ Len(Lines) \in Nat
      /\ currentFileLine' = l + 1 /\ UNCHANGED << asmFileNames, currentFileIndex >>
    BY <1>1, <1>2, LineIs
<1>6. Marked(names, f, l)
    BY <1>2, <1>5 DEF Marked
<1>7. PICK i \in 1 .. Len(symtable.list) : IsAt(symtable.list[i], table, names, f, l)
    BY <1>4, <1>5, <1>6 DEF AllLabels
<1> DEFINE e == symtable.list[i]
<1>8. /\ e.name = SymbolName(f, sym) /\ e.segment = table[<< f, l + 1 >>].sizes.current
      /\ e.value = IF e.segment = "CODESEG" THEN table[<< f, l >>].count
                   ELSE table[<< f, l >>].sizes.used[e.segment]
    BY <1>5, <1>7 DEF IsAt
<1>9. sym \in STRING
    <2> DEFINE k == l - 1
    <2>1. k \in Nat /\ k < Len(File(names, f)) /\ k + 1 = l
        BY <1>2, <1>5
    <2>2. File(names, f)[k + 1].word \in Definers
        BY <1>2, <1>5, <2>1 DEF Definers
    <2> HIDE DEF k
    <2>3. File(names, f)[k + 1].args[1].sym \in STRING
        BY <1>5, <2>1, <2>2, DefinerHasName
    <2>4. QED BY <1>5, <2>1, <2>3
<1>10. Found(symtable, Expanded(<< sym >>)) = i
    <2>1. Expanded(<< sym >>) = e.name
        BY <1>5, <1>8, <1>9, ExpandedName
    <2>2. Distinct(symtable.list)
        BY <1>2, <1>3 DEF LabelInv, GoodTable
    <2>3. QED BY <2>1, <2>2, FoundThere
<1>11. currentSegment' \in Sized /\ ~ Silence(names, f, l + 1)
    BY <1>1, <1>2, <1>3, NotSilentNamed
<1>12. e.segment = currentSegment'
    <2>1. Following(table)'
        BY <1>1, <1>2, <1>4, RetracingLine DEF Retracing
    <2>2. Follows(Now', table[<< f, l + 1 >>].sizes, names, f, l + 1)
        BY <1>5, <2>1 DEF Following
    <2>3. Now'.current = currentSegment'
        BY DEF Now
    <2>4. QED BY <1>8, <1>11, <2>2, <2>3 DEF Follows
<1>13. /\ instructionCount = table[<< f, l >>].count
       /\ \A s \in Sized : table[<< f, l >>].sizes.used[s] = Used(s)
    <2>1. Following(table)
        BY <1>4 DEF Retracing
    <2>2. Now.used = table[<< f, l >>].sizes.used /\ instructionCount = table[<< f, l >>].count
        BY <2>1 DEF Following, Follows
    <2>3. \A s \in Sized : Now.used[s] = Used(s)
        BY DEF Now
    <2>4. QED BY <2>2, <2>3
<1>14. e.value = IF currentSegment' = "CODESEG" THEN instructionCount ELSE Used(currentSegment')
    BY <1>8, <1>11, <1>12, <1>13
<1>15. instructionCount \in Nat /\ Base("CODESEG") = 0
    BY <1>3 DEF CodeGood, Laid, Placed
<1>16. Address(<< sym >>) = (IF e.segment = "none" THEN 0 ELSE Base(e.segment)) + e.value
    BY <1>10 DEF Address, Base
<1> HIDE DEF e
<1>17. Address(<< sym >>) = Base(currentSegment') + e.value
    BY <1>11, <1>12, <1>16 DEF Sized
<1>18. CASE currentSegment' = "CODESEG"
    BY <1>14, <1>15, <1>17, <1>18
<1>19. CASE currentSegment' # "CODESEG"
    BY <1>14, <1>17, <1>19 DEF Base
<1>20. QED BY <1>18, <1>19

(* In files whose data is of one kind behind each label, a label of the     *)
(* first pass has, in the second, the address of the data or the number of  *)
(* the instruction behind it: HackToSegment moves the label with the data,  *)
(* the sorted table has no symbol lost or taken for another, and the bases  *)
(* are those the data is written behind (LABEL, HackToSegment, LookupSymbol, *)
(* sort_symbols).                                                           *)
THEOREM LabelsResolved == ASSUME Unmixed, HashTyped PROVE Spec => LabelsAtData
<1>1. Init => LabelInv
    BY InitLabels
<1>2. ASSUME PassInv, CodeInv, LabelInv, [Next]_vars PROVE LabelInv'
    <2>1. CASE Option \/ Files
        BY <1>2, <2>1, OptionLabels, FilesLabels
    <2>2. CASE AssembleLine
        BY <1>2, <2>2, AssembleLineLabels
    <2>3. CASE Assemble
        BY <1>2, <2>3, BeginPassLabels, NextFileLabels, EndPassLabels, OtherLabels DEF Assemble
    <2>4. CASE UNCHANGED vars
        BY <1>2, <2>4, StutterLabels
    <2>5. QED BY <1>2, <2>1, <2>2, <2>3, <2>4 DEF Next
<1> DEFINE Resolved ==
        ResolvesLabel => Address(<< Lines[currentFileLine].args[1].sym >>)
                           = IF currentSegment' = "CODESEG" THEN instructionCount
                             ELSE segment[currentSegment'].segmentBase + Used(currentSegment')
<1>3. ASSUME PassInv, CodeInv, LabelInv, [Next]_vars PROVE [Resolved]_vars
    <2>1. CASE UNCHANGED vars
        BY <2>1
    <2>2. CASE Next
        BY <1>3, <2>2, ResolvedLabel
    <2>3. QED BY <1>3, <2>1, <2>2
<1>4. Spec => [][Resolved]_vars
    BY <1>1, <1>2, <1>3, PassInvariance, CodeInvariance, PTL DEF Spec
<1>5. QED BY <1>4 DEF LabelsAtData, ResolvesLabel

=============================================================================
