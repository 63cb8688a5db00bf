------------------------------ MODULE Assembler -------------------------------
(***************************************************************************)
(* q3asm (src/q3asm/q3asm.c): two passes over the assembly files of lcc.   *)
(* The first defines the symbols, the second resolves them; both emit the  *)
(* same bytes at the same places, or the addresses are wrong.              *)
(*                                                                         *)
(* A line is a record: its word, for statements q3asm knows by the first    *)
(* letters only those letters, and the tokens behind it.  A token is a      *)
(* record [sym, n]: a name, "" for a number, and what is added to it.  The  *)
(* line of the word TooLong does not fit in lineBuffer.  The name of a      *)
(* symbol is a sequence: a local name is followed by the number of its file.*)
(***************************************************************************)
EXTENDS QvmFile, SourceOps, SequencesExt

CONSTANTS
    CommandLines,   \* the argument lists main is given
    Numbers,        \* what atoi makes of the strings among them
    ListFiles,      \* what the file behind -f says, by name
    AsmFiles,       \* the lines of the assembly files, by name
    LocalNames,     \* the names that begin with $
    HashString(_),  \* of the name of a symbol, as an int
    DefaultBuckets, \* DEFAULT_HASHTABLE_SIZE
    StackSize,      \* VM_PROGRAM_STACK_SIZE
    FrameLimit,     \* 32767
    ArgumentLimit,  \* 256
    ErrorBound      \* bound: errors counted for a line that is too long

Number(n)     == [sym |-> "", n |-> n]
Symbol(s)     == [sym |-> s, n |-> 0]
Offset(s, n)  == [sym |-> s, n |-> n]
Line(w, args) == [word |-> w, args |-> args]
Bare(w)       == Line(w, << >>)

SegmentWords ==
    [code |-> "CODESEG", data |-> "DATASEG", lit |-> "LITSEG", bss |-> "BSSSEG"]
Segments == {"CODESEG", "DATASEG", "LITSEG", "BSSSEG", "JTRGSEG"}
Silent   == {"export", "import", "line", "file"}

(* currentSegment is null at first, and there is no lastSymbol: as lcc does *)
(* it, a file names a segment and a label before it puts anything there.    *)
ASSUME SourcesAssumption ==
    \A name \in DOMAIN AsmFiles :
        \E k \in 1 .. Len(AsmFiles[name]) :
            /\ AsmFiles[name][k].word \in DOMAIN SegmentWords
            /\ \A j \in 1 .. k - 1 : AsmFiles[name][j].word \in Silent

(* A line is a word and its tokens; align is given a positive number, what   *)
(* defines a symbol its name.  lcc stores arguments for a call that follows. *)
Definers == {"LABEL", "proc", "equ"}
ASSUME LinesAssumption ==
    \A name \in DOMAIN AsmFiles :
        LET file == AsmFiles[name] IN
        /\ file \in Seq([word : STRING, args : Seq([sym : STRING, n : Int])])
        /\ \A k \in 1 .. Len(file) :
              /\ file[k].word = "align" =>
                    Len(file[k].args) > 0 /\ ToWord(file[k].args[1].n) > 0
              /\ file[k].word \in Definers => Len(file[k].args) > 0
              /\ file[k].word = "ARG" =>
                    \E j \in k + 1 .. Len(file) : file[j].word = "CALL"

ASSUME CommandLinesAssumption ==
    /\ CommandLines \subseteq Seq(STRING)
    /\ \A name \in DOMAIN ListFiles : ListFiles[name] \in Seq(STRING)
    /\ StackSize \in Nat /\ ArgumentLimit \in Int

(* lcc puts data behind the name of a segment for it, and skips forwards.    *)
ASSUME DataAssumption ==
    \A name \in DOMAIN AsmFiles :
        LET file == AsmFiles[name] IN
        \A k \in 1 .. Len(file) :
            /\ file[k].word \in {"align", "skip", "byte"} =>
                  \E j \in 1 .. k - 1 :
                      /\ file[j].word \in DOMAIN SegmentWords \ {"code"}
                      /\ \A i \in j + 1 .. k - 1 : file[i].word # "code"
            /\ file[k].word = "skip" =>
                  Len(file[k].args) > 0 /\ ToWord(file[k].args[1].n) >= 0

(* Data of one kind: behind a label comes data that goes to the same segment *)
(* up to the next label.  Of a structure of chars and ints this is not so.  *)
Home(l) ==
    IF l.word = "address" THEN "DATASEG"
    ELSE IF l.word # "byte" \/ l.args = << >> THEN "none"
    ELSE IF ToWord(l.args[1].n) = 4 THEN "DATASEG"
    ELSE IF ToWord(l.args[1].n) = 1 THEN "LITSEG" ELSE "none"
Unmixed ==
    \A name \in DOMAIN AsmFiles :
        LET file == AsmFiles[name] IN
        \A k \in 1 .. Len(file) :
            Home(file[k]) # "none" =>
                \E i \in 1 .. k - 1 :
                    /\ file[i].word \in Definers /\ Home(file[i + 1]) = Home(file[k])
                    /\ \A j \in i + 1 .. k :
                          /\ file[j].word \notin Definers \cup DOMAIN SegmentWords
                          /\ Home(file[j]) \in {"none", Home(file[k])}

(* An operation is no other statement and has one opcode, without an operand *)
(* of a byte.  lcc gives it a token if the opcode has an operand; CVII4,     *)
(* the one that becomes OP_SEX8, is given a size, and so are CVIF4 and CVFI4.*)
ASSUME OperationsAssumption ==
    /\ DOMAIN sourceOps \cap ({"CALL", "ARG", "RET", "pop", "ADDRF", "ADDRL", "proc",
           "endproc", "address", "equ", "align", "skip", "byte", "LABEL", "TooLong"}
           \cup Silent \cup DOMAIN SegmentWords) = {}
    /\ \A w \in DOMAIN sourceOps :
          sourceOps[w] \in (OpcodeNames \ ByteOperand) \cup {"OP_UNDEF"}
ASSUME OperandsAssumption ==
    \A name \in DOMAIN AsmFiles :
        LET file == AsmFiles[name] IN
        \A k \in 1 .. Len(file) :
            (/\ file[k].word \in DOMAIN sourceOps
             /\ sourceOps[file[k].word] \notin {"OP_UNDEF", "OP_IGNORE", "OP_CVIF", "OP_CVFI"})
            => (Len(file[k].args) > (IF sourceOps[file[k].word] = "OP_SEX8" THEN 1 ELSE 0)
                  <=> sourceOps[file[k].word] \in WordOperand)

ASSUME ImageAssumption == MaxImage % 4 = 0

(* A hash table of no bucket is a division by zero.                         *)
ASSUME BucketsAssumption ==
    /\ DefaultBuckets \in Nat \ {0}
    /\ \A string \in DOMAIN Numbers : Numbers[string] \in Nat \ {0}
    /\ \A args \in CommandLines : \A k \in 1 .. Len(args) - 1 :
          args[k] = "-b" => args[k + 1] \in DOMAIN Numbers

VARIABLES
    argv,              \* the arguments main has not looked at
    options,           \* outputFilename, symtablelen, writeMapFile
    asmFileNames,
    phase,             \* where main is: options, begin, assemble, write, or how it ended
    passNumber,
    currentFileIndex,
    currentFileLine,   \* lines extracted from the current file
    currentSegment,
    segment,           \* image, imageUsed and segmentBase of each
    symtable,          \* the list symbols, in order, and the chains of the hash table
    frame,             \* currentLocals, currentArgs, currentArgOffset
    instructionCount,
    errorCount,
    output             \* the .qvm and the .map written

commandLine == << argv, options, asmFileNames >>
vars == << commandLine, phase, passNumber, currentFileIndex, currentFileLine,
           currentSegment, segment, symtable, frame, instructionCount,
           errorCount, output >>

Finished == {"done", "failed", "exited"}
NoFile   == [written |-> FALSE]

Init ==
    /\ argv \in CommandLines
    /\ options = [outputFilename |-> "q3asm", symtablelen |-> DefaultBuckets, writeMapFile |-> FALSE]
    /\ asmFileNames = << >> /\ phase = "options"
    /\ passNumber = 0 /\ currentFileIndex = 0 /\ currentFileLine = 0
    /\ currentSegment = "none"
    /\ segment = [s \in Segments |->
                     [image |-> [x \in 1 .. MaxImage |-> 0],
                      imageUsed |-> 0, segmentBase |-> 0]]
    /\ symtable = [list |-> << >>, chains |-> << >>]
    /\ frame = [locals |-> 0, args |-> 0, argOffset |-> 0]
    /\ instructionCount = 0 /\ errorCount = 0
    /\ output = [qvm |-> NoFile, map |-> << >>]

-----------------------------------------------------------------------------
(* The command line.                                                        *)

StartsWithDash(a) == SubSeq(a, 1, 1) = "-"

assembling == << passNumber, currentFileIndex, currentFileLine, currentSegment,
                 segment, symtable, frame, instructionCount, errorCount, output >>

Exit == phase' = "exited" /\ UNCHANGED << commandLine, assembling >>

(* The tokens of an option file: -o renames the output, the others are      *)
(* files.                                                                   *)
FromList(tokens) ==
    LET list[k \in 0 .. Len(tokens)] ==
            IF k = 0 THEN [output |-> options.outputFilename, files |-> asmFileNames,
                           next |-> "file"]
            ELSE IF list[k - 1].next = "output"
                 THEN [list[k - 1] EXCEPT !.output = tokens[k], !.next = "file"]
            ELSE IF tokens[k] = "-o" THEN [list[k - 1] EXCEPT !.next = "output"]
            ELSE [list[k - 1] EXCEPT !.files = Append(@, tokens[k])]
    IN  list[Len(tokens)]

ParseOptionFile(name) ==
    IF name \in DOMAIN ListFiles
    THEN /\ options' = [options EXCEPT !.outputFilename = FromList(ListFiles[name]).output]
         /\ asmFileNames' = FromList(ListFiles[name]).files
         /\ argv' = Tail(Tail(argv))
         /\ UNCHANGED << phase, assembling >>
    ELSE Exit

Option ==
    /\ phase = "options" /\ argv # << >> /\ StartsWithDash(Head(argv))
    /\ CASE Head(argv) \in {"-o", "-b"} /\ Len(argv) > 1 ->
              /\ options' = IF Head(argv) = "-o"
                            THEN [options EXCEPT !.outputFilename = argv[2]]
                            ELSE [options EXCEPT !.symtablelen = Numbers[argv[2]]]
              /\ argv' = Tail(Tail(argv))
              /\ UNCHANGED << asmFileNames, phase, assembling >>
         [] Head(argv) = "-f" /\ Len(argv) > 1 -> ParseOptionFile(argv[2])
         [] Head(argv) \in {"-v", "-m", "-vq3"} ->
              /\ options' = [options EXCEPT !.writeMapFile = @ \/ Head(argv) = "-m"]
              /\ argv' = Tail(argv)
              /\ UNCHANGED << asmFileNames, phase, assembling >>
         [] OTHER -> Exit

(* The rest are files; LoadFile exits when there is none of the name.       *)
Files ==
    /\ phase = "options"
    /\ argv # << >> => ~ StartsWithDash(Head(argv))
    /\ asmFileNames' = asmFileNames \o argv /\ argv' = << >>
    /\ phase' = IF asmFileNames' # << >> /\ Range(asmFileNames') \subseteq DOMAIN AsmFiles
                THEN "begin" ELSE "exited"
    /\ symtable' = [symtable EXCEPT !.chains =
                       [b \in 0 .. options.symtablelen - 1 |-> << >>]]
    /\ UNCHANGED << options, passNumber, currentFileIndex, currentFileLine,
                    currentSegment, segment, frame, instructionCount,
                    errorCount, output >>

-----------------------------------------------------------------------------
(* The segments and the symbols.                                            *)

Used(s) == segment[s].imageUsed

Emitted(seg, bytes) ==
    LET n == seg.imageUsed + Len(bytes)
    IN  [seg EXCEPT
           !.image = SubSeq(@, 1, seg.imageUsed) \o bytes \o SubSeq(@, n + 1, Len(@)),
           !.imageUsed = n]

(* EmitByte and EmitInt; EmitInt wants one byte more than it writes.        *)
Emit(s, bytes, endsInInt) ==
    IF Used(s) + Len(bytes) <= MaxImage - (IF endsInInt THEN 1 ELSE 0)
    THEN segment' = [segment EXCEPT ![s] = Emitted(@, bytes)] /\ UNCHANGED phase
    ELSE phase' = "exited" /\ UNCHANGED segment

Buckets      == Cardinality(DOMAIN symtable.chains)
Bucket(name) == (IF HashString(name) < 0 THEN - HashString(name)
                 ELSE HashString(name)) % Buckets

(* Mutant of Expanded: local names are not told apart by file.               *)
ExpandedAlike(name) == name

Expanded(name) ==
    IF name[1] \in LocalNames THEN Append(name, currentFileIndex) ELSE name

(* hashtable_symbol_exists looks at the names in the chain; a local name    *)
(* that is in another file is another name.                                 *)
Exists(tab, name) == name \in Range(tab.chains[Bucket(name)])
Found(tab, name)  == CHOOSE k \in 1 .. Len(tab.list) : tab.list[k].name = name

(* DefineSymbol outside pass 1, with the expanded name.                     *)
Added(tab, name, value) ==
    [list   |-> Append(tab.list, [name |-> name, segment |-> currentSegment,
                                  value |-> value]),
     chains |-> [tab.chains EXCEPT ![Bucket(name)] = Append(@, name)]]

DefineSymbol(name, value) ==
    IF passNumber = 1 THEN UNCHANGED << symtable, errorCount >>
    ELSE IF Exists(symtable, Expanded(name))
         THEN errorCount' = errorCount + 1 /\ UNCHANGED symtable
         ELSE symtable' = Added(symtable, Expanded(name), value) /\ UNCHANGED errorCount

Undefined(t) ==
    passNumber # 0 /\ t.sym # "" /\ ~ Exists(symtable, Expanded(<< t.sym >>))

(* LookupSymbol and ParseExpression: in pass 0 a symbol is 0, later it is   *)
(* found at its place behind the base of its segment.                       *)
Address(name) ==
    LET s == symtable.list[Found(symtable, Expanded(name))]
    IN  (IF s.segment = "none" THEN 0 ELSE segment[s.segment].segmentBase) + s.value
Value(t) ==
    ToWord(t.n + IF t.sym = "" \/ passNumber = 0 \/ Undefined(t) THEN 0
                 ELSE Address(<< t.sym >>))

(* What LookupSymbol leaves behind: an undefined symbol is an error, and is *)
(* defined, under its expanded name expanded once more.                     *)
LookupEffects(t, otherErrors) ==
    IF ~ Undefined(t)
    THEN errorCount' = errorCount + otherErrors /\ UNCHANGED symtable
    ELSE LET name == Expanded(Expanded(<< t.sym >>))
         IN  IF Exists(symtable, name)
             THEN errorCount' = errorCount + otherErrors + 2 /\ UNCHANGED symtable
             ELSE /\ errorCount' = errorCount + otherErrors + 1
                  /\ symtable' = Added(symtable, name, 0)

(* Mutant of HackToSegment: the label stays behind.                          *)
HackToSegmentAlone(s) == currentSegment' = s /\ UNCHANGED symtable

(* HackToSegment: the last symbol defined moves along, in the first pass.   *)
HackToSegment(s) ==
    /\ currentSegment' = s
    /\ symtable' =
          IF currentSegment = s \/ passNumber # 0 THEN symtable
          ELSE [symtable EXCEPT !.list[Len(symtable.list)].segment = s,
                                !.list[Len(symtable.list)].value = Used(s)]

-----------------------------------------------------------------------------
(* AssembleLine: one action per statement.  At(words) holds when the line   *)
(* the assembler extracts begins with one of the words.                     *)

Lines   == AsmFiles[asmFileNames[currentFileIndex + 1]]
HasLine == phase = "assemble" /\ currentFileLine < Len(Lines)
line    == Lines[currentFileLine + 1]
Arg(k)  == IF k <= Len(line.args) THEN line.args[k] ELSE Number(0)
Num(k)  == ToWord(Arg(k).n)
Rounded(n) == ((n + 3) \div 4) * 4

At(words) ==
    /\ HasLine /\ line.word \in words
    /\ currentFileLine' = currentFileLine + 1
    /\ UNCHANGED << commandLine, passNumber, currentFileIndex, output >>

symbolState == << currentSegment, symtable, errorCount >>

Instruct(op) == << Code(op) >>
FrameSize    == 8 + frame.locals + frame.args

(* Mutant of CALL: the arguments of the next call follow these.             *)
CALLKeepingOffset ==
    /\ At({"CALL"})
    /\ Emit("CODESEG", Instruct("OP_CALL"), FALSE)
    /\ instructionCount' = instructionCount + 1
    /\ UNCHANGED << symbolState, frame >>

CALL ==
    /\ At({"CALL"})
    /\ Emit("CODESEG", Instruct("OP_CALL"), FALSE)
    /\ instructionCount' = instructionCount + 1
    /\ frame' = [frame EXCEPT !.argOffset = 0]
    /\ UNCHANGED symbolState

(* Past the limit the opcode is emitted and its operand is not.             *)
ARG ==
    /\ At({"ARG"})
    /\ instructionCount' = instructionCount + 1
    /\ IF 8 + frame.argOffset >= ArgumentLimit
       THEN /\ Emit("CODESEG", Instruct("OP_ARG"), FALSE)
            /\ errorCount' = errorCount + 1 /\ UNCHANGED frame
       ELSE /\ Emit("CODESEG", Encoded(Instruction("OP_ARG", 8 + frame.argOffset)), FALSE)
            /\ frame' = [frame EXCEPT !.argOffset = @ + 4]
            /\ UNCHANGED errorCount
    /\ UNCHANGED << currentSegment, symtable >>

RET ==
    /\ At({"RET"})
    /\ Emit("CODESEG", Encoded(Instruction("OP_LEAVE", FrameSize)), TRUE)
    /\ instructionCount' = instructionCount + 1
    /\ UNCHANGED << symbolState, frame >>

pop ==
    /\ At({"pop"})
    /\ Emit("CODESEG", Instruct("OP_POP"), FALSE)
    /\ instructionCount' = instructionCount + 1
    /\ UNCHANGED << symbolState, frame >>

(* Parameters lie above the frame and the return address, locals in the     *)
(* frame above the arguments of its calls.                                  *)
ADDRF ==
    /\ At({"ADDRF"})
    /\ Emit("CODESEG", Encoded(Instruction("OP_LOCAL",
                                           16 + frame.args + frame.locals + Value(Arg(1)))), TRUE)
    /\ LookupEffects(Arg(1), 0)
    /\ instructionCount' = instructionCount + 1
    /\ UNCHANGED << currentSegment, frame >>

ADDRL ==
    /\ At({"ADDRL"})
    /\ Emit("CODESEG", Encoded(Instruction("OP_LOCAL", 8 + frame.args + Value(Arg(1)))), TRUE)
    /\ LookupEffects(Arg(1), 0)
    /\ instructionCount' = instructionCount + 1
    /\ UNCHANGED << currentSegment, frame >>

proc ==
    /\ At({"proc"})
    /\ frame' = [frame EXCEPT !.locals = Rounded(Num(2)), !.args = Rounded(Num(3))]
    /\ LET size    == 8 + frame'.locals + frame'.args
           name    == Expanded(<< Arg(1).sym >>)
           clashes == passNumber = 0 /\ Exists(symtable, name)
       IN  /\ symtable' = IF passNumber = 1 \/ clashes THEN symtable
                          ELSE Added(symtable, name, instructionCount)
           /\ errorCount' = errorCount + (IF clashes THEN 1 ELSE 0)
                                       + (IF size >= FrameLimit THEN 1 ELSE 0)
           /\ Emit("CODESEG", Encoded(Instruction("OP_ENTER", size)), TRUE)
    /\ instructionCount' = instructionCount + 1
    /\ UNCHANGED currentSegment

endproc ==
    /\ At({"endproc"})
    /\ Emit("CODESEG", Instruct("OP_PUSH") \o Encoded(Instruction("OP_LEAVE", FrameSize)), TRUE)
    /\ instructionCount' = instructionCount + 2
    /\ UNCHANGED << symbolState, frame >>

(* A word of initialised data; one that names a local label is taken for an *)
(* entry of a jump table.                                                   *)
address ==
    /\ At({"address"})
    /\ LET v     == Value(Arg(1))
           isJump == passNumber = 1 /\ Arg(1).sym \in LocalNames
           fits(s) == Used(s) + 4 < MaxImage
       IN  IF fits("DATASEG") /\ (isJump => fits("JTRGSEG"))
           THEN /\ segment' = [segment EXCEPT
                      !["DATASEG"] = Emitted(@, Bytes(v)),
                      !["JTRGSEG"] = IF isJump THEN Emitted(@, Bytes(v)) ELSE @]
                /\ UNCHANGED phase
           ELSE phase' = "exited" /\ UNCHANGED segment
    /\ IF Undefined(Arg(1))
       THEN LookupEffects(Arg(1), 0) /\ currentSegment' = "DATASEG"
       ELSE HackToSegment("DATASEG") /\ UNCHANGED errorCount
    /\ UNCHANGED << frame, instructionCount >>

SegmentStatement ==
    /\ At(DOMAIN SegmentWords)
    /\ currentSegment' = SegmentWords[line.word]
    /\ UNCHANGED << phase, segment, symtable, frame, instructionCount, errorCount >>

Ignored ==
    /\ At(Silent)
    /\ UNCHANGED << phase, segment, symbolState, frame, instructionCount >>

equ ==
    /\ At({"equ"})
    /\ DefineSymbol(<< Arg(1).sym >>, Num(2))
    /\ UNCHANGED << phase, currentSegment, segment, frame, instructionCount >>

align ==
    /\ At({"align"})
    /\ segment' = [segment EXCEPT ![currentSegment].imageUsed =
                       ((@ + Num(1) - 1) \div Num(1)) * Num(1)]
    /\ UNCHANGED << phase, symbolState, frame, instructionCount >>

skip ==
    /\ At({"skip"})
    /\ segment' = [segment EXCEPT ![currentSegment].imageUsed = @ + Num(1)]
    /\ UNCHANGED << phase, symbolState, frame, instructionCount >>

byte ==
    /\ At({"byte"})
    /\ LET v == Num(1)
           s == CASE v = 1 -> "LITSEG" [] v = 4 -> "DATASEG" [] OTHER -> currentSegment
       IN  /\ IF v \in {1, 4} THEN HackToSegment(s) ELSE UNCHANGED << currentSegment, symtable >>
           /\ errorCount' = IF v = 2 THEN errorCount + 1 ELSE errorCount
           /\ Emit(s, [k \in 1 .. v |-> ByteOf(Num(2), k - 1)], FALSE)
    /\ UNCHANGED << frame, instructionCount >>

(* Labels in the code count instructions, others bytes.                     *)
LABEL ==
    /\ At({"LABEL"})
    /\ DefineSymbol(<< Arg(1).sym >>, IF currentSegment = "CODESEG" THEN instructionCount
                                      ELSE Used(currentSegment))
    /\ UNCHANGED << phase, currentSegment, segment, frame, instructionCount >>

(* The names of operations.  The token behind it is emitted as an operand   *)
(* if there is one, whatever the operation, but for two.                    *)
SignExtension == [n \in {1, 2} |-> IF n = 1 THEN "OP_SEX8" ELSE "OP_SEX16"]
IsExtension   == sourceOps[line.word] = "OP_SEX8"
(* Mutant of HasExpression: no operation is excepted.                        *)
HasAnyExpression == Len(line.args) > (IF IsExtension THEN 1 ELSE 0)

HasExpression ==
    /\ Len(line.args) > (IF IsExtension THEN 1 ELSE 0)
    /\ sourceOps[line.word] \notin {"OP_CVIF", "OP_CVFI"}
Expression(v) == IF sourceOps[line.word] = "OP_BLOCK_COPY" THEN Rounded(v) ELSE v

OpIgnored ==
    /\ At(DOMAIN sourceOps) /\ sourceOps[line.word] = "OP_IGNORE"
    /\ UNCHANGED << phase, segment, symbolState, frame, instructionCount >>

BadExtension ==
    /\ At(DOMAIN sourceOps) /\ IsExtension /\ Arg(1).n \notin DOMAIN SignExtension
    /\ errorCount' = errorCount + 1
    /\ UNCHANGED << phase, segment, currentSegment, symtable, frame, instructionCount >>

Op ==
    /\ At(DOMAIN sourceOps)
    /\ sourceOps[line.word] # "OP_IGNORE"
    /\ IsExtension => Arg(1).n \in DOMAIN SignExtension
    /\ LET opcode  == IF IsExtension THEN SignExtension[Arg(1).n] ELSE sourceOps[line.word]
           operand == Arg(IF IsExtension THEN 2 ELSE 1)
           refused == IF sourceOps[line.word] = "OP_UNDEF" THEN 1 ELSE 0
       IN  IF HasExpression
           THEN /\ Emit("CODESEG", Instruct(opcode) \o Bytes(Expression(Value(operand))), TRUE)
                /\ LookupEffects(operand, refused)
           ELSE /\ Emit("CODESEG", Instruct(opcode), FALSE)
                /\ errorCount' = errorCount + refused /\ UNCHANGED symtable
    /\ instructionCount' = instructionCount + 1
    /\ UNCHANGED << currentSegment, frame >>

Statements ==
    {"CALL", "ARG", "RET", "pop", "ADDRF", "ADDRL", "proc", "endproc", "address",
     "equ", "align", "skip", "byte", "LABEL"}
        \cup Silent \cup DOMAIN SegmentWords \cup DOMAIN sourceOps

UnknownToken ==
    /\ HasLine /\ line.word \notin Statements \cup {"TooLong"}
    /\ At({line.word})
    /\ errorCount' = errorCount + 1
    /\ UNCHANGED << phase, currentSegment, segment, symtable, frame, instructionCount >>

(* ExtractLine returns the text it was given, and finds the line again.     *)
LineTooLong ==
    /\ HasLine /\ line.word = "TooLong"
    /\ errorCount' = IF errorCount < ErrorBound THEN errorCount + 1 ELSE 1
    /\ UNCHANGED << commandLine, phase, passNumber, currentFileIndex, currentFileLine,
                    currentSegment, segment, symtable, frame, instructionCount, output >>

AssembleLine ==
    \/ CALL \/ ARG \/ RET \/ pop \/ ADDRF \/ ADDRL \/ proc \/ endproc
    \/ address \/ SegmentStatement \/ Ignored \/ equ \/ align \/ skip \/ byte
    \/ LABEL \/ OpIgnored \/ BadExtension \/ Op \/ UnknownToken \/ LineTooLong

-----------------------------------------------------------------------------
(* Assemble.                                                                *)

(* The bases of a pass are the sizes the one before it found.               *)
BeginPass ==
    /\ phase = "begin"
    /\ LET lit  == Used("DATASEG")
           bss  == lit + Used("LITSEG")
           base == [LITSEG |-> lit, BSSSEG |-> bss, JTRGSEG |-> bss + Used("BSSSEG")]
       IN  segment' = [s \in Segments |->
                          [image       |-> segment[s].image,
                           imageUsed   |-> IF s = "DATASEG" THEN 4 ELSE 0,
                           segmentBase |-> IF s \in DOMAIN base THEN base[s] ELSE 0]]
    /\ instructionCount' = 0
    /\ phase' = "assemble" /\ currentFileIndex' = 0 /\ currentFileLine' = 0
    /\ UNCHANGED << commandLine, passNumber, symbolState, frame, output >>

EndOfFile == phase = "assemble" /\ currentFileLine = Len(Lines)

(* Mutant of NextFile: the last file is left out.                            *)
NextFileButLast ==
    /\ EndOfFile /\ currentFileIndex + 2 < Len(asmFileNames)
    /\ currentFileIndex' = currentFileIndex + 1 /\ currentFileLine' = 0
    /\ UNCHANGED << commandLine, phase, passNumber, segment, symbolState, frame,
                    instructionCount, output >>

NextFile ==
    /\ EndOfFile /\ currentFileIndex + 1 < Len(asmFileNames)
    /\ currentFileIndex' = currentFileIndex + 1 /\ currentFileLine' = 0
    /\ UNCHANGED << commandLine, phase, passNumber, segment, symbolState, frame,
                    instructionCount, output >>

(* sort_symbols sorts by value, whatever the segment; equal ones are left in *)
(* their order here, where qsort promises none.                             *)
UpTo(list, k) ==
    {j \in 1 .. Len(list) : \/ list[j].value < list[k].value
                            \/ list[j].value = list[k].value /\ j <= k}
Sorted(list) ==
    [r \in 1 .. Len(list) |->
        list[CHOOSE k \in 1 .. Len(list) : Cardinality(UpTo(list, k)) = r]]

(* Mutant of EndPass: the segments are aligned after the second pass only.   *)
EndPassUnaligned ==
    /\ EndOfFile /\ currentFileIndex + 1 = Len(asmFileNames)
    /\ segment' = [s \in Segments |->
                      IF passNumber = 0 THEN segment[s]
                      ELSE [segment[s] EXCEPT !.imageUsed = Aligned(@)]]
    /\ symtable' = IF passNumber = 0 THEN [symtable EXCEPT !.list = Sorted(@)]
                   ELSE symtable
    /\ passNumber' = passNumber + 1
    /\ phase' = IF passNumber = 0 THEN "begin" ELSE "stack"
    /\ UNCHANGED << commandLine, currentFileIndex, currentFileLine, currentSegment,
                    frame, instructionCount, errorCount, output >>

EndPass ==
    /\ EndOfFile /\ currentFileIndex + 1 = Len(asmFileNames)
    /\ segment' = [s \in Segments |-> [segment[s] EXCEPT !.imageUsed = Aligned(@)]]
    /\ symtable' = IF passNumber = 0 THEN [symtable EXCEPT !.list = Sorted(@)]
                   ELSE symtable
    /\ passNumber' = passNumber + 1
    /\ phase' = IF passNumber = 0 THEN "begin" ELSE "stack"
    /\ UNCHANGED << commandLine, currentFileIndex, currentFileLine, currentSegment,
                    frame, instructionCount, errorCount, output >>

(* _stackStart and _stackEnd are defined where the segment last named is.   *)
StackSymbols == << << << "_stackStart" >>, 0 >>, << << "_stackEnd" >>, StackSize >> >>

ReserveStack ==
    /\ phase = "stack"
    /\ LET clashes == {k \in 1 .. 2 : Exists(symtable, StackSymbols[k][1])}
       IN  /\ symtable' = FoldLeft(LAMBDA tab, s :
                                       IF Exists(symtable, s[1]) THEN tab
                                       ELSE Added(tab, s[1], Used("BSSSEG") + s[2]),
                                   symtable, StackSymbols)
           /\ errorCount' = errorCount + Cardinality(clashes)
    /\ segment' = [segment EXCEPT !["BSSSEG"].imageUsed = @ + StackSize]
    /\ phase' = "write"
    /\ UNCHANGED << commandLine, passNumber, currentFileIndex, currentFileLine,
                    currentSegment, frame, instructionCount, output >>

Content(s) == SubSeq(segment[s].image, 1, Used(s))

WriteVmFile ==
    IF errorCount # 0 THEN NoFile
    ELSE [written |-> TRUE,
          header  |-> [magic            |-> TRUE,
                       instructionCount |-> instructionCount,
                       codeOffset       |-> HeaderSize,
                       codeLength       |-> Used("CODESEG"),
                       dataOffset       |-> HeaderSize + Used("CODESEG"),
                       dataLength       |-> Used("DATASEG"),
                       litLength        |-> Used("LITSEG"),
                       bssLength        |-> Used("BSSSEG")],
          code    |-> Content("CODESEG"),
          data    |-> Content("DATASEG") \o Content("LITSEG")]

(* The symbols that are not local, by segment.                              *)
WriteMapFile ==
    FlattenSeq([k \in 1 .. 4 |->
        SelectSeq(symtable.list,
                  LAMBDA s : /\ s.name[1] \notin LocalNames
                             /\ s.segment = << "CODESEG", "DATASEG", "LITSEG", "BSSSEG" >>[k])])

Write ==
    /\ phase = "write"
    /\ output' = [qvm |-> WriteVmFile,
                  map |-> IF options.writeMapFile THEN WriteMapFile ELSE << >>]
    /\ phase' = IF errorCount = 0 THEN "done" ELSE "failed"
    /\ UNCHANGED << commandLine, passNumber, currentFileIndex, currentFileLine,
                    segment, symbolState, frame, instructionCount >>

Assemble == BeginPass \/ NextFile \/ EndPass \/ ReserveStack \/ Write

Next == Option \/ Files \/ AssembleLine \/ Assemble

Spec     == Init /\ [][Next]_vars
FairSpec == Spec /\ WF_vars(Next)

-----------------------------------------------------------------------------
(* Properties.                                                              *)

(* The type invariant.                                                      *)
AssemblerTypeOK ==
    /\ phase \in {"options", "begin", "assemble", "stack", "write"} \cup Finished
    /\ passNumber \in 0 .. 2 /\ currentSegment \in Segments \cup {"none"}
    /\ \A s \in Segments :
          /\ segment[s].image \in [1 .. MaxImage -> Byte]
          /\ segment[s].imageUsed \in Nat /\ segment[s].segmentBase \in Nat
    /\ \A k \in 1 .. Len(symtable.list) :
          symtable.list[k].segment \in Segments /\ symtable.list[k].value \in Word
    /\ frame \in [locals : Nat, args : Nat, argOffset : 0 .. ArgumentLimit - 8]
    /\ instructionCount \in Nat /\ errorCount \in Nat

(* The second pass put as much into every segment as the first: what the    *)
(* addresses were computed from is what is written, even after errors       *)
(* (Assemble; the pseudo segment of the jump targets, last, is excepted).   *)
SegmentsMeet ==
    phase \in {"stack", "write"} =>
        LET bss == IF phase = "write" THEN StackSize ELSE 0
        IN  /\ segment["LITSEG"].segmentBase = Used("DATASEG")
            /\ segment["BSSSEG"].segmentBase = Used("DATASEG") + Used("LITSEG")
            /\ segment["JTRGSEG"].segmentBase + bss
                  = Used("DATASEG") + Used("LITSEG") + Used("BSSSEG")

(* A label of the first pass is resolved, in the second, to the place of    *)
(* the data or the instruction behind it, wherever HackToSegment puts the   *)
(* data (LABEL, LookupSymbol, HackToSegment).                               *)
BehindLabel == currentFileLine > 0 /\ Lines[currentFileLine].word = "LABEL"
Places      == {"byte", "skip", "address", "ADDRF", "ADDRL", "CALL", "ARG", "RET",
                "pop", "endproc"} \cup DOMAIN sourceOps
LabelsAtData ==
    [][(/\ HasLine /\ passNumber = 1 /\ errorCount' = 0 /\ phase' = "assemble"
        /\ BehindLabel /\ line.word \in Places)
       => Address(<< Lines[currentFileLine].args[1].sym >>)
            = IF currentSegment' = "CODESEG" THEN instructionCount
              ELSE segment[currentSegment'].segmentBase + Used(currentSegment')]_vars

(* The outgoing arguments stay in the area proc reserved for them, below    *)
(* the locals of the same function (ARG, ADDRL, CALL).                      *)
ArgumentsBelowLocals ==
    [][(HasLine /\ errorCount' = errorCount /\ line.word \in {"ARG", "ADDRL"})
       => LET operand == IF line.word = "ARG" THEN 8 + frame.argOffset
                         ELSE 8 + frame.args + Value(Arg(1))
          IN  IF line.word = "ARG" THEN operand + 4 <= 8 + frame.args
              ELSE operand >= 8 + frame.args /\ operand < FrameSize]_vars

(* Read the way the loader reads it, the code of a written file has as many *)
(* instructions as its header says and ends where it says (Op emits an      *)
(* operand if the line has one, the loader reads one if the opcode has one);*)
(* the loader accepts the header, but for the limits of the whole file and  *)
(* of the .bss, which q3asm does not look at.                               *)
CodeDecodes ==
    (phase = "done" /\ instructionCount > 0) =>
        LET h      == output.qvm.header
            length == HeaderSize + Len(output.qvm.code) + Len(output.qvm.data)
        IN  /\ Aligned(EndOfCode(output.qvm.code, instructionCount)) = h.codeLength
            /\ (length <= MaxImage /\ h.bssLength <= MaxBss) => GoodHeader(h, length)

(* A file is written exactly when every symbol is defined once, every one   *)
(* used is defined where it is visible, and every line is one q3asm takes:  *)
(* no error is lost in the first pass, and none is invented by it.          *)
FileAt(f)   == AsmFiles[asmFileNames[f]]
Positions   == UNION {{<< f, k >> : k \in 1 .. Len(FileAt(f))} : f \in 1 .. Len(asmFileNames)}
LineAt(p)   == FileAt(p[1])[p[2]]
Key(p, sym) == IF sym \in LocalNames THEN << sym, p[1] - 1 >> ELSE << sym >>
Defining    == {p \in Positions : LineAt(p).word \in {"LABEL", "proc", "equ"}}
DefinedAt(p) == Key(p, LineAt(p).args[1].sym)
Uses(p) ==
    LET l == LineAt(p)
        from == IF l.word = "CVII4" THEN 2 ELSE 1
    IN  IF /\ l.word \in {"address", "ADDRF", "ADDRL"} \cup DOMAIN sourceOps
           /\ Len(l.args) >= from /\ l.args[from].sym # ""
        THEN {Key(p, l.args[from].sym)} ELSE {}
Before(p, q) == p[1] < q[1] \/ (p[1] = q[1] /\ p[2] < q[2])
ArgumentsBefore(p) ==
    {q \in Positions : /\ LineAt(q).word = "ARG" /\ Before(q, p)
                       /\ \A c \in Positions : (LineAt(c).word = "CALL" /\ Before(q, c))
                                                => Before(p, c)}
Legal(p) ==
    LET l == LineAt(p)
    IN  /\ l.word \in Statements
        /\ l.word \in DOMAIN sourceOps => sourceOps[l.word] # "OP_UNDEF"
        /\ l.word = "CVII4" => l.args[1].n \in {1, 2}
        /\ l.word = "byte" => l.args[1].n # 2
        /\ l.word = "proc" => 8 + Rounded(l.args[2].n) + Rounded(l.args[3].n) < FrameLimit
        /\ l.word = "ARG" => 8 + 4 * Cardinality(ArgumentsBefore(p)) < ArgumentLimit
WrittenIffLegal ==
    phase \in {"done", "failed"} =>
        ((phase = "done") <=>
            /\ \A p \in Positions : Legal(p)
            /\ \A p, q \in Defining : DefinedAt(p) = DefinedAt(q) => p = q
            /\ \A p \in Defining : DefinedAt(p) \notin {<< "_stackStart" >>, << "_stackEnd" >>}
            /\ \A p \in Positions : Uses(p) \subseteq {DefinedAt(q) : q \in Defining})

(* The assembler comes to an end, whatever the errors, if every line fits   *)
(* in its buffer; at one that does not it stays for ever, and it stays      *)
(* nowhere else (the loop of Assemble over ExtractLine).                    *)
Ends == <>(phase \in Finished) \/ <>[](HasLine /\ line.word = "TooLong")

=============================================================================
