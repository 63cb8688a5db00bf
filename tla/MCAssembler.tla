----------------------------- MODULE MCAssembler ------------------------------
(***************************************************************************)
(* Instances of Assembler for TLC: assembly files in the shapes lcc gives   *)
(* them, assembled together in groups, and files with one thing wrong.      *)
(***************************************************************************)
EXTENDS Assembler

Use(w, s)   == Line(w, << Symbol(s) >>)
Given(w, n) == Line(w, << Number(n) >>)
Byte1(n)    == Line("byte", << Number(1), Number(n) >>)
Byte4(n)    == Line("byte", << Number(4), Number(n) >>)
Proc(name, locals, args) ==
    Line("proc", << Symbol(name), Number(locals), Number(args) >>)
EndProc(name) == Line("endproc", << Symbol(name), Number(0), Number(0) >>)

(* int vmMain(int n) { int x = n; if (helper(x, &table) == 3) return x;     *)
(*                     return (char)x; }                                    *)
Main(callee) ==
    << Use("export", "vmMain"), Bare("code"), Proc("vmMain", 6, 8),
       Given("ADDRL", 0), Given("ADDRF", 0), Bare("INDIRI4"), Bare("ASGNI4"),
       Given("ADDRL", 4), Given("ADDRL", 0), Bare("INDIRB"), Given("ASGNB", 2),
       Given("ADDRL", 0), Bare("INDIRI4"), Bare("ARG"),
       Line("ADDRGP4", << Offset("table", 4) >>), Bare("ARG"),
       Use("ADDRGP4", callee), Bare("CALL"), Given("CNSTI4", 3), Use("NEI4", "$1"),
       Given("ADDRL", 0), Bare("INDIRI4"), Bare("RET"),
       Use("ADDRGP4", "$2"), Bare("JUMPV"),
       Use("LABEL", "$1"), Given("ADDRL", 0), Bare("INDIRI1"), Given("CVII4", 1),
       Bare("RET"), Use("LABEL", "$2"), EndProc("vmMain") >>

Helper ==
    << Bare("code"), Proc("helper", 0, 4), Given("ADDRF", 4), Bare("pop"),
       Given("ADDRF", 0), Bare("INDIRF4"), Given("CVFI4", 4), Bare("ARG"),
       Use("ADDRGP4", "trap"), Bare("CALL"), Given("CVUU1", 1), Use("LABEL", "$1"),
       Bare("RET"), EndProc("helper") >>

(* int *table[3] = { &bare, ...}; int bare; char *text = "ab";              *)
Data ==
    << Bare("data"), Use("export", "table"), Given("align", 4),
       Use("LABEL", "table"), Byte4(-2), Line("address", << Offset("bare", 4) >>),
       Given("skip", 4), Use("LABEL", "text"), Use("address", "$4"),
       Bare("bss"), Given("align", 4), Use("LABEL", "bare"), Given("skip", 8),
       Bare("lit"), Given("align", 1), Use("LABEL", "$4"), Byte1(1), Byte1(2), Byte1(0) >>

(* The table of a switch, a char array and an int behind it: all three go    *)
(* to another segment than the one they were announced for.                 *)
Switch ==
    << Bare("code"), Proc("pick", 0, 0), Use("ADDRGP4", "$3"), Bare("INDIRP4"),
       Bare("JUMPV"), Use("LABEL", "$1"), Use("LABEL", "$2"), Bare("BREAK"),
       EndProc("pick"), Bare("lit"), Given("align", 4), Use("LABEL", "$3"),
       Use("address", "$1"), Use("address", "$2"), Bare("data"), Given("align", 1),
       Use("LABEL", "bytes"), Byte1(7), Given("skip", 2), Given("align", 4),
       Use("LABEL", "last"), Byte4(16777215) >>

Syscalls == << Bare("code"), Line("equ", << Symbol("trap"), Number(-2) >>) >>

(* One thing wrong.                                                         *)
Wrong ==
    [twice      |-> << Bare("bss"), Given("align", 4), Use("LABEL", "bare"), Given("skip", 4) >>,
     sameLocal  |-> << Bare("code"), Use("LABEL", "$1"), Bare("pop"), Use("LABEL", "$1") >>,
     absent     |-> << Bare("code"), Use("ADDRGP4", "absent"), Use("ADDRGP4", "absent") >>,
     otherLocal |-> << Bare("code"), Use("ADDRGP4", "$4"), Use("ADDRGP4", "$4") >>,
     half       |-> << Bare("data"), Use("LABEL", "half"),
                       Line("byte", << Number(2), Number(5) >>) >>,
     extension  |-> << Bare("code"), Given("CVII4", 4) >>,
     refused    |-> << Bare("code"), Bare("LOADI4") >>,
     unknown    |-> << Bare("code"), Bare("CNSTI8") >>,
     many       |-> << Bare("code"), Proc("many", 0, 60) >>
                    \o [k \in 1 .. 15 |-> Bare("ARG")]
                    \o << Use("ADDRGP4", "many"), Bare("CALL"), EndProc("many") >>,
     frame      |-> << Bare("code"), Proc("frame", 2048, 0) >>,
     stack      |-> << Bare("bss"), Use("LABEL", "_stackStart"), Given("skip", 4) >>,
     usesStack  |-> << Bare("code"), Use("ADDRGP4", "_stackEnd") >>,
     big        |-> << Bare("data"), Use("LABEL", "big"), Byte4(1), Given("skip", 190),
                       Byte4(2), Byte4(3) >>]

Long == << Bare("code"), Bare("TooLong") >>

MCAsmFiles ==
    [main |-> Main("helper"), self |-> Main("vmMain"), helper |-> Helper,
     data |-> Data, switch |-> Switch, syscalls |-> Syscalls, long |-> Long]
    @@ Wrong

MCListFiles == [test |-> << "-o", "test", "main", "syscalls", "helper", "data" >>,
                none |-> << "-o" >>]
MCNumbers   == ("1" :> 1) @@ ("5" :> 5)

Complete == << "main", "data", "helper", "syscalls" >>
MCCommandLines ==
    {<< "-f", "test" >>, << "-m", "-f", "test", "switch" >>, Complete,
     << "-m", "-b", "1", "-o", "out", "switch" >> \o Complete,
     << "-b", "5", "switch", "self", "data" >>, << "syscalls" >>, << "self", "data", "long" >>,
     << "-vq3", "-v", "data", "self" >>, << "helper", "data" >>}
    \cup {<< "-f", "none" >>, << "-x", "self" >>, << "-o" >>, << "-f", "absent" >>,
          << "absent" >>, << >>}
    \cup {<< wrong, "self", "data" >> : wrong \in DOMAIN Wrong}
    \cup {<< "self", "data", wrong, "switch" >> : wrong \in DOMAIN Wrong}
MCLocalNames == {"$1", "$2", "$3", "$4"}

(* A hash with collisions and negative values.                              *)
MCHashString(name) == 4 - Len(name[1]) + 3 * (Len(name) - 1)

ASSUME UnmixedAssumption == Unmixed

(* The state is of its type, and a file is written if the program is one.     *)
OnlyLegalWritten == AssemblerTypeOK /\ WrittenIffLegal
===============================================================================
