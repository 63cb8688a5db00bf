---------------------------- MODULE MCPreprocessor ----------------------------
(***************************************************************************)
(* The parts of the preprocessor for TLC: a behaviour either scans one file    *)
(* through the buffer, or preprocesses one program of rows that were scanned. *)
(***************************************************************************)
EXTENDS Cpp

(* A row of a file; \ and a newline in it fold it.                          *)
RowOf(string) ==
    LET chars == Name(string)
        row0  == Row(Joined(chars))
        lines == Len(SelectSeq(chars, LAMBDA ch : ch = "\n"))
    IN  [row |-> IF lines = 0 THEN Append(row0, ENDToken) ELSE row0, inc |-> lines]
FileOf(strings) == [k \in DOMAIN strings |-> RowOf(strings[k])]

Program(files) ==
    [files |-> [p \in DOMAIN files |-> FileOf(files[p])], main |-> Name("m.c"), dirs |-> << >>,
     options |-> << >>]
Main(strings) == << "m.c" >> :> strings

Words  == << "#if A\n", "#ifdef A\n", "#elif 1\n", "#else\n", "#endif\n", "#define A 1\n", "x A\n" >>
WordRows == [k \in DOMAIN Words |-> RowOf(Words[k])]
Sequences(n) == UNION {[1 .. l -> DOMAIN Words] : l \in 0 .. n}
Grouped ==
    {[files |-> << "m.c" >> :> [k \in 1 .. Len(s) |-> WordRows[s[k]]], main |-> Name("m.c"),
      dirs |-> << >>, options |-> << >>] :
        s \in Sequences(3) \cup {<< 1 >> \o s \o << 5, 7 >> : s \in Sequences(4)}}

Options ==
    {[files |-> << "m.c" >> :> FileOf(<< "a b c\n", "#if a > 1\n", "b\n", "#endif\n" >>),
      main |-> Name("m.c"), dirs |-> << Name("i"), Name("j"), Name("i") >>, options |-> o] :
        o \in {<< [type |-> "D", arg |-> Name("a")], [type |-> "D", arg |-> Name("b=x y")] >>,
               << [type |-> "D", arg |-> Name("a=2")], [type |-> "U", arg |-> Name("b")] >>,
               << [type |-> "D", arg |-> Name("a=2")], [type |-> "U", arg |-> Name("a")] >>,
               << [type |-> "D", arg |-> Name("1")] >>, << [type |-> "D", arg |-> Name("a b")] >>,
               << [type |-> "U", arg |-> Name("a b")] >>}}

Nested ==
    LET body == {<< "#if 1\n" >>, << "#else\n" >>, << "#elif 0\n" >>, << "#endif\n" >>,
                 << "#ifndef H\n", "#define H\n", "h\n", "#endif\n" >>, << "h" >>,
                 << "#include \"h.h\"\n" >>, << "#line 7 \"y\"\n", "h\n" >>, << >>}
        mains == {<< "#include \"h.h\"\n", "#include <h.h>\n", "x\n" >>,
                  << "#if 1\n", "#include \"h.h\"\n", "x\n", "#endif\n" >>,
                  << "#if 0\n", "#include \"h.h\"\n", "#else\n", "x\n", "#endif\n" >>,
                  << "#include \\\n \"d/h.h\"\n", "x\n", "#include \"h.h\"\n", "y\n" >>}
    IN  {Program(Main(m) @@ (<< "h.h" >> :> b) @@ (<< "d", "h.h" >> :> << "d\n" >>)) :
            m \in mains, b \in body}

Calls ==
    {Program(Main(s)) : s \in
        {<< "#define f(x) x x\n", "f(1) f (2) f\n", "(3) f\n", "#define g\n" >>,
         << "#define f(x) #x x##1\n", "f(a b) f(\"s\\n\") f()\n" >>,
         << "#define f(x,y) x+y\n", "f(f(1,2),(3,4)) f(1) f(1,\n", "2) z\n", "w\n" >>,
         << "#define a b\n", "#define b a c\n", "a b c\n" >>,
         << "#define f(x) x*f\n", "f(f(2))(3)\n" >>,
         << "#define E\n", "#define M -\n", "-E- -M +E+ <E<= M-M aEb a E b 1E.2\n" >>,
         << "#define p(x) -x\n", "-p(-1) p(-p(2)) p(=)=\n" >>,
         << "#define a b\n", "#define b c\n", "#define c a\n", "a\n" >>,
         << "#define a b\n", "#define b c\n", "#define c d\n", "#define d a\n", "a\n" >>,
         << "#define f(x) x\n", "#define a 1\n", "f a\n", "f(a\n" >>,
         << "#define f(x) x\n", "#define a 1\n", "f b a\n", "f f a(1)\n", "f f(a) f a a f (f) a f(f)(a)\n" >>,
         << "#define c(x,y) x##y\n", "c(a,b) c(1,2) c(+,+) c(-,>) c(/,/) c(,a) c(a,c(1,2))\n" >>,
         << "#define h # x\n", "#define i(x) #y\n", "#define j(x) x##\n", "h i(1) j(1)\n" >>,
         << "#define f(a,b,c,d) a\n", "f(1,2,3,4)\n" >>,
         << "#define f(x) 1\n", "#define f(x) 2\n", "#undef f\n", "f(1)\n", "#undef f g\n" >>,
         << "#define f(x,x) 1\n", "#define f(\n", "#define 1\n", "#define defined\n", "#define __LINE__\n" >>,
         << "__LINE__\n", "a \\\n b\n", "__LINE__ __FILE__\n" >>,
         << "#pragma x\n", "#warning w\n", "#error e\n", "#\n", "#foo\n", "#+\n", "#eval 1\n" >>,
         << "#line 9\n", "__LINE__\n", "# 4 \"z\"\n", "t\n", "#line\n", "#line 3 4\n", "#line 2 \"a\" b\n" >>,
         << "#if 0\n", "# 9\n", "#foo\n", "#define q\n", "#endif\n", "x\n" >>,
         << "#define q\n", "#if 0\n", "#q\n", "#endif\n", "x\n", "#endif\n", "y\n" >>,
         << "#if 0\n", "#if 1\n", "#elif 1\n", "#else\n", "#endif\n", "#elif 1\n", "x\n", "#endif\n" >>,
         << "#if 1\n", "#if 0\n", "#if 1\n", "#if 1\n", "#if 1\n", "#if 1\n" >>,
         << "#if 1\n", "#if 1\n", "#if 1\n", "#if 1\n", "#if 1\n", "x\n" >>,
         << "#define a 3\n", "#if a*2-1 == 5 && !defined b && (defined(a) || 1/0)\n", "x\n", "#endif\n",
            "#if -1 > 0u\n", "y\n", "#elif 'a' < 'b' ? 0 : 010 == 8 && 0x1f & ~0x10\n", "z\n", "#endif\n" >>,
         << "#if 1 +\n", "#elif (1\n", "#elif 1)\n", "#elif 1 2\n", "#elif \"s\"\n", "#elif 1/0\n", "#elif defined +\n",
            "#elif 1,2\n", "#elif 1?2\n", "#elif 1:2\n", "#elif 1.5\n", "#elif ''\n", "#elif 2uL\n", "#elif *1\n", "#elif ^1\n", "#elif ;\n", "#elif\n", "#endif\n" >>,
         << "#if 8-4-2 == 2\n", "x\n", "#endif\n", "#if '\\n' == 10 && '\\x41' == 65 && '\\101' == 'A' && L'a'\n", "y\n", "#endif\n",
            "#if '\\18' == 1 && '\\1234' == 83 && '\\7f' == 7\n", "z\n", "#endif\n" >>,
         << "#if 7 % 4 == 3 && 7 / 2 == 3 && (1 << 2 | 8 >> 2 ^ 1) == 7 && 3 >= 2 && 2 <= 2 && 1 != 2\n", "x\n", "#endif\n" >>,
         << "#include\n", "#include x\n", "#include \"none\"\n", "#include <none\n", "#include \"\"\n", "#include \"m.c\" x\n" >>,
         << "#define H \"m.c\"\n", "#ifndef G\n", "#define G\n", "#include H\n", "#else\n", "g\n", "#endif\n", "x\n" >>,
         << "#include \"a/b/m.c\"\n", "#include \"c/m.c\"\n", "#include \"d/m.c\"\n", "#include \"e/m.c\"\n" >>,
         << "#define f(x) x\n", "f(1,\n", "#if 1\n", "2)\n", "f (\n", "3) 4\n" >>,
         << "#undef defined\n", "#if defined x\n", "#endif\n", "#ifdef\n", "#endif x\n", "#if 1\n", "#else x\n" >>}}

MCPrograms == Grouped \cup Options \cup Nested \cup Calls

-----------------------------------------------------------------------------
(* The scanner and its files.                                               *)
CONSTANTS INS, ScannedTexts
VARIABLES text, unread, buf, end, ip, t, ws, state, inrow, rows, line, lineinc, phase, start, dropped

Lex   == INSTANCE MCCppLex WITH Texts <- ScannedTexts, row <- inrow

(* Files to scan: every short one of the characters that make trigraphs,       *)
(* folded lines, comments and quotes, and longer ones.                        *)
Spelt(string) == [k \in 1 .. Len(string) |-> SubSeq(string, k, k)]

Short4 == UNION {[1 .. n -> {"/", "*", "\n", "\\", "\"", "?", "a"}] : n \in 0 .. 4}

Longer ==
    {Spelt(string) : string \in
        {"a ??/\nb\n", "\"s\\\nt\"x", "x/*c\n*/y\n", "1e+5.2_a+", "a<<=b>>c->d\n", "...a..5..b",
         "L'x'L\"y\"Lz", "\"ab\nc\n", "//c\\\nd\ne", "/**", "/*a*", "??=??(??)??<??>", "???=?? ?",
         "a\\\\\n\nb", "?\\\n?=", "??\\\n=", "'\\''+++--", "\"??/\"\"a", "/\\\n*c*\\\n/d",
         "aaaaaaaaaaaaaaaaaaaaaa", "a b c d e f g h i j k l m\n", "/*aaaaaaaaaaaaaaaaaaaaa*/b\n",
         "/*aaaaaaaaaaa\n*aaaaaaaaa*/b\n", "a b\na b\nabcd abcd\nab\nabcde\n",
         "a\n\nb\na\n\n\nb\na\n\nb\na\nb\n"}}
    \cup {<< "a", " ", "EOB", "b", "\n" >>, << "/", "*", "EOB", "*", "/" >>}

FilesToScan == Short4 \cup Longer

lexVars == << text, unread, buf, end, ip, t, ws, state, inrow, rows, line, lineinc, phase, start, dropped >>
Scanner == phase # "none"      \* it is one that scans
NoScan ==
    /\ phase = "none" /\ text = << >> /\ unread = << >> /\ buf = << >> /\ end = "EOB" /\ ip = 0
    /\ t = 0 /\ ws = FALSE /\ state = "START" /\ inrow = << >> /\ rows = << >>
    /\ line = 0 /\ lineinc = 0 /\ start = 0 /\ dropped = FALSE
NoProgram ==
    /\ status = "none" /\ program = << >> /\ sources = << >> /\ ifdepth = 0 /\ skipping = 0
    /\ ifsatisfied = << >> /\ macros = << >> /\ installed = {} /\ includelist = << >> /\ out = << >>
    /\ errors = 0 /\ odd = {}

PreInit == (NoScan /\ Init) \/ (NoProgram /\ Lex!Init)
ScanStep   == Scanner /\ Lex!Next /\ UNCHANGED vars
Preprocess == ~ Scanner /\ Next /\ UNCHANGED lexVars
PreNext == ScanStep \/ Preprocess
PreSpec == PreInit /\ [][PreNext]_<< vars, lexVars >> /\ WF_lexVars(ScanStep)

(* The scanner's tokens and line numbers do not depend on the buffer; the       *)
(* buffer is never passed, and found full only on a row that is too long.      *)
ScannedAsWhole == Scanner => Lex!ReadsAsWhole /\ Lex!RowsFit
(* It reads a file to the end, or gives up.                                   *)
ScanEnds == Scanner ~> phase \in {"done", "dead"}
(* Conditional groups and includes are the program's.                         *)
GroupsHold == ~ Scanner => TypeOK /\ GroupsObeyed
(* The compiler is told the programmer's lines.                              *)
LinesHold == ~ Scanner => LinesInSync
(* Expansion ends and leaves no macro behind, and what is written of it is     *)
(* read as it is meant.                                                      *)
TextHolds == ~ Scanner => TextReadsBack /\ ExpansionEnds /\ ExpandedWhole
===============================================================================
