---------------------------------- MODULE Cpp ---------------------------------
(***************************************************************************)
(* The preprocessor (cpp.c, include.c, nlist.c of src/lcc/cpp): rows of tokens *)
(* are fetched from a stack of sources, control lines are obeyed, the others   *)
(* expanded and written, with #line lines that keep the compiler informed.    *)
(***************************************************************************)
EXTENDS CppMacro, CppEval

CONSTANTS
    Programs,    \* what is preprocessed: [files, main, dirs]
    NIF,         \* depth of #if it has room for
    NINCLUDE,    \* directories it has room for
    MaxInclude   \* depth of #include

VARIABLES
    program,
    sources,      \* cursource is the last; what is left of it starts at row pos
    ifdepth, skipping, ifsatisfied,
    macros, installed,    \* the macros, and every name that ever was one
    includelist,          \* in the order of the search, the one of the main file first
    out,
    errors,
    status,       \* running, done, fatal, or endless when the bound is met
    odd           \* history: the doubtful things control lines did

vars == << program, sources, ifdepth, skipping, ifsatisfied, macros, installed, includelist, out,
           errors, status, odd >>

-----------------------------------------------------------------------------
(* The file system: a path is what is between its slashes.                   *)

RECURSIVE Components(_, _)
Components(path, name) ==
    IF path = << >> THEN IF name \in {<< >>, << "." >>} THEN << >> ELSE << Spelling(name) >>
    ELSE IF Head(path) = "/" THEN Components(<< >>, name) \o Components(Tail(path), << >>)
    ELSE Components(Tail(path), Append(name, Head(path)))
FileAt(path) == Components(path, << >>)
Exists(path) == FileAt(path) \in DOMAIN program.files
RowsOf(path) == program.files[FileAt(path)]

basepath(fname) ==
    LET n == SelectLastInSeq(fname, LAMBDA ch : ch = "/")
    IN  IF n = 0 THEN << "." >> ELSE SubSeq(fname, 1, n - 1)

-----------------------------------------------------------------------------
(* The rows.  A file is a sequence of rows, each with the lines it takes.     *)

cursource == Last(sources)
Rows(src) == RowsOf(src.path)
AtEnd     == cursource.pos > Len(Rows(cursource))
row       == Rows(cursource)[cursource.pos].row
Control   == row[1].type = "SHARP"
Lines(src, n) == FoldLeft(LAMBDA sum, r : sum + r.inc, 0, SubSeq(Rows(src), src.pos, src.pos + n - 1))

setsource(path) ==
    [path |-> path, filename |-> path, line |-> 1, lineinc |-> 0, ifdepth |-> 0, pos |-> 1]

Line(src)  == [kind |-> "line", row |-> << >>, filename |-> src.filename, line |-> src.line]
Put(kind, toks) == [kind |-> kind, row |-> toks, filename |-> << >>, line |-> 0]

env == [macros |-> macros, line |-> cursource.line, inIf |-> FALSE]
DefinedIn(e) == DOMAIN e.macros \cup {Name(b) : b \in Builtins}

(* Mutant of Processed: a row of several lines is not announced.             *)
ProcessedSilently(src, item, taken) ==
    LET inc == Lines(src, 1 + taken)
    IN  /\ sources' = Append(Front(sources), [src EXCEPT !.line = @ + inc, !.lineinc = inc, !.pos = @ + 1 + taken])
        /\ out' = Append(out, item)

(* Behind a row of which the source src is left and item is written: the     *)
(* lines are counted, and announced when the row took several.               *)
Processed(src, item, taken) ==
    LET inc  == Lines(src, 1 + taken)
        next == [src EXCEPT !.line = @ + inc, !.lineinc = inc, !.pos = @ + 1 + taken]
    IN  /\ sources' = Append(Front(sources), next)
        /\ out' = out \o << item >> \o (IF inc > 1 THEN << Line(next) >> ELSE << >>)

Ended(dead, left, else) == IF dead THEN "fatal" ELSE IF left = 0 THEN "endless" ELSE else

Emptied == Put("empty", << NLToken >>)

(* A control line that is only passed on, and its errors.                    *)
Passed(errs) ==
    /\ Processed(cursource, IF skipping # 0 THEN Emptied ELSE Put("control", row), 0)
    /\ errors' = errors + errs
Obeyed(errs) ==
    /\ Processed(cursource, Emptied, 0)
    /\ errors' = errors + errs
-----------------------------------------------------------------------------
(* process.                                                                 *)

Running == status = "running"

(* The rows a call on the current one may swallow, and what came of them.      *)
Following == [k \in 1 .. Len(Rows(cursource)) - cursource.pos |-> Rows(cursource)[cursource.pos + k].row]
SwallowsControl(taken) == \E k \in 1 .. taken : Following[k][1].type = "SHARP"
WriteText(trp) ==
    /\ Processed(cursource, Put("text", trp.row), trp.taken)
    /\ errors' = errors + trp.errors
    /\ status' = Ended(trp.dead, trp.left, status)
    /\ odd' = odd \cup (IF SwallowsControl(trp.taken) THEN {"control line in a call"} ELSE {})

TextLine ==
    /\ Running /\ ~ AtEnd /\ ~ Control
    /\ IF skipping # 0 THEN Obeyed(0) /\ UNCHANGED << status, odd >>
       ELSE WriteText(expandrow(env, Reading(row, Following)))
    /\ UNCHANGED << program, ifdepth, skipping, ifsatisfied, macros, installed, includelist >>

(* The last row is without a newline.                                       *)
LineBegun(rows) == rows # << >> /\ Last(Last(rows).row).type = "END"

EndOfInclude ==
    /\ Running /\ AtEnd /\ Len(sources) > 1
    /\ LET under == sources[Len(sources) - 1]
           next  == [under EXCEPT !.line = @ + under.lineinc]
       IN  /\ sources' = Append(Front(Front(sources)), next)
           /\ out' = Append(out, Line(next))
    /\ odd' = odd \cup (IF LineBegun(Rows(cursource)) THEN {"a #line behind text"} ELSE {})
    /\ errors' = errors + (IF cursource.ifdepth # 0 THEN 1 ELSE 0)
    /\ UNCHANGED << program, ifdepth, skipping, ifsatisfied, macros, installed, includelist,
                    status >>

EndOfMain ==
    /\ Running /\ AtEnd /\ Len(sources) = 1
    /\ errors' = errors + (IF ifdepth # 0 THEN 1 ELSE 0)
    /\ status' = "done"
    /\ UNCHANGED << program, sources, ifdepth, skipping, ifsatisfied, macros, installed,
                    includelist, out, odd >>

-----------------------------------------------------------------------------
(* control.                                                                 *)

Conditionals == {"if", "ifdef", "ifndef"}
kwtab == Conditionals \cup
         {"elif", "else", "endif", "include", "define", "undef", "line", "warning", "error",
          "pragma", "eval"}
word == Spelling(row[2].t)
Word == row[2].type = "NAME"

AtControl == Running /\ ~ AtEnd /\ Control
At(word1) == AtControl /\ Word /\ word = word1 /\ skipping = 0

(* #undef, #else and #endif count the tokens with the newline.               *)
Short(n) == Len(row) = n

Valued(got, trp) ==
    [val |-> got.val # 0, errors |-> trp.errors + got.errors, left |-> trp.left, dead |-> trp.dead]
OfRow(e, trp) == Valued(Evaluated(SubSeq(trp.row, 3, Len(trp.row)), DefinedIn(e)), trp)
IsIt(val, errs) == [val |-> val, errors |-> errs, left |-> 1, dead |-> FALSE]
Values(e, r, kw) ==
    IF kw \notin {"ifdef", "ifndef"}
    THEN OfRow(e, expandrow([e EXCEPT !.inIf = TRUE], [Reading(r, << >>) EXCEPT !.tp = 3]))
    ELSE IF Len(r) # 4 \/ r[3].type # "NAME" THEN IsIt(FALSE, 1)
    ELSE IsIt((kw = "ifdef") = (r[3].t \in DefinedIn(e)), 0)

Deeper(n) == [cursource EXCEPT !.ifdepth = @ + n]

(* Words that are no directive; one that was ever a macro opens a group when  *)
(* lines are skipped.                                                       *)
OpensSkipped == word \in Conditionals \/ (row[2].t \in installed /\ word \notin kwtab)

Unidentified ==
    /\ AtControl
    /\ \/ ~ Word /\ row[2].type # "NUMBER" /\ Passed(IF row[2].type = "NL" THEN 0 ELSE 1)
       \/ Word /\ skipping = 0 /\ word \notin kwtab /\ Passed(0)
       \/ /\ Word /\ skipping # 0 /\ ~ OpensSkipped
          /\ word \notin {"endif", "elif", "else"} /\ Passed(0)
    /\ UNCHANGED << program, ifdepth, skipping, ifsatisfied, macros, installed, includelist,
                    status, odd >>

Open(n) ==
    /\ ifdepth' = ifdepth + 1
    /\ status' = IF ifdepth + 1 >= NIF THEN "fatal" ELSE n

SkippedIf ==
    /\ AtControl /\ Word /\ skipping # 0 /\ OpensSkipped
    /\ Open(status)
    /\ Processed(Deeper(1), Emptied, 0)
    /\ odd' = odd \cup (IF word \in Conditionals THEN {} ELSE {"a name taken for #if"})
    /\ UNCHANGED << program, skipping, ifsatisfied, macros, installed, includelist, errors >>

(* The #elif and #else of a group inside of a skipped one.                   *)
SkippedBranch ==
    /\ AtControl /\ Word /\ skipping # 0 /\ word \in {"elif", "else"} /\ ifdepth > skipping
    /\ Obeyed(0)
    /\ UNCHANGED << program, ifdepth, skipping, ifsatisfied, macros, installed, includelist,
                    status, odd >>

SkippedEndif ==
    /\ AtControl /\ Word /\ skipping # 0 /\ word = "endif"
    /\ ifdepth' = ifdepth - 1
    /\ skipping' = IF ifdepth - 1 < skipping THEN 0 ELSE skipping
    /\ Processed(Deeper(-1), Emptied, 0)
    /\ UNCHANGED << program, ifsatisfied, macros, installed, includelist, errors, status, odd >>

IfValue(v) ==
    /\ Open(Ended(v.dead, v.left, status))
    /\ ifsatisfied' = [d \in DOMAIN ifsatisfied \cup {ifdepth + 1} |->
                         IF d = ifdepth + 1 THEN IF v.val THEN 1 ELSE 0 ELSE ifsatisfied[d]]
    /\ skipping' = IF v.val THEN 0 ELSE ifdepth + 1
    /\ errors' = errors + v.errors
IfLine ==
    /\ AtControl /\ Word /\ skipping = 0 /\ word \in Conditionals
    /\ IfValue(Values(env, row, word))
    /\ Processed(Deeper(1), Emptied, 0)
    /\ UNCHANGED << program, macros, installed, includelist, odd >>

Branch == AtControl /\ Word /\ (skipping = 0 \/ ifdepth <= skipping)

(* Mutant of Chosen: a later branch is taken although one was.        *)
ChosenAgain(v) == [skipping |-> IF v THEN 0 ELSE ifdepth, satisfied |-> IF v THEN 1 ELSE ifsatisfied[ifdepth]]

Chosen(v) ==
    IF v /\ ifsatisfied[ifdepth] = 0 THEN [skipping |-> 0, satisfied |-> 1]
    ELSE [skipping |-> ifdepth, satisfied |-> ifsatisfied[ifdepth]]

ElifValue(v) ==
    /\ Obeyed(v.errors + (IF ifsatisfied[ifdepth] = 2 THEN 1 ELSE 0))
    /\ skipping' = Chosen(v.val).skipping
    /\ ifsatisfied' = [ifsatisfied EXCEPT ![ifdepth] = Chosen(v.val).satisfied]
    /\ status' = Ended(v.dead, v.left, status)
    /\ odd' = odd \cup (IF cursource.ifdepth = 0 THEN {"#elif of the includer"} ELSE {})
Elif ==
    /\ Branch /\ word = "elif"
    /\ IF ifdepth = 0
       THEN Passed(1) /\ UNCHANGED << skipping, ifsatisfied, status, odd >>
       ELSE ElifValue(Values(env, row, "if"))
    /\ UNCHANGED << program, ifdepth, macros, installed, includelist >>

Else ==
    /\ Branch /\ word = "else"
    /\ IF ifdepth = 0 \/ cursource.ifdepth = 0
       THEN Passed(1) /\ UNCHANGED << skipping, ifsatisfied >>
       ELSE /\ Obeyed((IF ifsatisfied[ifdepth] = 2 THEN 1 ELSE 0) + (IF Short(3) THEN 0 ELSE 1))
            /\ skipping' = IF ifsatisfied[ifdepth] # 0 THEN ifdepth ELSE 0
            /\ ifsatisfied' = [ifsatisfied EXCEPT ![ifdepth] = 2]
    /\ UNCHANGED << program, ifdepth, macros, installed, includelist, status, odd >>

Endif ==
    /\ At("endif")
    /\ IF ifdepth = 0 \/ cursource.ifdepth = 0
       THEN Passed(1) /\ UNCHANGED ifdepth
       ELSE /\ Processed(Deeper(-1), Emptied, 0)
            /\ ifdepth' = ifdepth - 1
            /\ UNCHANGED errors
    /\ UNCHANGED << program, skipping, ifsatisfied, macros, installed, includelist, status, odd >>

-----------------------------------------------------------------------------
Defined1(def) == macros' = def.macros /\ Obeyed(def.errors)
Define ==
    /\ At("define")
    /\ Defined1(dodefine(macros, row, 2))
    /\ installed' = installed \cup (IF row[3].type = "NAME" THEN {row[3].t} ELSE {})
    /\ UNCHANGED << program, ifdepth, skipping, ifsatisfied, includelist, status, odd >>

Undef ==
    /\ At("undef")
    /\ IF row[3].type # "NAME" \/ ~ Short(4) THEN Obeyed(1) /\ UNCHANGED macros
       ELSE Obeyed(0) /\ macros' = [n \in DOMAIN macros \ {row[3].t} |-> macros[n]]
    /\ UNCHANGED << program, ifdepth, skipping, ifsatisfied, installed, includelist, status, odd >>

Message ==
    /\ \/ At("pragma") /\ Passed(0)
       \/ At("warning") /\ Obeyed(0)
       \/ At("error") /\ Obeyed(1)
       \/ At("eval") /\ Obeyed(Values(env, row, "if").errors)
    /\ UNCHANGED << program, ifdepth, skipping, ifsatisfied, macros, installed, includelist,
                    status, odd >>

RECURSIVE atol(_)
atol(t) == IF t = << >> \/ ~ Last(t) \in C_NUM THEN 0 ELSE 10 * atol(Front(t)) + digit(Last(t))

(* #line and # with the number behind it, which is obeyed also where lines    *)
(* are skipped: then the compiler is not told.                              *)
GoodLine(toks, from) ==
    /\ TypeAt(toks, from) = "NUMBER" /\ Len(toks) \in {from + 1, from + 2}
    /\ Len(toks) = from + 2 => toks[from + 1].type = "STRING"
    /\ toks[from + 1].t = << >> \/ toks[from + 1].t[1] # "L"
Unquoted(t) == SubSeq(t, 2, Len(t) - 1)
Renumbered(toks, from) ==
    [cursource EXCEPT !.line = atol(toks[from].t) - 1,
                      !.filename = IF Len(toks) = from + 1 THEN @ ELSE Unquoted(toks[from + 1].t)]
NumberLine(toks, from, errs, good) ==
    /\ Processed(IF good THEN Renumbered(toks, from) ELSE cursource,
                 IF skipping # 0 THEN Emptied ELSE Put("control", toks), 0)
    /\ errors' = errors + errs + (IF good THEN 0 ELSE 1)
NumberRow(toks, from, errs) == NumberLine(toks, from, errs, GoodLine(toks, from))
NumberWord(trp) == NumberRow(trp.row, 3, trp.errors)
LineLine ==
    /\ AtControl
    /\ row[2].type = "NUMBER" \/ (Word /\ word = "line" /\ skipping = 0)
    /\ IF Word THEN NumberWord(expandrow(env, [Reading(row, << >>) EXCEPT !.tp = 3]))
       ELSE NumberRow(row, 2, 0)
    /\ odd' = odd \cup (IF skipping # 0 THEN {"a skipped line number"} ELSE {})
    /\ UNCHANGED << program, ifdepth, skipping, ifsatisfied, macros, installed, includelist, status >>

-----------------------------------------------------------------------------
(* include.c                                                                *)

Under(dir, fname) == dir \o << "/" >> \o fname

(* The list with the directory, which it has once, below that of the main    *)
(* file; << >> if it is full.                                               *)
AppendOnce(list, fqdir) ==
    IF fqdir \in Range(Tail(list)) THEN << list >>
    ELSE IF Len(list) = NINCLUDE THEN << >> ELSE << Append(list, fqdir) >>
appendDirToIncludeList(list, dir) == AppendOnce(list, Under(list[1], dir))

(* The name behind #include, expanded if it is no name as it stands: one      *)
(* token behind it, the newline.                                            *)
IncludeIs(toks, errs, name, angled, behind) ==
    [good |-> TypeAt(toks, 3) \in {"STRING", "LT"} /\ behind > 0 /\ behind + 1 >= Len(toks) /\ name # << >>,
     fname |-> name, angled |-> angled, errors |-> errs]
Angled(toks, errs, close) ==
    IncludeIs(toks, errs, FlattenSeq([k \in 1 .. close - 4 |-> toks[k + 3].t]), TRUE, close)
IncludeIn(trp) ==
    IF TypeAt(trp.row, 3) = "LT"
    THEN Angled(trp.row, trp.errors, SelectInSeq(trp.row, LAMBDA tok : tok.type = "GT"))
    ELSE IncludeIs(trp.row, trp.errors, Unquoted(trp.row[3].t), FALSE, 3)
IncludeName(e, r) ==
    IncludeIn(IF r[3].type \in {"STRING", "LT"} THEN Reading(r, << >>)
              ELSE expandrow(e, [Reading(r, << >>) EXCEPT !.tp = 3]))

(* "": the list from its start, the directory of the main file; <> behind it.   *)
Searched(fname, list) == SelectInSeq(list, LAMBDA dir : Exists(Under(dir, fname)))
FoundAt(fname, list, at) == IF at > 0 THEN << Under(list[at], fname) >> ELSE << >>
FoundIn(fname, list) == FoundAt(fname, list, Searched(fname, list))
Found(fname, angled, list) ==
    IF fname[1] = "/" THEN IF Exists(fname) THEN << fname >> ELSE << >>
    ELSE FoundIn(fname, IF angled THEN Tail(list) ELSE list)

(* A row of which nothing is written, not its newline either.                *)
Dropped(errs) == Processed(cursource, Put("empty", << >>), 0) /\ errors' = errors + errs

(* The file is read, or is not there; the list keeps the directory of the name.*)
IncludeFile(path, errs) ==
    IF path = << >> THEN Dropped(errs + 1) /\ UNCHANGED status
    ELSE /\ status' = IF Len(sources) > MaxInclude THEN "fatal" ELSE status
         /\ sources' = Append(Append(Front(sources), [cursource EXCEPT !.lineinc = Lines(cursource, 1), !.pos = @ + 1]),
                              setsource(path[1]))
         /\ out' = Append(out, Line(setsource(path[1])))
         /\ errors' = errors + errs
IncludeFrom(name, lists) ==
    IF lists = << >> THEN status' = "fatal" /\ UNCHANGED << sources, out, errors, includelist >>
    ELSE /\ includelist' = lists[1]
         /\ IncludeFile(Found(name.fname, name.angled, lists[1]), name.errors)
IncludeNamed(name) ==
    IF ~ name.good THEN Dropped(name.errors + 1) /\ UNCHANGED << includelist, status >>
    ELSE IncludeFrom(name, appendDirToIncludeList(includelist, basepath(name.fname)))
Include ==
    /\ At("include")
    /\ IncludeNamed(IncludeName(env, row))
    /\ UNCHANGED << program, ifdepth, skipping, ifsatisfied, macros, installed, odd >>

-----------------------------------------------------------------------------
(* setup_kwtab and setup: the directories of -I behind that of the file.     *)
RECURSIVE WithDirs(_, _)
WithDirs(list, dirs) ==
    IF dirs = << >> THEN list
    ELSE WithDirs(appendDirToIncludeList(list, Head(dirs))[1], Tail(dirs))

(* -D and -U, in their order; << >> if one is ill formed.                    *)
Given(options) ==
    FoldLeft(LAMBDA got, o : IF got = << >> THEN got
                             ELSE doadefine(got[1], Append(Row(o.arg), ENDToken), o.type),
             << Defined :> Object(Row(Defined)) >>, options)

Started(given) ==
    /\ macros = IF given = << >> THEN << >> ELSE given[1]
    /\ status = IF given = << >> THEN "fatal" ELSE "running"
Init ==
    /\ program \in Programs
    /\ sources = << setsource(program.main) >>
    /\ ifdepth = 0 /\ skipping = 0 /\ ifsatisfied = << >>
    /\ Started(Given(program.options))
    /\ installed = DOMAIN macros
    /\ includelist = WithDirs(<< basepath(program.main) >>, program.dirs)
    /\ out = << Line(setsource(program.main)) >>
    /\ errors = 0 /\ odd = {}

Next ==
    \/ TextLine \/ EndOfInclude \/ EndOfMain \/ Unidentified
    \/ SkippedIf \/ SkippedBranch \/ SkippedEndif \/ IfLine \/ Elif \/ Else \/ Endif
    \/ Define \/ Undef \/ Message \/ LineLine \/ Include

Spec == Init /\ [][Next]_vars

-----------------------------------------------------------------------------
(* What C says of the groups of a file: the part of a group behind the first  *)
(* condition that holds is all that counts of it.                           *)

Directive(r) == IF r[1].type = "SHARP" /\ r[2].type = "NAME" THEN Spelling(r[2].t) ELSE ""

(* The rows of the #elif, #else and #endif of the group row k is in.         *)
RECURSIVE Parts(_, _, _)
PartsFrom(rows, k, depth, w) ==
    IF w \in Conditionals THEN Parts(rows, k + 1, depth + 1)
    ELSE IF w = "endif" THEN IF depth > 0 THEN Parts(rows, k + 1, depth - 1) ELSE << k >>
    ELSE (IF depth = 0 /\ w \in {"elif", "else"} THEN << k >> ELSE << >>) \o Parts(rows, k + 1, depth)
Parts(rows, k, depth) ==
    IF k > Len(rows) THEN << >> ELSE PartsFrom(rows, k, depth, Directive(rows[k].row))

(* st: the macros, the directories, the text so far, and whether the groups   *)
(* are nested as they should be.                                            *)
WellNested(kinds) == Last(kinds) = "endif" /\ \A k \in DOMAIN kinds : kinds[k] = "else" => k = Len(kinds) - 1
FirstTrue(e, rows, parts, kinds) ==
    SelectInSeq([k \in 1 .. Len(parts) - 1 |-> k],
                LAMBDA k : \/ kinds[k] = "else"
                           \/ Values(e, rows[parts[k]].row, IF kinds[k] = "elif" THEN "if" ELSE kinds[k]).val)

RECURSIVE Meaning(_, _, _, _)
GroupMeans(st, rows, to, parts, true) ==
    Meaning(IF true = 0 THEN st ELSE Meaning(st, rows, parts[true] + 1, parts[true + 1]), rows, Last(parts) + 1, to)
GroupOf(st, rows, to, e, parts, kinds) ==
    IF WellNested(kinds) THEN GroupMeans(st, rows, to, parts, FirstTrue(e, rows, parts, kinds)) ELSE [st EXCEPT !.ok = FALSE]
Group(st, rows, to, e, parts) == GroupOf(st, rows, to, e, parts, [k \in DOMAIN parts |-> Directive(rows[parts[k]].row)])
FileMeans(st, file) == Meaning(st, file, 1, Len(file) + 1)
Included(st, name, list) == FileMeans([st EXCEPT !.list = list], RowsOf(Found(name.fname, name.angled, list)[1]))
NameMeans(st, name) == Included(st, name, appendDirToIncludeList(st.list, basepath(name.fname))[1])
TextMeans(st, rows, i, to, text) == Meaning([st EXCEPT !.texts = Append(@, text.row)], rows, i + 1 + text.taken, to)
RowMeans(st, rows, i, to, r, w, e) ==
    CASE w \in Conditionals -> Group(st, rows, to, e, << i >> \o Parts(rows, i + 1, 0))
      [] w \in {"elif", "else", "endif"} -> [st EXCEPT !.ok = FALSE]
      [] w = "define" -> Meaning([st EXCEPT !.macros = dodefine(@, r, 2).macros], rows, i + 1, to)
      [] w = "undef" -> Meaning([st EXCEPT !.macros = [n \in DOMAIN @ \ {r[3].t} |-> @[n]]], rows, i + 1, to)
      [] w = "include" -> Meaning(NameMeans(st, IncludeName(e, r)), rows, i + 1, to)
      [] r[1].type = "SHARP" /\ w \notin kwtab \ {"line", "eval"} -> Meaning(st, rows, i + 1, to)
      [] OTHER -> TextMeans(st, rows, i, to, expandrow(e, Reading(r, [k \in 1 .. Len(rows) - i |-> rows[i + k].row])))
Meaning(st, rows, i, to) ==
    IF i >= to \/ ~ st.ok THEN st
    ELSE RowMeans(st, rows, i, to, rows[i].row, Directive(rows[i].row),
                  [macros |-> st.macros, inIf |-> FALSE,
                   line |-> FoldLeft(LAMBDA sum, x : sum + x.inc, 1, SubSeq(rows, 1, i - 1))])

Texts == LET texts == SelectSeq(out, LAMBDA item : item.kind = "text")
         IN  [k \in DOMAIN texts |-> texts[k].row]

(* A program that is preprocessed without an error has its groups nested, and *)
(* what is written of it is the text of the groups that hold, expanded with    *)
(* the macros defined in them, through all includes.                        *)
Meant(rows) ==
    Meaning([macros |-> Given(program.options)[1], list |-> WithDirs(<< basepath(program.main) >>, program.dirs),
             texts |-> << >>, ok |-> TRUE], rows, 1, Len(rows) + 1)
AsMeant(meaning) == meaning.ok /\ Texts = meaning.texts
GroupsObeyed ==
    status = "done" /\ errors = 0 /\ odd \subseteq {"a #line behind text", "a skipped line number"} =>
        AsMeant(Meant(RowsOf(program.main)))

(* Where the compiler takes itself to be behind an item of the output.        *)
See(at, item) ==
    LET tokens == item.row
        number == IF TypeAt(tokens, 2) = "NUMBER" THEN 2 ELSE 3
        lines  == Cardinality({k \in DOMAIN tokens : tokens[k].type = "NL"})
        told   == item.kind = "control" /\ TypeAt(tokens, number) = "NUMBER"
    IN  IF item.kind = "line" THEN [filename |-> item.filename, line |-> item.line]
        ELSE IF told
        THEN [line |-> atol(tokens[number].t) + lines - 1,
              filename |-> IF TypeAt(tokens, number + 1) = "STRING"
                           THEN SubSeq(tokens[number + 1].t, 2, Len(tokens[number + 1].t) - 1)
                           ELSE at.filename]
        ELSE [at EXCEPT !.line = @ + lines]

(* The compiler reports the lines the programmer wrote: in front of each row  *)
(* it takes itself to be where cpp is, through folded lines, calls of several  *)
(* lines, includes and #line.                                               *)
LinesInSync ==
    errors = 0 /\ odd \cap {"a #line behind text", "a skipped line number"} = {} =>
        FoldLeft(See, [filename |-> << >>, line |-> 0], out)
            = [filename |-> cursource.filename, line |-> cursource.line]

(* The text is taken apart by the compiler as it is written: no two tokens    *)
(* that expansion brings together become another.                           *)
Written(toks) == FlattenSeq([k \in DOMAIN toks |-> (IF toks[k].ws THEN << " " >> ELSE << >>) \o toks[k].t])
ReadsBack(toks, back) == [j \in DOMAIN toks |-> toks[j].t] = [j \in 1 .. Len(back) - 1 |-> back[j].t]
Rescanned(toks) == ReadsBack(toks, Tokens(Written(toks)))
TextReadsBack == \A k \in DOMAIN Texts : Rescanned(SelectSeq(Texts[k], LAMBDA tok : tok.type # "END"))

(* Nothing that is a macro is left in a row as it is written, but names of      *)
(* functions that are not called, and what stands behind such a name and was    *)
(* looked at for its parenthesis: expand steps over that too (macro.c:192), so   *)
(* that in "f a" the macro a stays.                                          *)
Tight(toks) == SelectSeq(toks, LAMBDA tok : tok.type \notin {"NL", "END"})
IsFunction(tok) == Expandable(env, tok) /\ tok.t \in DOMAIN macros /\ macros[tok.t].ap # << >>
SteppedOver(toks) ==
    LET over[k \in 1 .. Len(toks)] == k > 1 /\ IsFunction(toks[k - 1]) /\ ~ over[k - 1] IN over
NothingLeft(toks) ==
    \A k \in DOMAIN toks : Expandable(env, toks[k]) =>
        SteppedOver(toks)[k] \/ (IsFunction(toks[k]) /\ TypeAt(toks, k + 1) # "LP")
JustWritten == LET items == SelectSeq(out, LAMBDA item : item.kind # "line")
               IN  IF items # << >> /\ Last(items).kind = "text" THEN Last(items).row ELSE << >>
ExpandedWhole == status \in {"running", "done"} /\ errors = 0 => NothingLeft(Tight(JustWritten))

(* Expansion comes to an end where no more macros are nested than a hideset   *)
(* has room for.                                                            *)
ExpansionEnds == Cardinality(DOMAIN macros) + 2 < HSSIZ => status # "endless"

(* The bounds of the arrays are kept.                                       *)
TypeOK ==
    /\ sources # << >> /\ Len(sources) <= MaxInclude + 2
    /\ ifdepth \in 0 .. NIF /\ skipping \in 0 .. ifdepth
    /\ ifdepth < NIF \/ status = "fatal"
    /\ Range(ifsatisfied) \subseteq 0 .. 2
    /\ status \in {"running", "done", "fatal", "endless"} /\ errors \in Nat
    /\ DOMAIN macros \subseteq installed \cup {Defined}
    /\ Len(includelist) \in 1 .. NINCLUDE

===============================================================================
