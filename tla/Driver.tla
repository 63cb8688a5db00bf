--------------------------------- MODULE Driver -------------------------------
(***************************************************************************)
(* q3lcc, the driver of the compiler (src/lcc/etc/lcc.c with bytecodelcc.c):   *)
(* it reads its options, runs q3cpp and q3rcc as children for each file named, *)
(* and removes what it keeps in between, also when it is interrupted.         *)
(***************************************************************************)
EXTENDS Integers, SequencesExt, TLC

CONSTANTS
    Commands,    \* command lines, each a sequence of arguments
    Present      \* sets of files that are there at first

(* A file is named by its directory, its base name and its suffix.  An        *)
(* argument is a file, an option with its letter (opt), or the -o or -target  *)
(* that take the next one.  Lists are kept circular, by their last node, in   *)
(* the code; here they are sequences.                                       *)
NoFile == [dir |-> "", base |-> "", suffix |-> ""]
suffixes == << ".c", ".i", ".asm", ".o" >>
suffix(name, n) == SelectInSeq(SubSeq(suffixes, 1, n), LAMBDA s : s = name.suffix) - 1
basename(name) == name.base
Named(base, kind) == [dir |-> "", base |-> base, suffix |-> suffixes[kind + 1]]

(* tempdir, whichever -tempdir= or the environment has it be: options are all   *)
(* taken before the temporary name is made.                                 *)
TempDir == "TMP"

(* What a user names, and what is there at first, has no temporary name: those *)
(* have the number of this process in them.  -o is followed by a file.        *)
Ordinary(name) == name \in [dir : STRING \ {TempDir}, base : STRING, suffix : STRING]

ASSUME CommandsAssumption ==
    \A c \in Commands :
        /\ c \in Seq(Range(c))
        /\ \A k \in DOMAIN c :
              /\ c[k].kind \in {"file", "option", "-o", "-target"}
              /\ c[k].kind = "file" => Ordinary(c[k].name)
              /\ c[k].kind = "-o" /\ k < Len(c) => c[k + 1].kind = "file"
ASSUME PresentAssumption == \A present \in Present : \A name \in present : Ordinary(name)

VARIABLES
    argv, i,       \* the arguments of this pass, and the next one
    pass,          \* options, files, or over
    d,             \* flags and lists
    itemp,         \* the temporary name for preprocessed text, once it is taken
    rmlist,
    job,           \* what filename is at: the file, the base name, the step
    child,
    files,         \* the file system: what each file holds
    status,        \* what exit is given, -1 before
    failed         \* history: something went wrong

vars == << argv, i, pass, d, itemp, rmlist, job, child, files, status, failed >>

NoJob   == [at |-> "none", name |-> NoFile, base |-> ""]
NoChild == [at |-> "none", cmd |-> "", in |-> NoFile, out |-> NoFile, args |-> << >>, code |-> 0, died |-> FALSE]
Text(by, of, args, whole) == [by |-> by, of |-> of, args |-> args, whole |-> whole]
Source(name) == Text("author", name, << >>, TRUE)
Written(name, text) == [x \in DOMAIN files \cup {name} |-> IF x = name THEN text ELSE files[x]]

-----------------------------------------------------------------------------
(* Options.                                                                 *)

(* bytecodelcc.c: what is new with the option, and whether it knows it.      *)
option(st, a) ==
    CASE a.sub = "lccdir"  -> [st EXCEPT !.cpp = a.text, !.com = a.text, !.include = << a.text >>]
      [] a.sub = "lcppdir" -> [st EXCEPT !.cpp = a.text]
      [] a.sub = "lrccdir" -> [st EXCEPT !.com = a.text]
      [] OTHER -> st
Known(a) == a.sub \in {"lccdir", "lcppdir", "lrccdir", "p", "pg", "b", "g", "ld", "static"}

PassedTo(st, sub, a) ==
    CASE sub = "p" -> [st EXCEPT !.plist = Append(@, a.text)]
      [] sub = "f" -> [st EXCEPT !.clist = Append(@, a.text)]
      [] sub = "a" -> [st EXCEPT !.alist = Append(@, a.text)]
      [] sub = "l" -> [st EXCEPT !.llist0 = Append(@, a.text)]

opt(st, a) ==
    CASE a.opt = "W" /\ a.to \in {"p", "f", "a", "l"} -> PassedTo(st, a.to, a)
      [] a.opt = "W" /\ a.to = "o" -> option(st, a)
      [] a.opt = "t" /\ a.sub = "tempdir" -> st
      [] a.opt \in {"d", "t", "A", "n", "w", "P"} -> [st EXCEPT !.clist = Append(@, a.text)]
      [] a.opt \in {"p", "b"} /\ Known(a) -> [st EXCEPT !.clist = Append(@, a.text)]
      [] a.opt = "g" -> [st EXCEPT !.clist = Append(@, "-g2")]
      [] a.opt \in {"D", "U", "I"} -> [st EXCEPT !.plist = Append(@, a.text)]
      [] a.opt = "B" -> [st EXCEPT !.com = a.text, !.path = TRUE,
                             !.errcnt = @ + (IF st.path THEN 1 ELSE 0) + (IF a.text = "" THEN 1 ELSE 0)]
      [] a.opt = "S" -> [st EXCEPT !.S = @ + 1]
      [] a.opt = "E" -> [st EXCEPT !.E = @ + 1]
      [] a.opt = "c" -> [st EXCEPT !.c = @ + 1]
      [] a.opt = "N" -> [st EXCEPT !.include = << >>, !.ilist = << >>]
      [] a.opt = "v" -> [st EXCEPT !.verbose = @ + 1,
                                   !.clist = IF st.verbose = 0 THEN Append(@, a.text) ELSE @]
      [] OTHER -> st      \* said to be ignored, or help

(* initinputs: inputs is "", so that the list of directories is the current    *)
(* one whether LCCINPUTS is set or not.                                     *)
lccinputs == << "" >>

Init ==
    /\ argv \in Commands /\ i = 1 /\ pass = "options"
    /\ d = [E |-> 0, S |-> 1, c |-> 0, verbose |-> 0, outfile |-> NoFile, plist |-> << "-D__LCC__" >>,
            clist |-> << >>, alist |-> << >>, llist0 |-> << >>, llist1 |-> << >>, ilist |-> << >>,
            include |-> << >>, cpp |-> "q3cpp", com |-> "q3rcc", path |-> FALSE, errcnt |-> 0, nf |-> 0]
    /\ itemp = NoFile /\ rmlist = << >> /\ job = NoJob /\ child = NoChild
    /\ \E present \in Present : files = [name \in present |-> Source(name)]
    /\ status = -1 /\ failed = FALSE

arg == argv[i]
Running == status = -1
Exit(n) == status' = n /\ pass' = "over"

(* The first pass of main: all options but -l are taken, what is left stays.   *)
Options ==
    /\ Running /\ pass = "options" /\ i <= Len(argv)
    /\ UNCHANGED << itemp, rmlist, job, child, files >>

OutOption ==
    /\ Options /\ arg.kind = "-o"
    /\ IF i = Len(argv) \/ (i < Len(argv) /\ argv[i + 1].kind = "file" /\ suffix(argv[i + 1].name, 2) >= 0)
       THEN Exit(8) /\ failed' = TRUE /\ UNCHANGED << argv, i, d >>
       ELSE /\ d' = [d EXCEPT !.outfile = argv[i + 1].name]
            /\ argv' = RemoveAt(RemoveAt(argv, i), i)
            /\ UNCHANGED << i, pass, status, failed >>

TargetOption ==
    /\ Options /\ arg.kind = "-target"
    /\ argv' = IF i < Len(argv) /\ argv[i + 1].kind = "file" THEN RemoveAt(RemoveAt(argv, i), i)
               ELSE RemoveAt(argv, i)
    /\ UNCHANGED << i, d, pass, status, failed >>

Option ==
    /\ Options /\ arg.kind = "option" /\ arg.opt # "l"
    /\ d' = opt(d, arg)
    /\ argv' = RemoveAt(argv, i)
    /\ failed' = (failed \/ d'.errcnt > d.errcnt)
    /\ UNCHANGED << i, pass, status >>

Kept ==
    /\ Options /\ (arg.kind = "file" \/ (arg.kind = "option" /\ arg.opt = "l"))
    /\ d' = [d EXCEPT !.nf = @ + (IF arg.kind = "file" /\ suffix(arg.name, 3) >= 0 THEN 1 ELSE 0)]
    /\ i' = i + 1
    /\ UNCHANGED << argv, pass, status, failed >>

(* -o is for one file only.                                                 *)
OneOutput == IF d.nf # 1 THEN NoFile ELSE d.outfile

OptionsDone ==
    /\ Running /\ pass = "options" /\ i > Len(argv)
    /\ d' = [d EXCEPT !.outfile = OneOutput, !.plist = @ \o d.include \o d.ilist, !.ilist = << >>]
    /\ pass' = "files" /\ i' = 1
    /\ UNCHANGED << argv, itemp, rmlist, job, child, files, status, failed >>

-----------------------------------------------------------------------------
(* Commands.                                                                *)

(* cpp[] and com[]: the lists in the places of $1, $2 and $3.                *)
compose(cmd, list, in, out) == [NoChild EXCEPT !.at = "asked", !.cmd = cmd, !.args = list, !.in = in, !.out = out]

(* From a command to its status: with -v -v it is not run.                   *)
callsys(command, at) ==
    /\ job' = at
    /\ child' = IF d.verbose < 2 THEN command ELSE [command EXCEPT !.at = "over"]

Fork ==
    /\ Running /\ child.at = "asked"
    /\ \/ child' = [child EXCEPT !.at = "forked"] /\ UNCHANGED failed
       \/ child' = [child EXCEPT !.at = "over", !.code = 100] /\ failed' = TRUE
    /\ UNCHANGED << argv, i, pass, d, itemp, rmlist, job, files, status >>

(* execvp finds the program or not.                                         *)
Exec ==
    /\ child.at = "forked"
    /\ \/ child' = [child EXCEPT !.at = "running"] /\ UNCHANGED failed
       \/ child' = [child EXCEPT !.at = "over", !.code = 100] /\ failed' = TRUE
    /\ UNCHANGED << argv, i, pass, d, itemp, rmlist, job, files, status >>

(* The child reads its input and creates its output.                        *)
Creates ==
    /\ child.at = "running" /\ child.in \in DOMAIN files
    /\ child' = [child EXCEPT !.at = "writing"]
    /\ files' = IF child.out = NoFile THEN files
                ELSE Written(child.out, Text(child.cmd, files[child.in], child.args, FALSE))
    /\ UNCHANGED << argv, i, pass, d, itemp, rmlist, job, status, failed >>

Completes ==
    /\ child.at = "writing"
    /\ child' = [child EXCEPT !.at = "over"]
    /\ files' = IF child.out \in DOMAIN files THEN [files EXCEPT ![child.out].whole = TRUE] ELSE files
    /\ UNCHANGED << argv, i, pass, d, itemp, rmlist, job, status, failed >>

(* It finds an error, or dies.                                              *)
Fails ==
    /\ child.at \in {"running", "writing"}
    /\ \E died \in BOOLEAN :
         child' = [child EXCEPT !.at = "over", !.died = died, !.code = IF died THEN 0 ELSE 1]
    /\ failed' = TRUE
    /\ UNCHANGED << argv, i, pass, d, itemp, rmlist, job, files, status >>

(* Mutant of spawnStatus: a child that died is not told from one that ended. *)
spawnStatusPlain == child.code

(* What spawn makes of the wait status: 0400 is added where the low byte says  *)
(* that a signal ended it.                                                  *)
spawnStatus == IF child.died THEN 1 ELSE child.code

Answered == Running /\ child.at = "over"

-----------------------------------------------------------------------------
(* filename.                                                                *)

Found(name) == name \in DOMAIN files \/ d.verbose > 1

ended(st) == child' = NoChild /\ job' = NoJob /\ i' = i + 1
             /\ d' = [d EXCEPT !.errcnt = @ + (IF st # 0 THEN 1 ELSE 0)]

tempname(kind) == [dir |-> TempDir, base |-> ToString(Len(rmlist)), suffix |-> suffixes[kind + 1]]

FilePass == Running /\ pass = "files" /\ i <= Len(argv) /\ job = NoJob

Library ==      \* -lx: ignored, for the output is assembly
    /\ FilePass /\ arg.kind = "option"
    /\ i' = i + 1
    /\ UNCHANGED << argv, pass, d, itemp, rmlist, job, child, files, status, failed >>

Missing ==
    /\ FilePass /\ arg.kind = "file" /\ ~ Found(arg.name)
    /\ d' = [d EXCEPT !.errcnt = @ + 1] /\ failed' = TRUE
    /\ i' = i + 1
    /\ UNCHANGED << argv, pass, itemp, rmlist, job, child, files, status >>

At(kind) == FilePass /\ arg.kind = "file" /\ Found(arg.name) /\ suffix(arg.name, 4) = kind

Preprocess ==
    /\ At(0)
    /\ LET temp == IF itemp = NoFile THEN tempname(1) ELSE itemp
           job1(step) == [at |-> step, name |-> arg.name, base |-> basename(arg.name)]
       IN  IF d.E > 0
           THEN callsys(compose("cpp", d.plist, arg.name, NoFile), job1("print"))
                /\ UNCHANGED << itemp, rmlist >>
           ELSE /\ itemp' = temp
                /\ rmlist' = IF itemp = NoFile THEN Append(rmlist, temp) ELSE rmlist
                /\ callsys(compose("cpp", d.plist, arg.name, temp), job1("cpp"))
    /\ UNCHANGED << argv, i, pass, d, files, status, failed >>

(* The file compile is given, and the output it is to have.                  *)
AsmOf(base) == IF d.outfile # NoFile THEN d.outfile ELSE Named(base, 2)

Compile ==
    /\ IF job = NoJob THEN At(1) /\ d.E = 0 ELSE Answered /\ job.at = "cpp" /\ spawnStatus = 0
    /\ LET name == IF job = NoJob THEN arg.name ELSE itemp
           base == IF job = NoJob THEN basename(arg.name) ELSE job.base
       IN  callsys(compose("rcc", d.clist, name, AsmOf(base)), [at |-> "rcc", name |-> name, base |-> base])
    /\ UNCHANGED << argv, i, pass, d, itemp, rmlist, files, status, failed >>

(* The file is done with, or its first command was no success.               *)
Filed ==
    /\ Answered /\ job.at # "none"
    /\ job.at = "cpp" => spawnStatus # 0
    /\ ended(spawnStatus)
    /\ UNCHANGED << argv, pass, itemp, rmlist, files, status, failed >>

(* .i under -E, .asm and .o : nothing to run; other names are for a linker,    *)
(* and preprocessed under -E.                                               *)
Other ==
    /\ \/ At(1) /\ d.E > 0 /\ ended(0)
       \/ At(2) /\ ended(0)
       \/ (At(3) \/ (At(-1) /\ d.E = 0))
          /\ i' = i + 1 /\ child' = child /\ job' = job
          /\ d' = [d EXCEPT !.llist1 = IF arg.name \in Range(@) /\ At(3) THEN @ ELSE Append(@, arg.name)]
       \/ At(-1) /\ d.E > 0 /\ i' = i
          /\ callsys(compose("cpp", d.plist, arg.name, NoFile), [at |-> "print", name |-> arg.name, base |-> ""])
          /\ d' = [d EXCEPT !.llist1 = Append(@, arg.name)]
    /\ UNCHANGED << argv, pass, itemp, rmlist, files, status, failed >>

-----------------------------------------------------------------------------
(* Mutant of rm: the list is not looked at.                                 *)
rmNone == files

rm == IF d.verbose < 2 THEN [name \in DOMAIN files \ Range(rmlist) |-> files[name]] ELSE files

End ==
    /\ Running /\ pass = "files" /\ i > Len(argv)
    /\ files' = rm
    /\ Exit(IF d.errcnt > 0 THEN 1 ELSE 0)
    /\ UNCHANGED << argv, i, d, itemp, rmlist, job, child, failed >>

(* A signal, for q3lcc alone or for what it runs too.  A child that has not    *)
(* become the other program yet has the same handler.                       *)
interrupt ==
    /\ Running
    /\ files' = rm
    /\ Exit(100)
    /\ \E both \in BOOLEAN :
         child' = IF child.at = "asked" \/ both THEN NoChild ELSE child
    /\ failed' = TRUE
    /\ UNCHANGED << argv, i, d, itemp, rmlist, job >>

Step ==
    \/ OutOption \/ TargetOption \/ Option \/ Kept \/ OptionsDone
    \/ Library \/ Missing \/ Preprocess \/ Compile \/ Filed \/ Other \/ End
    \/ Fork \/ Exec \/ Creates \/ Completes \/ Fails
Next == Step \/ interrupt

Spec == Init /\ [][Next]_vars

-----------------------------------------------------------------------------
(* q3lcc says that it succeeded only if nothing went wrong, and then each C    *)
(* file has been compiled, with the options of the whole line and from its    *)
(* own preprocessed text, into the file its name or -o says, unless a later    *)
(* file has the same name.                                                  *)
Inputs(kind) == {k \in DOMAIN argv : argv[k].kind = "file" /\ suffix(argv[k].name, 4) = kind}
Overwritten(k) ==
    \E l \in DOMAIN argv : l > k /\ l \in Inputs(0) \cup Inputs(1) /\ argv[l].name.base = argv[k].name.base
SuccessMeansCompiled ==
    status = 0 =>
        /\ ~ failed
        /\ d.E = 0 /\ d.verbose < 2 =>
             \A k \in Inputs(0) :
                LET source == argv[k].name
                    text   == Text("cpp", Source(source), d.plist, TRUE)
                IN  Overwritten(k) \/ (AsmOf(source.base) \in DOMAIN files
                        /\ files[AsmOf(source.base)] = Text("rcc", text, d.clist, TRUE))

(* Nothing is left in the directory for temporary files, but what a child     *)
(* writes that outlives an interrupted q3lcc.                               *)
TempRemoved ==
    status # -1 /\ child = NoChild => \A name \in DOMAIN files : name.dir # TempDir
===============================================================================
