------------------------------ MODULE DriverProofs ------------------------------
(***************************************************************************)
(* Proofs about Driver, for every command line and every set of files: what *)
(* q3lcc leaves in the directory for temporary files, and what it means     *)
(* that it says it succeeded.                                               *)
(***************************************************************************)
EXTENDS Driver, SequenceTheorems, TLAPS

-----------------------------------------------------------------------------
(* The number of a suffix among the first n.                                 *)

Matching(name, n) == {k \in 1 .. n : suffixes[k] = name.suffix}

LEMMA SuffixFacts ==
    ASSUME NEW name, NEW n \in 1 .. 4
    PROVE  /\ suffix(name, n) \in -1 .. n - 1
           /\ \A k \in 1 .. n : suffix(name, n) = k - 1 <=> suffixes[k] = name.suffix
<1>1. /\ suffixes[1] = ".c" /\ suffixes[2] = ".i"
      /\ suffixes[3] = ".asm" /\ suffixes[4] = ".o"
    BY DEF suffixes
<1> DEFINE few == SubSeq(suffixes, 1, n)
<1>2. Len(few) = n /\ \A k \in 1 .. n : few[k] = suffixes[k]
    BY DEF suffixes
<1> DEFINE I == {k \in 1 .. Len(few) : few[k] = name.suffix}
<1>3. suffix(name, n) = (IF I # {} THEN Min(I) ELSE 0) - 1
    BY DEF suffix, SelectInSeq
<1>4. I = Matching(name, n)
    BY <1>2 DEF Matching
<1>5. \A k, l \in I : k = l
    BY <1>1, <1>4 DEF Matching
<1>6. \A k \in I : Min(I) = k
    BY <1>5 DEF Min
<1>7. QED BY <1>3, <1>4, <1>6 DEF Matching

LEMMA RemoveAtFacts ==
    ASSUME NEW S, NEW s \in Seq(S), NEW j \in 1 .. Len(s)
    PROVE  /\ RemoveAt(s, j) \in Seq(S)
           /\ Len(RemoveAt(s, j)) = Len(s) - 1
           /\ \A k \in 1 .. Len(s) - 1 :
                 RemoveAt(s, j)[k] = IF k < j THEN s[k] ELSE s[k + 1]
<1> DEFINE n == Len(s)
           a == SubSeq(s, 1, j - 1)
           b == SubSeq(s, j + 1, Len(s))
<1>1. n \in Nat /\ j \in Int /\ 1 <= j /\ j <= n
    BY LenProperties
<1>2. \A k \in 1 .. n : s[k] \in S
    BY ElementOfSeq
<1>3. /\ a \in Seq(S) /\ Len(a) = j - 1
      /\ \A k \in 1 .. j - 1 : a[k] = s[k]
    <2>1. \A k \in 1 .. j - 1 : s[k] \in S
        BY <1>1, <1>2
    <2> DEFINE m == j - 1
    <2>2. m \in Int /\ m >= 0 /\ 1 \in Int
        BY <1>1
    <2>3. \A k \in 1 .. m : s[k] \in S
        BY <2>1
    <2> HIDE DEF m
    <2>4. /\ SubSeq(s, 1, m) \in Seq(S)
          /\ Len(SubSeq(s, 1, m)) = IF 1 <= m THEN m - 1 + 1 ELSE 0
          /\ \A k \in 1 .. m - 1 + 1 : SubSeq(s, 1, m)[k] = s[1 + k - 1]
        BY <2>2, <2>3, SubSeqProperties
    <2>5. /\ SubSeq(s, 1, m) \in Seq(S) /\ Len(SubSeq(s, 1, m)) = m
          /\ \A k \in 1 .. m : SubSeq(s, 1, m)[k] = s[k]
        BY <2>2, <2>4
    <2>6. QED BY <2>5 DEF m
<1>4. /\ b \in Seq(S) /\ Len(b) = n - j
      /\ \A k \in 1 .. n - j : b[k] = s[j + k]
    <2> DEFINE m == j + 1
    <2>1. m \in Int /\ n \in Int /\ m <= n + 1 /\ \A k \in m .. n : s[k] \in S
        BY <1>1, <1>2
    <2> HIDE DEF m, n
    <2>2. /\ SubSeq(s, m, n) \in Seq(S)
          /\ Len(SubSeq(s, m, n)) = IF m <= n THEN n - m + 1 ELSE 0
          /\ \A k \in 1 .. n - m + 1 : SubSeq(s, m, n)[k] = s[m + k - 1]
        BY <2>1, SubSeqProperties
    <2>3. /\ Len(SubSeq(s, m, n)) = n - j
          /\ \A k \in 1 .. n - j : SubSeq(s, m, n)[k] = s[j + k]
        <3>1. n - m + 1 = n - j /\ \A k \in 1 .. n - j : m + k - 1 = j + k
            BY <1>1 DEF m
        <3>2. m <= n \/ n - j = 0
            BY <1>1 DEF m
        <3>3. m <= n => Len(SubSeq(s, m, n)) = n - j
            BY <2>2, <3>1
        <3>4. ~ (m <= n) => Len(SubSeq(s, m, n)) = n - j
            BY <2>2, <3>2
        <3>5. QED BY <2>2, <3>1, <3>3, <3>4
    <2>4. QED BY <2>2, <2>3 DEF m, n
<1>5. RemoveAt(s, j) = a \o b
    BY DEF RemoveAt
<1> HIDE DEF a, b
<1>6. /\ a \o b \in Seq(S) /\ Len(a \o b) = Len(a) + Len(b)
      /\ \A k \in 1 .. Len(a) + Len(b) :
            (a \o b)[k] = IF k <= Len(a) THEN a[k] ELSE b[k - Len(a)]
    BY <1>3, <1>4, ConcatProperties
<1> HIDE DEF n
<1>7. Len(a) + Len(b) = n - 1
    BY <1>1, <1>3, <1>4
<1>8. ASSUME NEW k \in 1 .. n - 1
      PROVE  (a \o b)[k] = IF k < j THEN s[k] ELSE s[k + 1]
    <2>1. (a \o b)[k] = IF k <= Len(a) THEN a[k] ELSE b[k - Len(a)]
        BY <1>6, <1>7
    <2>2. CASE k < j
        BY <1>1, <1>3, <2>1, <2>2
    <2>3. CASE ~ (k < j)
        <3>1. k - (j - 1) \in 1 .. n - j /\ j + (k - (j - 1)) = k + 1 /\ ~ (k <= j - 1)
            BY <1>1, <2>3
        <3>2. QED BY <1>3, <1>4, <2>1, <2>3, <3>1
    <2>4. QED BY <2>2, <2>3
<1>9. QED BY <1>5, <1>6, <1>7, <1>8 DEF n

-----------------------------------------------------------------------------
(* Options change neither -o nor the count of the files.                     *)

Fields == {"E", "S", "c", "verbose", "outfile", "plist", "clist", "alist", "llist0",
           "llist1", "ilist", "include", "cpp", "com", "path", "errcnt", "nf"}

Kin(st, new) ==
    /\ DOMAIN new = Fields /\ new.outfile = st.outfile /\ new.nf = st.nf
    /\ new.errcnt \in Nat /\ new.errcnt >= st.errcnt

LEMMA OptionKeeps ==
    ASSUME NEW st, NEW a, DOMAIN st = Fields, st.errcnt \in Nat
    PROVE  Kin(st, opt(st, a))
<1>1. Kin(st, option(st, a))
    BY DEF option, Kin, Fields
<1>2. ASSUME NEW sub \in {"p", "f", "a", "l"} PROVE Kin(st, PassedTo(st, sub, a))
    BY DEF PassedTo, Kin, Fields
<1>3. \A x : /\ Kin(st, [st EXCEPT !.clist = Append(@, x)])
             /\ Kin(st, [st EXCEPT !.plist = Append(@, x)])
    BY DEF Kin, Fields
<1>4. Kin(st, [st EXCEPT !.com = a.text, !.path = TRUE,
                 !.errcnt = @ + (IF st.path THEN 1 ELSE 0) + (IF a.text = "" THEN 1 ELSE 0)])
    <2> DEFINE n == st.errcnt + (IF st.path THEN 1 ELSE 0) + (IF a.text = "" THEN 1 ELSE 0)
               new == [st EXCEPT !.com = a.text, !.path = TRUE, !.errcnt = n]
    <2>1. n \in Nat /\ n >= st.errcnt
        <3> DEFINE x == IF st.path THEN 1 ELSE 0
                   y == IF a.text = "" THEN 1 ELSE 0
        <3>1. x \in Nat /\ y \in Nat
            OBVIOUS
        <3> HIDE DEF x, y
        <3>2. st.errcnt + x + y \in Nat /\ st.errcnt + x + y >= st.errcnt
            BY <3>1
        <3>3. QED BY <3>2 DEF x, y
    <2> HIDE DEF n
    <2>2. Kin(st, new)
        BY <2>1 DEF Kin, Fields
    <2>3. QED BY <2>2 DEF n
<1>5. /\ Kin(st, [st EXCEPT !.S = @ + 1]) /\ Kin(st, [st EXCEPT !.E = @ + 1])
      /\ Kin(st, [st EXCEPT !.c = @ + 1])
      /\ Kin(st, [st EXCEPT !.include = << >>, !.ilist = << >>])
      /\ Kin(st, [st EXCEPT !.verbose = @ + 1,
                            !.clist = IF st.verbose = 0 THEN Append(@, a.text) ELSE @])
      /\ Kin(st, st)
    BY DEF Kin, Fields
<1> HIDE DEF Kin
<1>6. QED BY <1>1, <1>2, <1>3, <1>4, <1>5 DEF opt

-----------------------------------------------------------------------------
(* The first invariant: the arguments left, where the driver stands, what it  *)
(* runs, and the only temporary file there can be.                          *)

Arguments == UNION {Range(c) : c \in Commands}

ArgsOK ==
    /\ argv \in Seq(Arguments) /\ i \in Nat /\ i >= 1
    /\ pass = "options" =>
          /\ i <= Len(argv) + 1
          /\ \A k \in i .. Len(argv) - 1 :
                argv[k].kind = "-o" => argv[k + 1].kind = "file"

DataOK ==
    /\ DOMAIN d = Fields /\ d.errcnt \in Nat /\ d.nf \in Nat
    /\ \/ d.outfile = NoFile
       \/ Ordinary(d.outfile) /\ d.outfile.suffix \notin {".c", ".i"}
    /\ DOMAIN child = DOMAIN NoChild
    /\ child.at \in {"none", "asked", "forked", "running", "writing", "over"}
    /\ child.at = "none" => child = NoChild
    /\ itemp = NoFile \/ (itemp.dir = TempDir /\ itemp.suffix = ".i")
    /\ rmlist = IF itemp = NoFile THEN << >> ELSE << itemp >>
    /\ job.at \in {"none", "print", "cpp", "rcc"} /\ (job.at = "none" => job = NoJob)

PhaseOK ==
    /\ pass \in {"options", "files", "over"} /\ (status = -1 <=> pass # "over")
    /\ pass = "options" => child = NoChild /\ job = NoJob /\ itemp = NoFile
    /\ pass = "files" =>
          /\ child.at = "none" <=> job.at = "none"
          /\ job.at # "none" => i <= Len(argv) /\ argv[i].kind = "file"

NoTemp == \A name \in DOMAIN files : name.dir # TempDir

TempOK ==
    /\ \A name \in DOMAIN files : name.dir = TempDir => name = itemp
    /\ child.out.dir = TempDir => child.out = itemp
    /\ pass = "options" => NoTemp
    /\ pass # "options" /\ ~ (d.verbose < 2) => child.at \in {"none", "over"} /\ NoTemp
    /\ status # -1 /\ child.at = "none" => NoTemp

DriverInv == ArgsOK /\ DataOK /\ PhaseOK /\ TempOK

-----------------------------------------------------------------------------

LEMMA ArgumentFacts ==
    ASSUME NEW a \in Arguments
    PROVE  /\ a.kind \in {"file", "option", "-o", "-target"}
           /\ a.kind = "file" => Ordinary(a.name)
<1>1. PICK c \in Commands : a \in Range(c)
    BY DEF Arguments
<1>2. PICK k \in DOMAIN c : a = c[k]
    BY <1>1 DEF Range
<1>3. QED BY <1>2, CommandsAssumption

LEMMA ArgumentsOf ==
    ASSUME NEW c \in Commands
    PROVE  /\ c \in Seq(Arguments) /\ Len(c) \in Nat
           /\ \A k \in 1 .. Len(c) - 1 : c[k].kind = "-o" => c[k + 1].kind = "file"
<1>1. c \in Seq(Range(c)) /\ Range(c) \subseteq Arguments
    BY CommandsAssumption DEF Arguments
<1>2. c \in Seq(Arguments) /\ Len(c) \in Nat /\ DOMAIN c = 1 .. Len(c)
    BY <1>1, LenProperties, ElementOfSeq, SeqDef
<1>3. QED BY <1>2, CommandsAssumption

LEMMA NoChildIs ==
    /\ DOMAIN NoChild = {"at", "cmd", "in", "out", "args", "code", "died"}
    /\ NoChild.at = "none" /\ NoChild.out = NoFile /\ NoFile.dir # TempDir
    /\ NoJob.at = "none" /\ NoFile.suffix \notin {".c", ".i"}
    BY DEF NoChild, NoJob, NoFile, TempDir

LEMMA DriverInit == Init => DriverInv
<1> SUFFICES ASSUME Init PROVE DriverInv
    OBVIOUS
<1>1. PICK c \in Commands : argv = c
    BY DEF Init
<1>2. ArgsOK
    BY <1>1, ArgumentsOf DEF Init, ArgsOK
<1>3. DataOK
    BY NoChildIs DEF Init, DataOK, Fields
<1>4. PhaseOK
    BY DEF Init, PhaseOK
<1>5. NoTemp
    <2>1. PICK present \in Present : files = [name \in present |-> Source(name)]
        BY DEF Init
    <2>2. QED BY <2>1, PresentAssumption DEF NoTemp, Ordinary
<1>6. TempOK
    BY <1>5, NoChildIs DEF Init, TempOK, NoTemp
<1>7. QED BY <1>2, <1>3, <1>4, <1>6 DEF DriverInv

(* An option is taken out of the command line.                              *)
LEMMA Taken ==
    ASSUME NEW s \in Seq(Arguments), NEW j \in Nat, j >= 1, j <= Len(s),
           \A k \in j .. Len(s) - 1 : s[k].kind = "-o" => s[k + 1].kind = "file",
           NEW r, r = RemoveAt(s, j)
    PROVE  /\ r \in Seq(Arguments) /\ Len(r) = Len(s) - 1 /\ Len(r) \in Nat
           /\ \A k \in j .. Len(r) - 1 : r[k].kind = "-o" => r[k + 1].kind = "file"
<1>1. Len(s) \in Nat /\ j \in 1 .. Len(s)
    BY LenProperties
<1>2. /\ r \in Seq(Arguments) /\ Len(r) = Len(s) - 1
      /\ \A k \in 1 .. Len(s) - 1 : r[k] = IF k < j THEN s[k] ELSE s[k + 1]
    BY <1>1, RemoveAtFacts
<1>3. \A k \in j .. Len(r) : r[k] = s[k + 1]
    BY <1>1, <1>2
<1>4. ASSUME NEW k \in j .. Len(r) - 1, r[k].kind = "-o" PROVE r[k + 1].kind = "file"
    <2>1. k \in j .. Len(r) /\ k + 1 \in j .. Len(r) /\ k + 1 \in j .. Len(s) - 1
        BY <1>1, <1>2
    <2>2. r[k] = s[k + 1] /\ r[k + 1] = s[(k + 1) + 1]
        BY <1>3, <2>1
    <2>3. QED BY <1>4, <2>1, <2>2
<1>5. Len(r) \in Nat
    BY <1>1, <1>2
<1>6. QED BY <1>2, <1>4, <1>5

(* What is before it stays.                                                  *)
LEMMA Stays ==
    ASSUME NEW s \in Seq(Arguments), NEW j \in Nat, j >= 1, j <= Len(s),
           NEW r, r = RemoveAt(s, j)
    PROVE  \A k \in 1 .. j - 1 : r[k] = s[k]
<1>1. Len(s) \in Nat /\ j \in 1 .. Len(s)
    BY LenProperties
<1>2. \A k \in 1 .. Len(s) - 1 : r[k] = IF k < j THEN s[k] ELSE s[k + 1]
    BY <1>1, RemoveAtFacts
<1>3. QED BY <1>1, <1>2

(* What the invariant says while options are read.                           *)
LEMMA ReadingOptions ==
    ASSUME DriverInv, Options
    PROVE  /\ argv \in Seq(Arguments) /\ i \in Nat /\ i >= 1 /\ i <= Len(argv)
           /\ Len(argv) \in Nat /\ i \in 1 .. Len(argv) /\ argv[i] \in Arguments
           /\ \A k \in i .. Len(argv) - 1 :
                 argv[k].kind = "-o" => argv[k + 1].kind = "file"
           /\ pass = "options" /\ status = -1
           /\ child = NoChild /\ job = NoJob /\ itemp = NoFile /\ NoTemp
           /\ UNCHANGED << itemp, rmlist, job, child, files >>
<1>1. /\ pass = "options" /\ status = -1 /\ i <= Len(argv)
      /\ UNCHANGED << itemp, rmlist, job, child, files >>
    BY DEF Options, Running
<1>2. argv \in Seq(Arguments) /\ i \in Nat /\ i >= 1
      /\ \A k \in i .. Len(argv) - 1 : argv[k].kind = "-o" => argv[k + 1].kind = "file"
    BY <1>1 DEF DriverInv, ArgsOK
<1>3. Len(argv) \in Nat /\ i \in 1 .. Len(argv)
    BY <1>1, <1>2, LenProperties
<1>4. argv[i] \in Arguments
    BY <1>2, <1>3, ElementOfSeq
<1>5. QED BY <1>1, <1>2, <1>3, <1>4 DEF DriverInv, PhaseOK, TempOK

(* A step of the first pass only changes the arguments and the flags.        *)
LEMMA OptionStep ==
    ASSUME DriverInv, Options, ArgsOK',
           DOMAIN d' = Fields, d'.errcnt \in Nat, d'.nf \in Nat,
           \/ d'.outfile = NoFile
           \/ Ordinary(d'.outfile) /\ d'.outfile.suffix \notin {".c", ".i"},
           UNCHANGED << pass, status >> \/ (pass' = "over" /\ status' # -1)
    PROVE  DriverInv'
<1>1. /\ pass = "options" /\ status = -1 /\ child = NoChild /\ job = NoJob
      /\ itemp = NoFile /\ NoTemp /\ UNCHANGED << itemp, rmlist, job, child, files >>
    BY ReadingOptions
<1>2. DataOK'
    BY <1>1 DEF DriverInv, DataOK
<1>3. PhaseOK'
    BY <1>1 DEF PhaseOK
<1>4. NoTemp'
    BY <1>1 DEF NoTemp
<1>5. TempOK'
    BY <1>1, <1>4, NoChildIs DEF TempOK, NoTemp
<1>6. QED BY <1>2, <1>3, <1>5 DEF DriverInv

(* One argument is taken out.                                                *)
LEMMA TakenOnce ==
    ASSUME DriverInv, Options, argv' = RemoveAt(argv, i), UNCHANGED << i, pass >>
    PROVE  ArgsOK' /\ \A k \in 1 .. i - 1 : argv'[k] = argv[k]
<1>1. /\ argv \in Seq(Arguments) /\ i \in Nat /\ i >= 1 /\ i <= Len(argv)
      /\ \A k \in i .. Len(argv) - 1 : argv[k].kind = "-o" => argv[k + 1].kind = "file"
    BY ReadingOptions
<1>2. PICK s \in Seq(Arguments), j \in Nat : s = argv /\ j = i
    BY <1>1
<1> DEFINE r == RemoveAt(s, j)
<1>3. /\ r \in Seq(Arguments) /\ Len(r) = Len(s) - 1 /\ Len(r) \in Nat
      /\ \A k \in j .. Len(r) - 1 : r[k].kind = "-o" => r[k + 1].kind = "file"
    BY <1>1, <1>2, Taken
<1>4. argv' = r /\ i' = j /\ j >= 1 /\ j <= Len(r) + 1
    BY <1>1, <1>2, <1>3, LenProperties
<1> HIDE DEF r
<1>5. \A k \in 1 .. j - 1 : r[k] = s[k]
    BY <1>1, <1>2, Stays DEF r
<1>6. QED BY <1>2, <1>3, <1>4, <1>5 DEF ArgsOK

(* Two arguments are taken out, the option and the one that belongs to it.     *)
LEMMA TakenTwice ==
    ASSUME DriverInv, Options, i < Len(argv),
           argv' = RemoveAt(RemoveAt(argv, i), i), UNCHANGED << i, pass >>
    PROVE  ArgsOK' /\ \A k \in 1 .. i - 1 : argv'[k] = argv[k]
<1>1. /\ argv \in Seq(Arguments) /\ i \in Nat /\ i >= 1 /\ i <= Len(argv)
      /\ \A k \in i .. Len(argv) - 1 : argv[k].kind = "-o" => argv[k + 1].kind = "file"
    BY ReadingOptions
<1>2. PICK s \in Seq(Arguments), j \in Nat : s = argv /\ j = i
    BY <1>1
<1>3. PICK r : r = RemoveAt(s, j)
    OBVIOUS
<1>4. /\ r \in Seq(Arguments) /\ Len(r) = Len(s) - 1 /\ Len(r) \in Nat
      /\ \A k \in j .. Len(r) - 1 : r[k].kind = "-o" => r[k + 1].kind = "file"
    BY <1>1, <1>2, <1>3, Taken
<1>5. j >= 1 /\ j <= Len(r)
    BY <1>1, <1>2, <1>4, LenProperties
<1>6. PICK q : q = RemoveAt(r, j)
    OBVIOUS
<1>7. /\ q \in Seq(Arguments) /\ Len(q) = Len(r) - 1 /\ Len(q) \in Nat
      /\ \A k \in j .. Len(q) - 1 : q[k].kind = "-o" => q[k + 1].kind = "file"
    BY <1>4, <1>5, <1>6, Taken
<1>8. argv' = q /\ i' = j
    BY <1>2, <1>3, <1>6
<1>9. (\A k \in 1 .. j - 1 : r[k] = s[k]) /\ (\A k \in 1 .. j - 1 : q[k] = r[k])
    BY <1>1, <1>2, <1>3, <1>4, <1>5, <1>6, Stays
<1>10. QED BY <1>2, <1>4, <1>5, <1>7, <1>8, <1>9 DEF ArgsOK

LEMMA OutOptionStep == DriverInv /\ OutOption => DriverInv'
<1> SUFFICES ASSUME DriverInv, OutOption PROVE DriverInv'
    OBVIOUS
<1>1. Options /\ arg.kind = "-o"
    BY DEF OutOption
<1>2. /\ argv \in Seq(Arguments) /\ i \in Nat /\ i >= 1 /\ i <= Len(argv)
      /\ Len(argv) \in Nat /\ i \in 1 .. Len(argv) /\ argv[i] \in Arguments
      /\ \A k \in i .. Len(argv) - 1 : argv[k].kind = "-o" => argv[k + 1].kind = "file"
      /\ pass = "options" /\ status = -1
    BY <1>1, ReadingOptions
<1>3. /\ DOMAIN d = Fields /\ d.errcnt \in Nat /\ d.nf \in Nat
      /\ \/ d.outfile = NoFile
         \/ Ordinary(d.outfile) /\ d.outfile.suffix \notin {".c", ".i"}
    BY DEF DriverInv, DataOK
<1>4. CASE Exit(8) /\ UNCHANGED << argv, i, d >>
    <2>1. pass' = "over" /\ status' # -1
        BY <1>4 DEF Exit
    <2>2. ArgsOK'
        BY <1>2, <1>4, <2>1 DEF ArgsOK
    <2>3. QED BY <1>1, <1>3, <1>4, <2>1, <2>2, OptionStep
<1>5. ASSUME ~ (i = Len(argv) \/ (i < Len(argv) /\ argv[i + 1].kind = "file"
                                  /\ suffix(argv[i + 1].name, 2) >= 0)),
             d' = [d EXCEPT !.outfile = argv[i + 1].name],
             argv' = RemoveAt(RemoveAt(argv, i), i), UNCHANGED << i, pass, status >>
      PROVE  DriverInv'
    <2>1. i \in i .. Len(argv) - 1 /\ i + 1 \in 1 .. Len(argv)
        BY <1>2, <1>5
    <2>2. argv[i + 1].kind = "file" /\ argv[i + 1] \in Arguments
        BY <1>1, <1>2, <2>1, ElementOfSeq DEF arg
    <2> DEFINE name == argv[i + 1].name
    <2>3. Ordinary(name) /\ ~ (suffix(name, 2) >= 0)
        BY <1>2, <1>5, <2>1, <2>2, ArgumentFacts
    <2> HIDE DEF name
    <2>4. name.suffix \notin {".c", ".i"}
        <3>1. suffixes[1] = ".c" /\ suffixes[2] = ".i"
            BY DEF suffixes
        <3>2. 2 \in 1 .. 4 /\ 1 \in 1 .. 2 /\ 2 \in 1 .. 2
            OBVIOUS
        <3>3. suffix(name, 2) # 1 - 1 /\ suffix(name, 2) # 2 - 1
            BY <2>3
        <3>4. QED BY <3>1, <3>2, <3>3, SuffixFacts
    <2>5. /\ DOMAIN d' = Fields /\ d'.errcnt \in Nat /\ d'.nf \in Nat
          /\ d'.outfile = name
        BY <1>3, <1>5 DEF Fields, name
    <2>6. ArgsOK'
        BY <1>1, <1>2, <1>5, TakenTwice
    <2>7. QED BY <1>1, <1>5, <2>3, <2>4, <2>5, <2>6, OptionStep
<1>6. QED BY <1>4, <1>5 DEF OutOption

LEMMA FlagsStep ==
    DriverInv /\ (TargetOption \/ Option \/ Kept) => DriverInv'
<1> SUFFICES ASSUME DriverInv, TargetOption \/ Option \/ Kept PROVE DriverInv'
    OBVIOUS
<1>1. Options /\ UNCHANGED << pass, status >>
    BY DEF TargetOption, Option, Kept
<1>2. /\ argv \in Seq(Arguments) /\ i \in Nat /\ i >= 1 /\ i <= Len(argv)
      /\ Len(argv) \in Nat
      /\ \A k \in i .. Len(argv) - 1 : argv[k].kind = "-o" => argv[k + 1].kind = "file"
      /\ pass = "options"
    BY <1>1, ReadingOptions
<1>3. /\ DOMAIN d = Fields /\ d.errcnt \in Nat /\ d.nf \in Nat
      /\ \/ d.outfile = NoFile
         \/ Ordinary(d.outfile) /\ d.outfile.suffix \notin {".c", ".i"}
    BY DEF DriverInv, DataOK
<1>4. CASE TargetOption
    <2>1. UNCHANGED << i, d >>
        BY <1>4 DEF TargetOption
    <2>2. CASE argv' = RemoveAt(argv, i)
        BY <1>1, <1>3, <2>1, <2>2, TakenOnce, OptionStep
    <2>3. CASE i < Len(argv) /\ argv' = RemoveAt(RemoveAt(argv, i), i)
        <3>1. ArgsOK'
            BY <1>1, <2>1, <2>3, TakenTwice
        <3>2. QED BY <1>1, <1>3, <2>1, <3>1, OptionStep
    <2>4. QED BY <1>4, <2>2, <2>3 DEF TargetOption
<1>5. CASE Option
    <2>1. d' = opt(d, arg) /\ argv' = RemoveAt(argv, i) /\ UNCHANGED i
        BY <1>5 DEF Option
    <2>2. Kin(d, opt(d, arg))
        BY <1>3, OptionKeeps
    <2>3. /\ DOMAIN d' = Fields /\ d'.errcnt \in Nat /\ d'.nf = d.nf
          /\ d'.outfile = d.outfile
        BY <2>1, <2>2 DEF Kin
    <2>4. QED BY <1>1, <1>3, <2>1, <2>3, TakenOnce, OptionStep
<1>6. CASE Kept
    <2> DEFINE more == IF arg.kind = "file" /\ suffix(arg.name, 3) >= 0 THEN 1 ELSE 0
    <2>1. d' = [d EXCEPT !.nf = @ + more] /\ i' = i + 1 /\ UNCHANGED argv
        BY <1>6 DEF Kept
    <2>2. more \in Nat
        OBVIOUS
    <2> HIDE DEF more
    <2>3. /\ DOMAIN d' = Fields /\ d'.errcnt = d.errcnt /\ d'.nf \in Nat
          /\ d'.outfile = d.outfile
        BY <1>3, <2>1, <2>2 DEF Fields
    <2>4. ArgsOK'
        BY <1>1, <1>2, <2>1 DEF ArgsOK
    <2>5. QED BY <1>1, <1>3, <2>3, <2>4, OptionStep
<1>7. QED BY <1>4, <1>5, <1>6

(* The options that come before files are done.                              *)
LEMMA OptionsDoneStep == DriverInv /\ OptionsDone => DriverInv'
<1> SUFFICES ASSUME DriverInv, OptionsDone PROVE DriverInv'
    OBVIOUS
<1>1. /\ pass = "options" /\ status = -1 /\ pass' = "files" /\ i' = 1
      /\ d' = [d EXCEPT !.outfile = OneOutput, !.plist = @ \o d.include \o d.ilist,
                        !.ilist = << >>]
      /\ UNCHANGED << argv, itemp, rmlist, job, child, files, status >>
    BY DEF OptionsDone, Running
<1>2. child = NoChild /\ job = NoJob /\ NoTemp
    BY <1>1 DEF DriverInv, PhaseOK, TempOK
<1>3. ArgsOK'
    BY <1>1 DEF DriverInv, ArgsOK
<1>4. DataOK'
    <2>1. DOMAIN d' = DOMAIN d /\ d'.errcnt = d.errcnt /\ d'.nf = d.nf /\ d'.outfile = OneOutput
        BY <1>1 DEF DriverInv, DataOK, Fields
    <2>2. QED BY <1>1, <1>2, <2>1 DEF DriverInv, DataOK, OneOutput
<1>5. PhaseOK'
    BY <1>1, <1>2, NoChildIs DEF DriverInv, PhaseOK
<1>6. NoTemp'
    BY <1>1, <1>2 DEF NoTemp
<1>7. TempOK'
    BY <1>1, <1>2, <1>6, NoChildIs DEF DriverInv, TempOK, NoTemp
<1>8. QED BY <1>3, <1>4, <1>5, <1>7 DEF DriverInv

(* The next argument is done with: nothing runs after it.                     *)
LEMMA DoneStep ==
    ASSUME DriverInv, Running, pass = "files",
           i' = i + 1, child' = NoChild, job' = NoJob,
           UNCHANGED << argv, pass, itemp, rmlist, files, status >>,
           DOMAIN d' = Fields, d'.errcnt \in Nat, d'.nf = d.nf, d'.outfile = d.outfile,
           d'.verbose = d.verbose
    PROVE  DriverInv'
<1>1. ArgsOK'
    BY DEF DriverInv, ArgsOK
<1>2. DataOK'
    BY NoChildIs DEF DriverInv, DataOK
<1>3. PhaseOK'
    BY NoChildIs DEF DriverInv, PhaseOK
<1>4. status' = -1 /\ pass' = "files"
    BY DEF Running
<1>5. TempOK'
    BY <1>4, NoChildIs DEF DriverInv, TempOK, NoTemp
<1>6. QED BY <1>1, <1>2, <1>3, <1>5 DEF DriverInv

(* A command is asked for, whose output is not temporary, or is the file taken *)
(* for preprocessed text.                                                   *)
LEMMA AskStep ==
    ASSUME DriverInv, Running, pass = "files", i <= Len(argv), argv[i].kind = "file",
           NEW command, NEW at, callsys(command, at), command.at = "asked",
           DOMAIN command = DOMAIN NoChild, at.at \in {"print", "cpp", "rcc"},
           UNCHANGED << argv, i, pass, files, status >>,
           DOMAIN d' = Fields, d'.errcnt \in Nat, d'.nf = d.nf, d'.outfile = d.outfile,
           d'.verbose = d.verbose,
           command.out.dir = TempDir => command.out = itemp',
           \/ UNCHANGED << itemp, rmlist >>
           \/ /\ itemp = NoFile /\ itemp'.dir = TempDir /\ itemp'.suffix = ".i"
              /\ rmlist' = << itemp' >>
    PROVE  DriverInv'
<1>1. /\ child'.at = IF d.verbose < 2 THEN "asked" ELSE "over"
      /\ DOMAIN child' = DOMAIN NoChild /\ child'.out = command.out
    BY NoChildIs DEF callsys
<1>2. job' = at
    BY DEF callsys
<1>3. ArgsOK'
    BY DEF DriverInv, ArgsOK
<1>4. DataOK'
    BY <1>1, <1>2, NoChildIs DEF DriverInv, DataOK
<1>5. PhaseOK'
    BY <1>1, <1>2 DEF DriverInv, PhaseOK
<1>6. status' = -1 /\ pass' = "files"
    BY DEF Running
<1>7. \A name \in DOMAIN files : name.dir = TempDir => name = itemp'
    BY NoChildIs DEF DriverInv, TempOK
<1>8. TempOK'
    BY <1>1, <1>6, <1>7 DEF DriverInv, TempOK, NoTemp
<1>9. QED BY <1>3, <1>4, <1>5, <1>8 DEF DriverInv

(* A file is looked at when nothing runs.                                    *)
LEMMA AtRest ==
    ASSUME DriverInv, FilePass
    PROVE  /\ Running /\ pass = "files" /\ i <= Len(argv) /\ child = NoChild /\ job = NoJob
           /\ DOMAIN d = Fields /\ d.errcnt \in Nat
<1>1. Running /\ pass = "files" /\ i <= Len(argv) /\ job = NoJob
    BY DEF FilePass
<1>2. child = NoChild
    BY <1>1, NoChildIs DEF DriverInv, PhaseOK, DataOK
<1>3. QED BY <1>1, <1>2 DEF DriverInv, DataOK

LEMMA FiledStep ==
    DriverInv /\ (Library \/ Missing \/ Filed) => DriverInv'
<1> SUFFICES ASSUME DriverInv, Library \/ Missing \/ Filed PROVE DriverInv'
    OBVIOUS
<1>1. DOMAIN d = Fields /\ d.errcnt \in Nat
    BY DEF DriverInv, DataOK
<1>2. CASE Library
    BY <1>1, <1>2, AtRest, DoneStep DEF Library
<1>3. CASE Missing
    <2>1. /\ DOMAIN d' = Fields /\ d'.errcnt \in Nat /\ d'.nf = d.nf
          /\ d'.outfile = d.outfile /\ d'.verbose = d.verbose
        BY <1>1, <1>3 DEF Missing, Fields
    <2>2. QED BY <1>3, <2>1, AtRest, DoneStep DEF Missing
<1>4. CASE Filed
    <2> DEFINE e == IF spawnStatus # 0 THEN 1 ELSE 0
    <2>1. child' = NoChild /\ job' = NoJob /\ i' = i + 1 /\ d' = [d EXCEPT !.errcnt = @ + e]
        BY <1>4 DEF Filed, ended
    <2>2. e \in Nat
        OBVIOUS
    <2> HIDE DEF e
    <2>3. /\ DOMAIN d' = Fields /\ d'.errcnt \in Nat /\ d'.nf = d.nf
          /\ d'.outfile = d.outfile /\ d'.verbose = d.verbose
        BY <1>1, <2>1, <2>2 DEF Fields
    <2>4. Running /\ pass = "files"
        BY <1>4, NoChildIs DEF Filed, Answered, Running, DriverInv, PhaseOK
    <2>5. UNCHANGED << argv, pass, itemp, rmlist, files, status >>
        BY <1>4 DEF Filed
    <2>6. QED BY <2>1, <2>3, <2>4, <2>5, DoneStep
<1>5. QED BY <1>2, <1>3, <1>4

LEMMA OtherStep == DriverInv /\ Other => DriverInv'
<1> SUFFICES ASSUME DriverInv, Other PROVE DriverInv'
    OBVIOUS
<1>1. UNCHANGED << argv, pass, itemp, rmlist, files, status >> /\ FilePass
    BY DEF Other, At
<1>2. /\ Running /\ pass = "files" /\ i <= Len(argv) /\ child = NoChild /\ job = NoJob
      /\ DOMAIN d = Fields /\ d.errcnt \in Nat
    BY <1>1, AtRest
<1>3. CASE ended(0)
    <2>1. d' = [d EXCEPT !.errcnt = @ + 0] /\ child' = NoChild /\ job' = NoJob /\ i' = i + 1
        BY <1>3 DEF ended
    <2>2. /\ DOMAIN d' = Fields /\ d'.errcnt \in Nat /\ d'.nf = d.nf
          /\ d'.outfile = d.outfile /\ d'.verbose = d.verbose
        BY <1>2, <2>1 DEF Fields
    <2>3. QED BY <1>1, <1>2, <2>1, <2>2, DoneStep
<1>4. ASSUME NEW list, i' = i + 1, child' = child, job' = job,
             d' = [d EXCEPT !.llist1 = list]
      PROVE  DriverInv'
    <2>1. /\ DOMAIN d' = Fields /\ d'.errcnt \in Nat /\ d'.nf = d.nf
          /\ d'.outfile = d.outfile /\ d'.verbose = d.verbose
        BY <1>2, <1>4 DEF Fields
    <2>2. QED BY <1>1, <1>2, <1>4, <2>1, DoneStep
<1>5. ASSUME NEW list, NEW at, at.at = "print", arg.kind = "file", i' = i,
             callsys(compose("cpp", d.plist, arg.name, NoFile), at),
             d' = [d EXCEPT !.llist1 = list]
      PROVE  DriverInv'
    <2>1. /\ DOMAIN d' = Fields /\ d'.errcnt \in Nat /\ d'.nf = d.nf
          /\ d'.outfile = d.outfile /\ d'.verbose = d.verbose
        BY <1>2, <1>5 DEF Fields
    <2> DEFINE command == compose("cpp", d.plist, arg.name, NoFile)
    <2>2. /\ DOMAIN command = DOMAIN NoChild /\ command.at = "asked"
          /\ command.out.dir # TempDir
        BY NoChildIs DEF compose, NoChild
    <2>3. callsys(command, at)
        BY <1>5
    <2> HIDE DEF command
    <2>4. QED BY <1>1, <1>2, <1>5, <2>1, <2>2, <2>3, AskStep DEF arg
<1>6. CASE (At(3) \/ (At(-1) /\ d.E = 0)) /\ i' = i + 1 /\ child' = child /\ job' = job
           /\ d' = [d EXCEPT !.llist1 = IF arg.name \in Range(@) /\ At(3) THEN @
                                       ELSE Append(@, arg.name)]
    BY <1>4, <1>6
<1>7. CASE At(-1) /\ d.E > 0 /\ i' = i
           /\ callsys(compose("cpp", d.plist, arg.name, NoFile),
                      [at |-> "print", name |-> arg.name, base |-> ""])
           /\ d' = [d EXCEPT !.llist1 = Append(@, arg.name)]
    <2>1. arg.kind = "file"
        BY <1>7 DEF At
    <2> DEFINE at == [at |-> "print", name |-> arg.name, base |-> ""]
    <2>2. at.at = "print" /\ callsys(compose("cpp", d.plist, arg.name, NoFile), at)
        BY <1>7
    <2> HIDE DEF at
    <2>3. QED BY <1>5, <1>7, <2>1, <2>2
<1>8. QED BY <1>3, <1>6, <1>7 DEF Other

LEMMA PreprocessStep == DriverInv /\ Preprocess => DriverInv'
<1> SUFFICES ASSUME DriverInv, Preprocess PROVE DriverInv'
    OBVIOUS
<1> DEFINE temp == IF itemp = NoFile THEN tempname(1) ELSE itemp
           job1(step) == [at |-> step, name |-> arg.name, base |-> basename(arg.name)]
<1>1. UNCHANGED << argv, i, pass, d, files, status >> /\ FilePass /\ arg.kind = "file"
    BY DEF Preprocess, At
<1>2. /\ Running /\ pass = "files" /\ i <= Len(argv) /\ child = NoChild /\ job = NoJob
      /\ DOMAIN d = Fields /\ d.errcnt \in Nat
    BY <1>1, AtRest
<1>3. /\ DOMAIN d' = Fields /\ d'.errcnt \in Nat /\ d'.nf = d.nf
      /\ d'.outfile = d.outfile /\ d'.verbose = d.verbose
    BY <1>1, <1>2
<1>4. CASE d.E > 0
    <2> DEFINE command == compose("cpp", d.plist, arg.name, NoFile)
               at == job1("print")
    <2>1. callsys(command, at) /\ UNCHANGED << itemp, rmlist >>
        BY <1>4 DEF Preprocess
    <2>2. /\ DOMAIN command = DOMAIN NoChild /\ command.at = "asked"
          /\ command.out.dir # TempDir /\ at.at = "print"
        BY NoChildIs DEF compose, NoChild
    <2> HIDE DEF command, at
    <2>3. QED BY <1>1, <1>2, <1>3, <2>1, <2>2, AskStep DEF arg
<1>5. CASE ~ (d.E > 0)
    <2> DEFINE command == compose("cpp", d.plist, arg.name, temp)
               at == job1("cpp")
    <2>1. /\ callsys(command, at) /\ itemp' = temp
          /\ rmlist' = IF itemp = NoFile THEN Append(rmlist, temp) ELSE rmlist
        BY <1>5 DEF Preprocess
    <2>2. /\ DOMAIN command = DOMAIN NoChild /\ command.at = "asked"
          /\ command.out = temp /\ at.at = "cpp"
        BY DEF compose, NoChild
    <2>3. itemp = NoFile => temp.dir = TempDir /\ temp.suffix = ".i"
        BY DEF tempname, suffixes
    <2>4. itemp # NoFile => temp = itemp
        OBVIOUS
    <2> HIDE DEF command, at, temp
    <2>5. \/ UNCHANGED << itemp, rmlist >>
          \/ /\ itemp = NoFile /\ itemp'.dir = TempDir /\ itemp'.suffix = ".i"
             /\ rmlist' = << itemp' >>
        <3>1. CASE itemp = NoFile
            <4>1. rmlist = << >>
                BY <3>1 DEF DriverInv, DataOK
            <4>2. rmlist' = << temp >>
                BY <2>1, <3>1, <4>1
            <4>3. QED BY <2>1, <2>3, <3>1, <4>2
        <3>2. CASE itemp # NoFile
            BY <2>1, <2>4, <3>2
        <3>3. QED BY <3>1, <3>2
    <2>6. QED BY <1>1, <1>2, <1>3, <2>1, <2>2, <2>5, AskStep DEF arg
<1>6. QED BY <1>4, <1>5

LEMMA CompileStep == DriverInv /\ Compile => DriverInv'
<1> SUFFICES ASSUME DriverInv, Compile PROVE DriverInv'
    OBVIOUS
<1>1. UNCHANGED << argv, i, pass, d, itemp, rmlist, files, status >>
    BY DEF Compile
<1>2. /\ Running /\ pass = "files" /\ i <= Len(argv) /\ argv[i].kind = "file"
    <2>1. CASE job = NoJob
        BY <2>1, AtRest DEF Compile, At, arg
    <2>2. CASE job # NoJob
        <3>1. Answered /\ job.at = "cpp"
            BY <2>2 DEF Compile
        <3>2. Running /\ child.at # "none"
            BY <3>1 DEF Answered
        <3>3. pass = "files"
            BY <3>2, NoChildIs DEF Running, DriverInv, PhaseOK
        <3>4. QED BY <3>1, <3>2, <3>3 DEF DriverInv, PhaseOK
    <2>3. QED BY <2>1, <2>2
<1>3. /\ DOMAIN d' = Fields /\ d'.errcnt \in Nat /\ d'.nf = d.nf
      /\ d'.outfile = d.outfile /\ d'.verbose = d.verbose
    BY <1>1 DEF DriverInv, DataOK
<1> DEFINE name == IF job = NoJob THEN arg.name ELSE itemp
           base == IF job = NoJob THEN basename(arg.name) ELSE job.base
           command == compose("rcc", d.clist, name, AsmOf(base))
           at == [at |-> "rcc", name |-> name, base |-> base]
<1>4. callsys(command, at)
    BY DEF Compile
<1>5. AsmOf(base).dir # TempDir
    BY NoChildIs DEF AsmOf, Named, TempDir, DriverInv, DataOK, Ordinary
<1>6. /\ DOMAIN command = DOMAIN NoChild /\ command.at = "asked"
      /\ command.out.dir # TempDir /\ at.at = "rcc"
    BY <1>5 DEF compose, NoChild
<1> HIDE DEF command, at
<1>7. QED BY <1>1, <1>2, <1>3, <1>4, <1>6, AskStep

(* A child goes on, in q3lcc's time or after it: what it makes is its output.   *)
LEMMA ChildMoves ==
    ASSUME DriverInv, UNCHANGED << argv, i, pass, d, itemp, rmlist, job, status >>,
           child.at \in {"asked", "forked", "running", "writing"},
           child'.at \in {"forked", "running", "writing", "over"},
           DOMAIN child' = DOMAIN NoChild, child'.out = child.out,
           DOMAIN files' \subseteq DOMAIN files
              \cup (IF child.out = NoFile THEN {} ELSE {child.out})
    PROVE  DriverInv'
<1>1. pass # "options"
    BY NoChildIs DEF DriverInv, PhaseOK
<1>2. d.verbose < 2
    BY <1>1 DEF DriverInv, TempOK
<1>3. ArgsOK'
    BY DEF DriverInv, ArgsOK
<1>4. DataOK'
    BY DEF DriverInv, DataOK
<1>5. PhaseOK'
    BY <1>1 DEF DriverInv, PhaseOK
<1>6. \A name \in DOMAIN files' : name.dir = TempDir => name = itemp
    BY DEF DriverInv, TempOK
<1>7. TempOK'
    BY <1>1, <1>2, <1>6 DEF DriverInv, TempOK
<1>8. QED BY <1>3, <1>4, <1>5, <1>7 DEF DriverInv

LEMMA ChildStep ==
    DriverInv /\ (Fork \/ Exec \/ Creates \/ Completes \/ Fails) => DriverInv'
<1> SUFFICES ASSUME DriverInv, Fork \/ Exec \/ Creates \/ Completes \/ Fails
             PROVE  DriverInv'
    OBVIOUS
<1>1. /\ child.at \in {"asked", "forked", "running", "writing"}
      /\ UNCHANGED << argv, i, pass, d, itemp, rmlist, job, status >>
    BY DEF Fork, Exec, Creates, Completes, Fails
<1>2. DOMAIN child = {"at", "cmd", "in", "out", "args", "code", "died"}
    BY NoChildIs DEF DriverInv, DataOK
<1>3. /\ child'.at \in {"forked", "running", "writing", "over"}
      /\ DOMAIN child' = DOMAIN NoChild /\ child'.out = child.out
    BY <1>2, NoChildIs DEF Fork, Exec, Creates, Completes, Fails
<1>4. DOMAIN files' \subseteq DOMAIN files
         \cup (IF child.out = NoFile THEN {} ELSE {child.out})
    <2>1. CASE Fork \/ Exec \/ Fails
        BY <2>1 DEF Fork, Exec, Fails
    <2>2. CASE Creates
        BY <2>2 DEF Creates, Written
    <2>3. CASE Completes
        BY <2>3 DEF Completes
    <2>4. QED BY <2>1, <2>2, <2>3
<1>5. QED BY <1>1, <1>3, <1>4, ChildMoves

(* What is removed at the end is all there is in the temporary directory.     *)
LEMMA Removed == ASSUME DriverInv, files' = rm, pass # "options" PROVE NoTemp'
<1>1. CASE d.verbose < 2
    <2>1. DOMAIN files' = DOMAIN files \ Range(rmlist)
        BY <1>1 DEF rm
    <2>2. itemp # NoFile => itemp \in Range(rmlist)
        <3>1. itemp # NoFile => rmlist = << itemp >>
            BY DEF DriverInv, DataOK
        <3>2. QED BY <3>1 DEF Range
    <2>3. \A name \in DOMAIN files : name.dir = TempDir => name = itemp /\ itemp # NoFile
        BY NoChildIs DEF DriverInv, TempOK
    <2>4. QED BY <2>1, <2>2, <2>3 DEF NoTemp
<1>2. CASE ~ (d.verbose < 2)
    BY <1>2 DEF rm, DriverInv, TempOK, NoTemp
<1>3. QED BY <1>1, <1>2

LEMMA EndStep == DriverInv /\ (End \/ interrupt) => DriverInv'
<1> SUFFICES ASSUME DriverInv, End \/ interrupt PROVE DriverInv'
    OBVIOUS
<1>1. /\ Running /\ files' = rm /\ pass' = "over" /\ status' # -1
      /\ child' \in {child, NoChild} /\ UNCHANGED << argv, i, d, itemp, rmlist, job >>
    <2>1. CASE End
        BY <2>1 DEF End, Exit
    <2>2. CASE interrupt
        BY <2>2 DEF interrupt, Exit
    <2>3. QED BY <2>1, <2>2
<1>2. NoTemp'
    <2>1. CASE pass # "options"
        BY <1>1, <2>1, Removed
    <2>2. CASE pass = "options"
        <3>1. DOMAIN files' \subseteq DOMAIN files
            BY <1>1 DEF rm
        <3>2. QED BY <2>2, <3>1 DEF DriverInv, TempOK, NoTemp
    <2>3. QED BY <2>1, <2>2
<1>3. ArgsOK'
    BY <1>1 DEF DriverInv, ArgsOK
<1>4. DataOK'
    BY <1>1, NoChildIs DEF DriverInv, DataOK
<1>5. PhaseOK'
    BY <1>1 DEF PhaseOK
<1>6. \/ d.verbose < 2 \/ child'.at \in {"none", "over"}
    BY <1>1, NoChildIs DEF DriverInv, TempOK, PhaseOK
<1>7. TempOK'
    BY <1>1, <1>2, <1>6, NoChildIs DEF DriverInv, TempOK, NoTemp
<1>8. QED BY <1>3, <1>4, <1>5, <1>7 DEF DriverInv

LEMMA DriverNext == DriverInv /\ [Next]_vars => DriverInv'
<1>1. ASSUME DriverInv, UNCHANGED vars PROVE DriverInv'
    BY <1>1 DEF vars, DriverInv, ArgsOK, DataOK, PhaseOK, TempOK, NoTemp
<1>2. QED
    BY <1>1, OutOptionStep, FlagsStep, OptionsDoneStep, FiledStep, OtherStep,
       PreprocessStep, CompileStep, ChildStep, EndStep DEF Next, Step

(* The invariant holds in every state of every command line.                  *)
THEOREM DriverInvariant == Spec => []DriverInv
    BY DriverInit, DriverNext, PTL DEF Spec

(* Whatever q3lcc is given, whatever fails and whenever it is interrupted, it  *)
(* leaves nothing in the directory for temporary files, unless a child that it *)
(* no longer waits for writes it.                                           *)
THEOREM DriverRemovesTemp == Spec => []TempRemoved
<1>1. DriverInv => TempRemoved
    BY NoChildIs DEF DriverInv, TempOK, TempRemoved, NoTemp
<1>2. QED BY <1>1, DriverInvariant, PTL

-----------------------------------------------------------------------------
(* The second invariant, for what success means: a child that has gone wrong   *)
(* is counted before q3lcc ends; sources stay; -o is kept for one file only;   *)
(* and the text that is made now, and was made before, is of the file named.   *)

Filing == pass = "files" \/ status = 0
Quiet == d.E = 0 /\ d.verbose < 2

FailOK ==
    /\ child.at \in {"asked", "forked", "running", "writing"} => child.code = 0 /\ ~ child.died
    /\ failed /\ status \in {-1, 0} =>
          \/ d.errcnt > 0
          \/ status = -1 /\ child.at = "over" /\ spawnStatus # 0
    /\ status = 0 => child = NoChild /\ job = NoJob /\ d.errcnt = 0 /\ i > Len(argv)

SourcesOK ==
    /\ \A name \in DOMAIN files : name.suffix = ".c" => files[name] = Source(name)
    /\ child.out.suffix # ".c"

Counted(k) == argv[k].kind = "file" /\ suffix(argv[k].name, 3) >= 0
CountOK ==
    /\ pass = "options" =>
          /\ d.nf = 0 => \A k \in 1 .. i - 1 : ~ Counted(k)
          /\ d.nf = 1 => \A k, l \in 1 .. i - 1 : Counted(k) /\ Counted(l) => k = l
    /\ Filing /\ d.outfile # NoFile =>
          \A k, l \in 1 .. Len(argv) : Counted(k) /\ Counted(l) => k = l

Preprocessed(name, whole) == Text("cpp", Source(name), d.plist, whole)
Compiled(name, whole) == Text("rcc", Preprocessed(name, TRUE), d.clist, whole)
Holds(name, text) == name \in DOMAIN files /\ files[name] = text

JobOK ==
    pass = "files" /\ Quiet =>
        /\ job.at # "print"
        /\ job.at = "cpp" =>
              /\ child.cmd = "cpp" /\ child.args = d.plist
              /\ child.in = argv[i].name /\ child.out = itemp /\ itemp # NoFile
              /\ suffix(argv[i].name, 4) = 0 /\ job.base = argv[i].name.base
        /\ job.at = "rcc" =>
              /\ child.cmd = "rcc" /\ child.args = d.clist
              /\ child.out = AsmOf(job.base) /\ job.base = argv[i].name.base
              /\ suffix(argv[i].name, 4) \in {0, 1}
              /\ suffix(argv[i].name, 4) = 0 =>
                    /\ child.in = itemp /\ itemp # NoFile
                    /\ Holds(itemp, Preprocessed(argv[i].name, TRUE))

TextOK ==
    pass = "files" /\ Quiet =>
        \A whole \in BOOLEAN :
            (IF whole THEN child.at = "over" /\ spawnStatus = 0 ELSE child.at = "writing") =>
                /\ job.at = "cpp" => Holds(itemp, Preprocessed(argv[i].name, whole))
                /\ job.at = "rcc" /\ suffix(argv[i].name, 4) = 0 =>
                      Holds(AsmOf(job.base), Compiled(argv[i].name, whole))

DoneOK ==
    Filing /\ Quiet /\ d.errcnt = 0 =>
        \A k \in Inputs(0) : k < i =>
            \/ Overwritten(k)
            \/ Holds(AsmOf(argv[k].name.base), Compiled(argv[k].name, TRUE))

SuccessInv == FailOK /\ SourcesOK /\ CountOK /\ JobOK /\ TextOK /\ DoneOK

SameFlags ==
    /\ d'.E = d.E /\ d'.verbose = d.verbose /\ d'.outfile = d.outfile
    /\ d'.plist = d.plist /\ d'.clist = d.clist

LEMMA InputFacts ==
    ASSUME NEW name
    PROVE  /\ suffix(name, 4) = 0 <=> name.suffix = ".c"
           /\ suffix(name, 4) \in {0, 1} => suffix(name, 3) >= 0
<1>1. suffixes[1] = ".c" /\ suffixes[2] = ".i"
    BY DEF suffixes
<1>2. 4 \in 1 .. 4 /\ 3 \in 1 .. 4 /\ 1 \in 1 .. 4 /\ 2 \in 1 .. 4 /\ 1 \in 1 .. 3 /\ 2 \in 1 .. 3
    OBVIOUS
<1>3. /\ suffix(name, 4) = 1 - 1 <=> suffixes[1] = name.suffix
      /\ suffix(name, 4) = 2 - 1 <=> suffixes[2] = name.suffix
    BY <1>2, SuffixFacts
<1>4. /\ suffix(name, 3) = 1 - 1 <=> suffixes[1] = name.suffix
      /\ suffix(name, 3) = 2 - 1 <=> suffixes[2] = name.suffix
    BY <1>2, SuffixFacts
<1>5. QED BY <1>1, <1>3, <1>4

LEMMA SuccessInit == Init => SuccessInv
<1> SUFFICES ASSUME Init PROVE SuccessInv
    OBVIOUS
<1>1. /\ child = NoChild /\ job = NoJob /\ i = 1 /\ pass = "options" /\ status = -1
      /\ failed = FALSE /\ d.nf = 0
    BY DEF Init
<1>2. FailOK
    BY <1>1, NoChildIs DEF FailOK
<1>3. SourcesOK
    <2>1. PICK present \in Present : files = [name \in present |-> Source(name)]
        BY DEF Init
    <2>2. child.out.suffix # ".c"
        BY <1>1, NoChildIs
    <2>3. \A name \in DOMAIN files : files[name] = Source(name)
        BY <2>1
    <2>4. QED BY <2>2, <2>3 DEF SourcesOK
<1>4. CountOK
    BY <1>1 DEF CountOK, Filing
<1>5. JobOK /\ TextOK /\ DoneOK
    BY <1>1 DEF JobOK, TextOK, DoneOK, Filing
<1>6. QED BY <1>2, <1>3, <1>4, <1>5 DEF SuccessInv

(* Options only read: what fails is counted, or q3lcc ends with 8.             *)
LEMMA OptionSucceeds ==
    ASSUME DriverInv, SuccessInv, Options, CountOK',
           \/ UNCHANGED << pass, status >> /\ d'.errcnt \in Nat /\ d'.errcnt >= d.errcnt
              /\ (failed' => failed \/ d'.errcnt > d.errcnt)
           \/ pass' = "over" /\ status' = 8
    PROVE  SuccessInv'
<1>1. /\ pass = "options" /\ status = -1 /\ child = NoChild /\ job = NoJob
      /\ UNCHANGED << itemp, rmlist, job, child, files >>
    BY ReadingOptions
<1>2. pass' \in {"options", "over"} /\ status' \in {-1, 8}
    BY <1>1
<1>3. FailOK'
    <2>1. d.errcnt \in Nat
        BY DEF DriverInv, DataOK
    <2>2. failed => d.errcnt > 0
        BY <1>1, NoChildIs DEF SuccessInv, FailOK
    <2>3. failed' /\ status' = -1 => d'.errcnt > 0
        BY <1>1, <2>1, <2>2
    <2>4. QED BY <1>1, <1>2, <2>3, NoChildIs DEF FailOK
<1>4. SourcesOK'
    BY <1>1 DEF SuccessInv, SourcesOK
<1>5. pass' # "files" /\ status' # 0
    BY <1>2
<1>6. JobOK'
    BY <1>5 DEF JobOK
<1>7. TextOK'
    BY <1>5 DEF TextOK
<1>8. DoneOK'
    BY <1>5 DEF DoneOK, Filing
<1>9. QED BY <1>3, <1>4, <1>6, <1>7, <1>8 DEF SuccessInv

LEMMA CountStays ==
    ASSUME DriverInv, SuccessInv, pass = "options", pass' = "options", status' = -1, i' = i,
           d'.nf = d.nf, \A k \in 1 .. i - 1 : argv'[k] = argv[k]
    PROVE  CountOK'
<1>1. ASSUME NEW k \in 1 .. i - 1 PROVE Counted(k)' <=> Counted(k)
    BY <1>1 DEF Counted
<1>2. QED BY <1>1 DEF SuccessInv, CountOK, Filing

LEMMA OptionsSucceed ==
    DriverInv /\ SuccessInv /\ (OutOption \/ TargetOption \/ Option \/ Kept) => SuccessInv'
<1> SUFFICES ASSUME DriverInv, SuccessInv, OutOption \/ TargetOption \/ Option \/ Kept
             PROVE  SuccessInv'
    OBVIOUS
<1>1. Options
    BY DEF OutOption, TargetOption, Option, Kept
<1>2. /\ argv \in Seq(Arguments) /\ i \in Nat /\ i >= 1 /\ i <= Len(argv) /\ Len(argv) \in Nat
      /\ pass = "options" /\ status = -1
    BY <1>1, ReadingOptions
<1>3. DOMAIN d = Fields /\ d.errcnt \in Nat /\ d.nf \in Nat
    BY DEF DriverInv, DataOK
<1>4. CASE OutOption
    <2>1. CASE Exit(8)
        <3>1. CountOK'
            BY <2>1 DEF Exit, CountOK, Filing
        <3>2. QED BY <1>1, <2>1, <3>1, OptionSucceeds DEF Exit
    <2>2. CASE ~ Exit(8)
        <3>1. /\ d' = [d EXCEPT !.outfile = argv[i + 1].name] /\ i # Len(argv)
              /\ argv' = RemoveAt(RemoveAt(argv, i), i) /\ UNCHANGED << i, pass, status, failed >>
            BY <1>4, <2>2 DEF OutOption
        <3>2. d'.nf = d.nf /\ d'.errcnt = d.errcnt
            BY <1>3, <3>1 DEF Fields
        <3>3. \A k \in 1 .. i - 1 : argv'[k] = argv[k]
            BY <1>1, <1>2, <3>1, TakenTwice
        <3>4. CountOK'
            BY <1>2, <3>1, <3>2, <3>3, CountStays
        <3>5. QED BY <1>1, <1>3, <3>1, <3>2, <3>4, OptionSucceeds
    <2>3. QED BY <2>1, <2>2
<1>5. CASE TargetOption
    <2>1. UNCHANGED << i, d, pass, status, failed >>
        BY <1>5 DEF TargetOption
    <2>2. \A k \in 1 .. i - 1 : argv'[k] = argv[k]
        BY <1>1, <1>5, <2>1, TakenOnce, TakenTwice DEF TargetOption
    <2>3. CountOK'
        BY <1>2, <2>1, <2>2, CountStays
    <2>4. QED BY <1>1, <1>3, <2>1, <2>3, OptionSucceeds
<1>6. CASE Option
    <2>1. /\ d' = opt(d, arg) /\ argv' = RemoveAt(argv, i) /\ UNCHANGED << i, pass, status >>
          /\ failed' = (failed \/ d'.errcnt > d.errcnt)
        BY <1>6 DEF Option
    <2>2. Kin(d, opt(d, arg))
        BY <1>3, OptionKeeps
    <2>3. d'.nf = d.nf /\ d'.errcnt \in Nat /\ d'.errcnt >= d.errcnt
        BY <2>1, <2>2 DEF Kin
    <2>4. \A k \in 1 .. i - 1 : argv'[k] = argv[k]
        BY <1>1, <2>1, TakenOnce
    <2>5. CountOK'
        BY <1>2, <2>1, <2>3, <2>4, CountStays
    <2>6. failed' => failed \/ d'.errcnt > d.errcnt
        BY <2>1
    <2>7. QED BY <1>1, <2>1, <2>3, <2>5, <2>6, OptionSucceeds
<1>7. CASE Kept
    <2> DEFINE more == IF arg.kind = "file" /\ suffix(arg.name, 3) >= 0 THEN 1 ELSE 0
    <2>1. /\ d' = [d EXCEPT !.nf = @ + more] /\ i' = i + 1
          /\ UNCHANGED << argv, pass, status, failed >>
        BY <1>7 DEF Kept
    <2>2. more = IF Counted(i) THEN 1 ELSE 0
        BY DEF Counted, arg
    <2> HIDE DEF more
    <2>3. d'.nf = d.nf + more /\ d'.errcnt = d.errcnt
        BY <1>3, <2>1 DEF Fields
    <2>4. CountOK'
        <3>1. \A k : Counted(k)' <=> Counted(k)
            BY <2>1 DEF Counted
        <3>2. /\ d.nf = 0 => \A k \in 1 .. i - 1 : ~ Counted(k)
              /\ d.nf = 1 => \A k, l \in 1 .. i - 1 : Counted(k) /\ Counted(l) => k = l
            BY <1>2 DEF SuccessInv, CountOK
        <3>3. /\ d.nf + more = 0 => \A k \in 1 .. i : ~ Counted(k)
              /\ d.nf + more = 1 => \A k, l \in 1 .. i : Counted(k) /\ Counted(l) => k = l
            <4>1. \A k \in 1 .. i : k \in 1 .. i - 1 \/ k = i
                BY <1>2
            <4>2. CASE Counted(i)
                <5>1. d.nf + more = d.nf + 1
                    BY <2>2, <4>2
                <5>2. QED BY <1>3, <3>2, <4>1, <5>1
            <4>3. CASE ~ Counted(i)
                <5>1. d.nf + more = d.nf
                    BY <1>3, <2>2, <4>3
                <5>2. QED BY <3>2, <4>1, <4>3, <5>1
            <4>4. QED BY <4>2, <4>3
        <3>4. i' - 1 = i /\ pass' = "options" /\ status' = -1 /\ d'.nf = d.nf + more
            BY <1>2, <2>1, <2>3
        <3>5. QED BY <3>1, <3>3, <3>4 DEF CountOK, Filing
    <2>5. QED BY <1>1, <1>3, <2>1, <2>3, <2>4, OptionSucceeds
<1>8. QED BY <1>4, <1>5, <1>6, <1>7

LEMMA OptionsDoneSucceeds == DriverInv /\ SuccessInv /\ OptionsDone => SuccessInv'
<1> SUFFICES ASSUME DriverInv, SuccessInv, OptionsDone PROVE SuccessInv'
    OBVIOUS
<1>1. /\ pass = "options" /\ status = -1 /\ pass' = "files" /\ i' = 1 /\ i > Len(argv)
      /\ d' = [d EXCEPT !.outfile = OneOutput, !.plist = @ \o d.include \o d.ilist,
                        !.ilist = << >>]
      /\ UNCHANGED << argv, itemp, rmlist, job, child, files, status, failed >>
    BY DEF OptionsDone, Running
<1>2. child = NoChild /\ job = NoJob
    BY <1>1 DEF DriverInv, PhaseOK
<1>3. d'.errcnt = d.errcnt /\ d'.outfile = OneOutput
    BY <1>1 DEF DriverInv, DataOK, Fields
<1>4. FailOK'
    BY <1>1, <1>2, <1>3, NoChildIs DEF SuccessInv, FailOK
<1>5. SourcesOK'
    BY <1>1 DEF SuccessInv, SourcesOK
<1>6. CountOK'
    <2>1. i - 1 = Len(argv)
        <3>1. i \in Nat /\ i <= Len(argv) + 1 /\ Len(argv) \in Nat
            BY <1>1, LenProperties DEF DriverInv, ArgsOK
        <3>2. QED BY <1>1, <3>1
    <2>2. d'.outfile # NoFile => d.nf = 1
        BY <1>3 DEF OneOutput
    <2>3. \A k : Counted(k)' <=> Counted(k)
        BY <1>1 DEF Counted
    <2>4. QED BY <1>1, <2>1, <2>2, <2>3 DEF SuccessInv, CountOK
<1>7. JobOK' /\ TextOK'
    BY <1>1, <1>2, NoChildIs DEF JobOK, TextOK
<1>8. DoneOK'
    <2>1. \A k \in Inputs(0)' : ~ (k < i')
        <3>1. DOMAIN argv' \subseteq Nat \ {0}
            BY <1>1, LenProperties DEF DriverInv, ArgsOK
        <3>2. QED BY <1>1, <3>1 DEF Inputs
    <2>2. QED BY <2>1 DEF DoneOK
<1>9. QED BY <1>4, <1>5, <1>6, <1>7, <1>8 DEF SuccessInv

(* A file is done with: it was compiled, or is not to be, or is counted.       *)
LEMMA DoneSucceeds ==
    ASSUME DriverInv, SuccessInv, Running, pass = "files", i <= Len(argv),
           i' = i + 1, child' = NoChild, job' = NoJob,
           UNCHANGED << argv, pass, itemp, rmlist, files, status >>,
           SameFlags, d'.errcnt \in Nat, d'.errcnt >= d.errcnt,
           failed' => d'.errcnt > 0,
           Quiet /\ d'.errcnt = 0 /\ i \in Inputs(0) =>
              Holds(AsmOf(argv[i].name.base), Compiled(argv[i].name, TRUE))
    PROVE  SuccessInv'
<1>1. status = -1 /\ i \in Nat /\ d.errcnt \in Nat
    BY DEF Running, DriverInv, ArgsOK, DataOK
<1>2. FailOK'
    BY <1>1, NoChildIs DEF FailOK
<1>3. SourcesOK'
    BY NoChildIs DEF SuccessInv, SourcesOK
<1>4. CountOK'
    <2>1. \A k : Counted(k)' <=> Counted(k)
        BY DEF Counted
    <2>2. QED BY <1>1, <2>1 DEF SuccessInv, CountOK, Filing, SameFlags
<1>5. JobOK' /\ TextOK'
    BY NoChildIs DEF JobOK, TextOK
<1>6. DoneOK'
    <2> SUFFICES ASSUME Quiet', d'.errcnt = 0, NEW k \in Inputs(0), k < i + 1
                 PROVE  \/ Overwritten(k)
                        \/ Holds(AsmOf(argv[k].name.base), Compiled(argv[k].name, TRUE))
        BY DEF DoneOK, Inputs, Overwritten, Holds, AsmOf, Compiled, Preprocessed, SameFlags
    <2>1. Quiet /\ d.errcnt = 0
        BY <1>1 DEF Quiet, SameFlags
    <2>2. CASE k = i
        BY <2>1, <2>2
    <2>3. CASE k # i
        <3>1. k \in Nat
            BY LenProperties DEF Inputs, DriverInv, ArgsOK
        <3>2. k < i
            BY <1>1, <2>3, <3>1
        <3>3. QED BY <2>1, <3>2 DEF SuccessInv, DoneOK, Filing
    <2>4. QED BY <2>2, <2>3
<1>7. QED BY <1>2, <1>3, <1>4, <1>5, <1>6 DEF SuccessInv

(* A command is asked for, when all before it went well.                      *)
LEMMA AskSucceeds ==
    ASSUME DriverInv, SuccessInv, Running, pass = "files",
           NEW command, NEW at, callsys(command, at), command.at = "asked",
           DOMAIN command = DOMAIN NoChild, command.code = 0, ~ command.died,
           command.out.suffix # ".c",
           UNCHANGED << argv, i, pass, files, status, failed >>,
           SameFlags, d'.errcnt = d.errcnt, failed => d.errcnt > 0, JobOK'
    PROVE  SuccessInv'
<1>1. /\ child'.at = IF d.verbose < 2 THEN "asked" ELSE "over"
      /\ child'.code = 0 /\ ~ child'.died /\ child'.out = command.out
    BY NoChildIs DEF callsys
<1>2. status = -1
    BY DEF Running
<1>3. FailOK'
    BY <1>1, <1>2 DEF FailOK
<1>4. SourcesOK'
    BY <1>1 DEF SuccessInv, SourcesOK
<1>5. CountOK'
    <2>1. \A k : Counted(k)' <=> Counted(k)
        BY DEF Counted
    <2>2. QED BY <2>1 DEF SuccessInv, CountOK, Filing, SameFlags
<1>6. TextOK'
    <2>1. Quiet' => child'.at = "asked"
        BY <1>1 DEF Quiet, SameFlags
    <2>2. QED BY <2>1 DEF TextOK
<1>7. DoneOK'
    <2> SUFFICES ASSUME Quiet', d'.errcnt = 0, NEW k \in Inputs(0), k < i
                 PROVE  \/ Overwritten(k)
                        \/ Holds(AsmOf(argv[k].name.base), Compiled(argv[k].name, TRUE))
        BY DEF DoneOK, Inputs, Overwritten, Holds, AsmOf, Compiled, Preprocessed, SameFlags
    <2>1. Quiet /\ d.errcnt = 0
        BY DEF Quiet, SameFlags
    <2>2. QED BY <2>1 DEF SuccessInv, DoneOK, Filing
<1>8. QED BY <1>3, <1>4, <1>5, <1>6, <1>7 DEF SuccessInv

LEMMA NothingFails ==
    ASSUME DriverInv, SuccessInv, FilePass
    PROVE  failed => d.errcnt > 0
    BY AtRest, NoChildIs DEF SuccessInv, FailOK, Running

LEMMA FiledSucceeds ==
    DriverInv /\ SuccessInv /\ (Library \/ Missing \/ Filed) => SuccessInv'
<1> SUFFICES ASSUME DriverInv, SuccessInv, Library \/ Missing \/ Filed PROVE SuccessInv'
    OBVIOUS
<1>1. DOMAIN d = Fields /\ d.errcnt \in Nat
    BY DEF DriverInv, DataOK
<1>2. CASE Library
    <2>1. FilePass /\ i' = i + 1 /\ arg.kind = "option"
          /\ UNCHANGED << argv, pass, d, itemp, rmlist, job, child, files, status, failed >>
        BY <1>2 DEF Library
    <2>2. i \notin Inputs(0)
        BY <2>1 DEF Inputs, arg
    <2>3. failed' => d'.errcnt > 0
        BY <2>1, NothingFails
    <2>4. SameFlags /\ d'.errcnt \in Nat /\ d'.errcnt >= d.errcnt
        BY <1>1, <2>1 DEF SameFlags
    <2>5. QED BY <2>1, <2>2, <2>3, <2>4, AtRest, DoneSucceeds
<1>3. CASE Missing
    <2>1. FilePass /\ i' = i + 1 /\ d' = [d EXCEPT !.errcnt = @ + 1]
          /\ UNCHANGED << argv, pass, itemp, rmlist, job, child, files, status >>
        BY <1>3 DEF Missing
    <2>2. d'.errcnt = d.errcnt + 1 /\ SameFlags
        BY <1>1, <2>1 DEF Fields, SameFlags
    <2>3. d'.errcnt \in Nat /\ d'.errcnt > 0 /\ d'.errcnt >= d.errcnt
        BY <1>1, <2>2
    <2>4. /\ Running /\ pass = "files" /\ i <= Len(argv)
          /\ child' = NoChild /\ job' = NoJob
        BY <2>1, AtRest
    <2>5. ~ (d'.errcnt = 0)
        BY <2>3
    <2>6. QED BY <2>1, <2>2, <2>3, <2>4, <2>5, DoneSucceeds
<1>4. CASE Filed
    <2> DEFINE e == IF spawnStatus # 0 THEN 1 ELSE 0
    <2>1. child' = NoChild /\ job' = NoJob /\ i' = i + 1 /\ d' = [d EXCEPT !.errcnt = @ + e]
        BY <1>4 DEF Filed, ended
    <2>2. e \in Nat /\ (spawnStatus # 0 => e > 0)
        OBVIOUS
    <2> HIDE DEF e
    <2>3. d'.errcnt = d.errcnt + e /\ SameFlags
        BY <1>1, <2>1 DEF Fields, SameFlags
    <2>4. d'.errcnt \in Nat /\ d'.errcnt >= d.errcnt /\ (spawnStatus # 0 => d'.errcnt > 0)
        BY <1>1, <2>2, <2>3
    <2>5. /\ Running /\ child.at = "over" /\ job.at # "none"
          /\ job.at = "cpp" => spawnStatus # 0
          /\ UNCHANGED << argv, pass, itemp, rmlist, files, status, failed >>
        BY <1>4 DEF Filed, Answered
    <2>6. pass = "files"
        BY <2>5, NoChildIs DEF Running, DriverInv, PhaseOK
    <2>7. i <= Len(argv)
        BY <2>5, <2>6 DEF DriverInv, PhaseOK
    <2>8. failed' => d'.errcnt > 0
        <3>1. failed => d.errcnt > 0 \/ spawnStatus # 0
            BY <2>5 DEF Running, SuccessInv, FailOK
        <3>2. QED BY <1>1, <2>4, <2>5, <3>1
    <2>9. ASSUME Quiet, d'.errcnt = 0, i \in Inputs(0)
          PROVE  Holds(AsmOf(argv[i].name.base), Compiled(argv[i].name, TRUE))
        <3>1. spawnStatus = 0
            BY <2>4, <2>9
        <3>2. job.at = "rcc"
            BY <2>5, <2>6, <2>9, <3>1 DEF SuccessInv, JobOK, DriverInv, DataOK
        <3>3. suffix(argv[i].name, 4) = 0
            BY <2>9 DEF Inputs
        <3>4. job.base = argv[i].name.base
            BY <2>6, <2>9, <3>2 DEF SuccessInv, JobOK
        <3>5. Holds(AsmOf(job.base), Compiled(argv[i].name, TRUE))
            BY <2>5, <2>6, <2>9, <3>1, <3>2, <3>3 DEF SuccessInv, TextOK
        <3>6. QED BY <3>4, <3>5
    <2>10. QED BY <2>1, <2>3, <2>4, <2>5, <2>6, <2>7, <2>8, <2>9, DoneSucceeds
<1>5. QED BY <1>2, <1>3, <1>4

LEMMA OtherSucceeds == DriverInv /\ SuccessInv /\ Other => SuccessInv'
<1> SUFFICES ASSUME DriverInv, SuccessInv, Other PROVE SuccessInv'
    OBVIOUS
<1>1. UNCHANGED << argv, pass, itemp, rmlist, files, status, failed >> /\ FilePass
    BY DEF Other, At
<1>2. /\ Running /\ pass = "files" /\ i <= Len(argv) /\ child = NoChild /\ job = NoJob
      /\ DOMAIN d = Fields /\ d.errcnt \in Nat
    BY <1>1, AtRest
<1>3. failed => d.errcnt > 0
    BY <1>1, NothingFails
<1>4. CASE (At(1) \/ At(2)) /\ ended(0)
    <2>1. d' = [d EXCEPT !.errcnt = @ + 0] /\ child' = NoChild /\ job' = NoJob /\ i' = i + 1
        BY <1>4 DEF ended
    <2>2. d'.errcnt = d.errcnt /\ SameFlags
        BY <1>2, <2>1 DEF Fields, SameFlags
    <2>3. i \notin Inputs(0)
        BY <1>4 DEF At, Inputs, arg
    <2>4. d'.errcnt \in Nat /\ d'.errcnt >= d.errcnt /\ (failed' => d'.errcnt > 0)
        BY <1>1, <1>2, <1>3, <2>2
    <2>5. QED BY <1>1, <1>2, <2>1, <2>2, <2>3, <2>4, DoneSucceeds
<1>5. ASSUME NEW list, At(3) \/ At(-1), i' = i + 1, child' = child, job' = job,
             d' = [d EXCEPT !.llist1 = list]
      PROVE  SuccessInv'
    <2>1. d'.errcnt = d.errcnt /\ SameFlags
        BY <1>2, <1>5 DEF Fields, SameFlags
    <2>2. i \notin Inputs(0)
        BY <1>5 DEF At, Inputs, arg
    <2>3. d'.errcnt \in Nat /\ d'.errcnt >= d.errcnt /\ (failed' => d'.errcnt > 0)
        BY <1>1, <1>2, <1>3, <2>1
    <2>4. QED BY <1>1, <1>2, <1>5, <2>1, <2>2, <2>3, DoneSucceeds
<1>6. ASSUME NEW list, NEW at, d.E > 0, i' = i,
             callsys(compose("cpp", d.plist, arg.name, NoFile), at),
             d' = [d EXCEPT !.llist1 = list]
      PROVE  SuccessInv'
    <2>1. d'.errcnt = d.errcnt /\ SameFlags
        BY <1>2, <1>6 DEF Fields, SameFlags
    <2> DEFINE command == compose("cpp", d.plist, arg.name, NoFile)
    <2>2. /\ DOMAIN command = DOMAIN NoChild /\ command.at = "asked"
          /\ command.code = 0 /\ ~ command.died /\ command.out = NoFile
        BY DEF compose, NoChild
    <2>3. command.out.suffix # ".c"
        BY <2>2, NoChildIs
    <2>4. callsys(command, at)
        BY <1>6
    <2> HIDE DEF command
    <2>5. JobOK'
        <3>1. ~ Quiet'
            BY <1>6, <2>1 DEF Quiet, SameFlags
        <3>2. QED BY <3>1 DEF JobOK
    <2>6. QED BY <1>1, <1>2, <1>3, <1>6, <2>1, <2>2, <2>3, <2>4, <2>5, AskSucceeds
<1>7. CASE (At(3) \/ (At(-1) /\ d.E = 0)) /\ i' = i + 1 /\ child' = child /\ job' = job
           /\ d' = [d EXCEPT !.llist1 = IF arg.name \in Range(@) /\ At(3) THEN @
                                       ELSE Append(@, arg.name)]
    BY <1>5, <1>7
<1>8. CASE At(-1) /\ d.E > 0 /\ i' = i
           /\ callsys(compose("cpp", d.plist, arg.name, NoFile),
                      [at |-> "print", name |-> arg.name, base |-> ""])
           /\ d' = [d EXCEPT !.llist1 = Append(@, arg.name)]
    BY <1>6, <1>8
<1>9. QED BY <1>4, <1>7, <1>8 DEF Other

(* The output of a file is never the temporary file, nor a source.             *)
LEMMA AsmFacts ==
    ASSUME DriverInv, NEW base
    PROVE  /\ AsmOf(base) # NoFile /\ AsmOf(base) # itemp
           /\ AsmOf(base).suffix \notin {".c", ".i"}
<1>1. CASE d.outfile # NoFile
    BY <1>1, NoChildIs DEF AsmOf, DriverInv, DataOK, Ordinary
<1>2. CASE d.outfile = NoFile
    <2>1. AsmOf(base) = Named(base, 2)
        BY <1>2 DEF AsmOf
    <2>2. Named(base, 2).dir = "" /\ Named(base, 2).suffix = ".asm"
        BY DEF Named, suffixes
    <2>3. NoFile.suffix = "" /\ TempDir # ""
        BY DEF TempDir, NoFile
    <2>4. QED BY <2>1, <2>2, <2>3 DEF DriverInv, DataOK
<1>3. QED BY <1>1, <1>2

LEMMA PreprocessSucceeds == DriverInv /\ SuccessInv /\ Preprocess => SuccessInv'
<1> SUFFICES ASSUME DriverInv, SuccessInv, Preprocess PROVE SuccessInv'
    OBVIOUS
<1> DEFINE temp == IF itemp = NoFile THEN tempname(1) ELSE itemp
           out == IF d.E > 0 THEN NoFile ELSE temp
           step == IF d.E > 0 THEN "print" ELSE "cpp"
           command == compose("cpp", d.plist, arg.name, out)
           at == [at |-> step, name |-> arg.name, base |-> basename(arg.name)]
<1>1. /\ UNCHANGED << argv, i, pass, d, files, status, failed >>
      /\ FilePass /\ suffix(arg.name, 4) = 0
    BY DEF Preprocess, At
<1>2. Running /\ pass = "files" /\ i <= Len(argv) /\ failed => d.errcnt > 0
    BY <1>1, AtRest, NothingFails
<1>3. callsys(command, at) /\ (~ (d.E > 0) => itemp' = temp)
    BY DEF Preprocess
<1>4. /\ DOMAIN command = DOMAIN NoChild /\ command.at = "asked"
      /\ command.code = 0 /\ ~ command.died /\ command.out = out
      /\ command.cmd = "cpp" /\ command.args = d.plist /\ command.in = arg.name
    BY DEF compose, NoChild
<1>5. at.at = step /\ at.base = arg.name.base
    BY DEF basename
<1>6. temp # NoFile /\ temp.suffix = ".i"
    <2>1. tempname(1).dir = TempDir /\ tempname(1).suffix = ".i"
        BY DEF tempname, suffixes
    <2>2. QED BY <2>1, NoChildIs DEF DriverInv, DataOK
<1> HIDE DEF command, at, temp
<1>7. command.out.suffix # ".c"
    BY <1>4, <1>6, NoChildIs
<1>8. JobOK'
    <2> SUFFICES ASSUME Quiet PROVE JobOK'
        BY <1>1 DEF JobOK, Quiet
    <2>1. step = "cpp" /\ out = temp /\ itemp' = temp
        BY <1>3 DEF Quiet
    <2>2. /\ job'.at = "cpp" /\ job'.base = arg.name.base
          /\ child' = command
        BY <1>3, <1>5, <2>1 DEF callsys, Quiet
    <2>3. QED BY <1>1, <1>4, <1>6, <2>1, <2>2 DEF JobOK, arg
<1>9. SameFlags /\ d'.errcnt = d.errcnt
    BY <1>1 DEF SameFlags
<1>10. QED BY <1>1, <1>2, <1>3, <1>4, <1>7, <1>8, <1>9, AtRest, AskSucceeds

LEMMA CompileSucceeds == DriverInv /\ SuccessInv /\ Compile => SuccessInv'
<1> SUFFICES ASSUME DriverInv, SuccessInv, Compile PROVE SuccessInv'
    OBVIOUS
<1> DEFINE name == IF job = NoJob THEN arg.name ELSE itemp
           base == IF job = NoJob THEN basename(arg.name) ELSE job.base
           command == compose("rcc", d.clist, name, AsmOf(base))
           at == [at |-> "rcc", name |-> name, base |-> base]
<1>1. UNCHANGED << argv, i, pass, d, itemp, rmlist, files, status, failed >>
    BY DEF Compile
<1>2. callsys(command, at)
    BY DEF Compile
<1>3. /\ DOMAIN command = DOMAIN NoChild /\ command.at = "asked"
      /\ command.code = 0 /\ ~ command.died /\ command.out = AsmOf(base)
      /\ command.cmd = "rcc" /\ command.args = d.clist /\ command.in = name
      /\ at.at = "rcc" /\ at.base = base
    BY DEF compose, NoChild
<1>4. command.out.suffix # ".c"
    BY <1>3, AsmFacts
<1>5. job # NoJob => Running /\ child.at = "over" /\ job.at = "cpp" /\ spawnStatus = 0
    BY DEF Compile, Answered
<1>6. job = NoJob => FilePass /\ suffix(arg.name, 4) = 1 /\ d.E = 0
    BY DEF Compile, At
<1>7. Running /\ pass = "files"
    <2>1. CASE job = NoJob
        BY <1>6, <2>1, AtRest
    <2>2. CASE job # NoJob
        BY <1>5, <2>2, NoChildIs DEF Running, DriverInv, PhaseOK
    <2>3. QED BY <2>1, <2>2
<1>8. failed => d.errcnt > 0
    <2>1. CASE job = NoJob
        BY <1>6, <2>1, NothingFails
    <2>2. CASE job # NoJob
        BY <1>5, <2>2 DEF Running, SuccessInv, FailOK
    <2>3. QED BY <2>1, <2>2
<1> HIDE DEF command, at
<1>9. JobOK'
    <2> SUFFICES ASSUME Quiet PROVE JobOK'
        BY <1>1 DEF JobOK, Quiet
    <2>1. child' = command /\ job' = at
        BY <1>2 DEF callsys, Quiet
    <2>2. job'.at = "rcc" /\ job'.base = base
        BY <1>3, <2>1
    <2>3. /\ child'.cmd = "rcc" /\ child'.args = d.clist /\ child'.in = name
          /\ child'.out = AsmOf(base)
        BY <1>3, <2>1
    <2>4. base = argv[i].name.base /\ suffix(argv[i].name, 4) \in {0, 1}
        <3>1. CASE job = NoJob
            BY <1>6, <3>1 DEF arg, basename
        <3>2. CASE job # NoJob
            BY <1>5, <1>7, <3>2 DEF SuccessInv, JobOK
        <3>3. QED BY <3>1, <3>2
    <2>5. ASSUME suffix(argv[i].name, 4) = 0
          PROVE  name = itemp /\ itemp # NoFile /\ Holds(itemp, Preprocessed(argv[i].name, TRUE))
        <3>1. job # NoJob
            BY <1>6, <2>5 DEF arg
        <3>2. name = itemp /\ itemp # NoFile
            BY <1>5, <1>7, <3>1 DEF SuccessInv, JobOK
        <3>3. Holds(itemp, Preprocessed(argv[i].name, TRUE))
            BY <1>5, <1>7, <3>1 DEF SuccessInv, TextOK
        <3>4. QED BY <3>2, <3>3
    <2> HIDE DEF name, base
    <2>6. PICK b : b = base
        OBVIOUS
    <2>7. AsmOf(b)' = AsmOf(b)
        BY <1>1 DEF AsmOf
    <2>8. Holds(itemp, Preprocessed(argv[i].name, TRUE))'
             <=> Holds(itemp, Preprocessed(argv[i].name, TRUE))
        BY <1>1 DEF Holds, Preprocessed
    <2>9. child'.out = AsmOf(job.base)'
        BY <2>2, <2>3, <2>6, <2>7
    <2>10. QED BY <1>1, <2>2, <2>3, <2>4, <2>5, <2>8, <2>9 DEF JobOK
<1>10. SameFlags /\ d'.errcnt = d.errcnt
    BY <1>1 DEF SameFlags
<1>11. QED BY <1>1, <1>2, <1>3, <1>4, <1>7, <1>8, <1>9, <1>10, AskSucceeds

(* What is made for this file is not what was made for an earlier one, unless  *)
(* that has the same name.                                                  *)
LEMMA OutputApart ==
    ASSUME DriverInv, SuccessInv, pass = "files", Quiet, job.at # "none",
           NEW k \in Inputs(0), k < i, ~ Overwritten(k)
    PROVE  AsmOf(argv[k].name.base) # child.out
<1> DEFINE made == AsmOf(argv[k].name.base)
<1>1. /\ argv \in Seq(Arguments) /\ DOMAIN argv = 1 .. Len(argv) /\ Len(argv) \in Nat
      /\ i \in Nat /\ i >= 1
    BY LenProperties DEF DriverInv, ArgsOK
<1>2. i \in DOMAIN argv /\ argv[i].kind = "file"
    BY <1>1 DEF DriverInv, PhaseOK
<1>3. CASE job.at = "cpp"
    <2>1. child.out = itemp
        BY <1>3 DEF SuccessInv, JobOK
    <2>2. QED BY <2>1, AsmFacts
<1>4. CASE job.at = "rcc"
    <2>1. /\ child.out = AsmOf(argv[i].name.base)
          /\ suffix(argv[i].name, 4) \in {0, 1}
        BY <1>4 DEF SuccessInv, JobOK
    <2>2. argv[k].name.base # argv[i].name.base
        BY <1>2, <2>1 DEF Overwritten, Inputs
    <2>3. CASE d.outfile = NoFile
        <3>1. \A base : AsmOf(base) = [dir |-> "", base |-> base, suffix |-> suffixes[3]]
            BY <2>3 DEF AsmOf, Named
        <3>2. \A base : AsmOf(base).base = base
            BY <3>1
        <3>3. QED BY <2>1, <2>2, <3>2
    <2>4. CASE d.outfile # NoFile
        <3>1. k \in 1 .. Len(argv) /\ i \in 1 .. Len(argv) /\ k # i
            BY <1>1, <1>2 DEF Inputs
        <3>2. Counted(i)
            BY <1>2, <2>1, InputFacts DEF Counted
        <3>3. Counted(k)
            BY InputFacts DEF Counted, Inputs
        <3>4. QED BY <2>4, <3>1, <3>2, <3>3 DEF SuccessInv, CountOK, Filing
    <2>5. QED BY <2>3, <2>4
<1>5. QED BY <1>3, <1>4 DEF SuccessInv, JobOK, DriverInv, DataOK

(* A child goes on: only its own output changes.                             *)
LEMMA ChildSucceeds ==
    ASSUME DriverInv, SuccessInv,
           UNCHANGED << argv, i, pass, d, itemp, rmlist, job, status >>,
           child.at \in {"asked", "forked", "running", "writing"},
           child'.out = child.out, child'.cmd = child.cmd,
           child'.args = child.args, child'.in = child.in,
           child'.at # "over" => child'.code = 0 /\ ~ child'.died /\ failed' = failed,
           failed' => failed \/ spawnStatus' # 0,
           DOMAIN files' \subseteq DOMAIN files \cup {child.out},
           DOMAIN files \subseteq DOMAIN files',
           \A name \in DOMAIN files : name # child.out => files'[name] = files[name],
           TextOK'
    PROVE  SuccessInv'
<1>1. status # 0 /\ pass # "options" /\ child # NoChild
    BY NoChildIs DEF SuccessInv, FailOK, DriverInv, PhaseOK
<1>2. FailOK'
    <2>1. failed /\ status = -1 => d.errcnt > 0
        BY DEF SuccessInv, FailOK
    <2>2. failed' /\ status' = -1 => d.errcnt > 0 \/ (child'.at = "over" /\ spawnStatus' # 0)
        BY <2>1
    <2>3. QED BY <1>1, <2>2 DEF FailOK
<1>3. SourcesOK'
    <2>1. child.out.suffix # ".c"
        BY DEF SuccessInv, SourcesOK
    <2>2. ASSUME NEW name \in DOMAIN files', name.suffix = ".c"
          PROVE  files'[name] = Source(name)
        <3>1. name # child.out /\ name \in DOMAIN files
            BY <2>1, <2>2
        <3>2. QED BY <2>2, <3>1 DEF SuccessInv, SourcesOK
    <2>3. QED BY <2>1, <2>2 DEF SourcesOK
<1>4. CountOK'
    <2>1. \A k : Counted(k)' <=> Counted(k)
        BY DEF Counted
    <2>2. QED BY <2>1 DEF SuccessInv, CountOK, Filing
<1>5. JobOK'
    <2> SUFFICES ASSUME pass = "files", Quiet PROVE JobOK'
        BY DEF JobOK, Quiet
    <2>1. ASSUME job.at = "rcc", suffix(argv[i].name, 4) = 0
          PROVE  Holds(itemp, Preprocessed(argv[i].name, TRUE))'
        <3>1. child.out = AsmOf(job.base) /\ Holds(itemp, Preprocessed(argv[i].name, TRUE))
            BY <2>1 DEF SuccessInv, JobOK
        <3>2. itemp # child.out
            BY <3>1, AsmFacts
        <3>3. QED BY <3>1, <3>2 DEF Holds, Preprocessed
    <2>2. AsmOf(job.base)' = AsmOf(job.base)
        BY DEF AsmOf
    <2>3. QED BY <2>1, <2>2 DEF SuccessInv, JobOK
<1>6. DoneOK'
    <2> SUFFICES ASSUME pass = "files", Quiet, d.errcnt = 0, NEW k \in Inputs(0), k < i,
                        ~ Overwritten(k)
                 PROVE  /\ AsmOf(argv[k].name.base) \in DOMAIN files'
                        /\ files'[AsmOf(argv[k].name.base)] = Compiled(argv[k].name, TRUE)
        BY <1>1 DEF DoneOK, Filing, Quiet, Inputs, Overwritten, Holds, AsmOf, Compiled,
                    Preprocessed
    <2>1. Holds(AsmOf(argv[k].name.base), Compiled(argv[k].name, TRUE))
        BY DEF SuccessInv, DoneOK, Filing
    <2>2. job.at # "none"
        BY DEF DriverInv, PhaseOK
    <2>3. AsmOf(argv[k].name.base) # child.out
        BY <2>2, OutputApart
    <2>4. QED BY <2>1, <2>3 DEF Holds
<1>7. QED BY <1>2, <1>3, <1>4, <1>5, <1>6 DEF SuccessInv

(* A child starts, or goes wrong.                                           *)
LEMMA StartsSucceed ==
    DriverInv /\ SuccessInv /\ (Fork \/ Exec \/ Fails) => SuccessInv'
<1> SUFFICES ASSUME DriverInv, SuccessInv, Fork \/ Exec \/ Fails PROVE SuccessInv'
    OBVIOUS
<1>1. /\ UNCHANGED << argv, i, pass, d, itemp, rmlist, job, files, status >>
      /\ child.at \in {"asked", "forked", "running", "writing"}
    BY DEF Fork, Exec, Fails
<1>2. /\ DOMAIN child = {"at", "cmd", "in", "out", "args", "code", "died"}
      /\ child.code = 0 /\ ~ child.died
    BY <1>1, NoChildIs DEF DriverInv, DataOK, SuccessInv, FailOK
<1>3. /\ child'.out = child.out /\ child'.cmd = child.cmd
      /\ child'.args = child.args /\ child'.in = child.in
    BY <1>2 DEF Fork, Exec, Fails
<1>4. \/ child'.at \in {"forked", "running"} /\ child'.code = 0 /\ ~ child'.died
         /\ failed' = failed
      \/ child'.at = "over" /\ (child'.died \/ child'.code # 0)
    <2>1. ASSUME NEW at \in {"forked", "running"}, child' = [child EXCEPT !.at = at]
          PROVE  child'.at = at /\ child'.code = 0 /\ ~ child'.died
        BY <1>2, <2>1
    <2>2. ASSUME child' = [child EXCEPT !.at = "over", !.code = 100]
          PROVE  child'.at = "over" /\ child'.code # 0
        BY <1>2, <2>2
    <2>3. CASE Fails
        <3>1. PICK died \in BOOLEAN :
                 child' = [child EXCEPT !.at = "over", !.died = died,
                                        !.code = IF died THEN 0 ELSE 1]
            BY <2>3 DEF Fails
        <3>2. child'.at = "over" /\ child'.died = died /\ child'.code = IF died THEN 0 ELSE 1
            BY <1>2, <3>1
        <3>3. QED BY <3>2
    <2>4. CASE Fork
        BY <2>1, <2>2, <2>4 DEF Fork
    <2>5. CASE Exec
        BY <2>1, <2>2, <2>5 DEF Exec
    <2>6. QED BY <2>3, <2>4, <2>5
<1>5. child'.at = "over" => spawnStatus' # 0
    BY <1>4 DEF spawnStatus
<1>6. TextOK'
    BY <1>4, <1>5 DEF TextOK
<1>7. QED BY <1>1, <1>3, <1>4, <1>5, <1>6, ChildSucceeds

LEMMA CreatesSucceeds == DriverInv /\ SuccessInv /\ Creates => SuccessInv'
<1> SUFFICES ASSUME DriverInv, SuccessInv, Creates PROVE SuccessInv'
    OBVIOUS
<1> DEFINE text == Text(child.cmd, files[child.in], child.args, FALSE)
<1>1. /\ UNCHANGED << argv, i, pass, d, itemp, rmlist, job, status, failed >>
      /\ child.at = "running" /\ child' = [child EXCEPT !.at = "writing"]
      /\ files' = IF child.out = NoFile THEN files ELSE Written(child.out, text)
    BY DEF Creates
<1>2. /\ DOMAIN child = {"at", "cmd", "in", "out", "args", "code", "died"}
      /\ child.code = 0 /\ ~ child.died
    BY <1>1, NoChildIs DEF DriverInv, DataOK, SuccessInv, FailOK
<1>3. /\ child'.out = child.out /\ child'.cmd = child.cmd /\ child'.at = "writing"
      /\ child'.args = child.args /\ child'.in = child.in
      /\ child'.code = 0 /\ ~ child'.died
    BY <1>1, <1>2
<1> HIDE DEF text
<1>4. /\ DOMAIN files' \subseteq DOMAIN files \cup {child.out}
      /\ DOMAIN files \subseteq DOMAIN files'
      /\ \A name \in DOMAIN files : name # child.out => files'[name] = files[name]
    BY <1>1 DEF Written
<1>5. child.out # NoFile => child.out \in DOMAIN files' /\ files'[child.out] = text
    BY <1>1 DEF Written
<1>6. TextOK'
    <2> SUFFICES ASSUME pass = "files", Quiet
                 PROVE  /\ job.at = "cpp" => Holds(itemp, Preprocessed(argv[i].name, FALSE))'
                        /\ job.at = "rcc" /\ suffix(argv[i].name, 4) = 0 =>
                              Holds(AsmOf(job.base), Compiled(argv[i].name, FALSE))'
        BY <1>1, <1>3 DEF TextOK, Quiet
    <2>1. ASSUME job.at = "cpp"
          PROVE  Holds(itemp, Preprocessed(argv[i].name, FALSE))'
        <3>1. /\ child.cmd = "cpp" /\ child.args = d.plist /\ child.in = argv[i].name
              /\ child.out = itemp /\ itemp # NoFile /\ suffix(argv[i].name, 4) = 0
            BY <2>1 DEF SuccessInv, JobOK
        <3>2. argv[i].name.suffix = ".c"
            BY <3>1, InputFacts
        <3>3. child.in \in DOMAIN files
            BY DEF Creates
        <3>4. files[child.in] = Source(argv[i].name)
            BY <3>1, <3>2, <3>3 DEF SuccessInv, SourcesOK
        <3>5. text = Preprocessed(argv[i].name, FALSE)
            BY <3>1, <3>4 DEF text, Preprocessed
        <3>6. QED BY <1>1, <1>5, <3>1, <3>5 DEF Holds, Preprocessed
    <2>2. ASSUME job.at = "rcc", suffix(argv[i].name, 4) = 0
          PROVE  Holds(AsmOf(job.base), Compiled(argv[i].name, FALSE))'
        <3>1. /\ child.cmd = "rcc" /\ child.args = d.clist /\ child.in = itemp
              /\ child.out = AsmOf(job.base)
              /\ Holds(itemp, Preprocessed(argv[i].name, TRUE))
            BY <2>2 DEF SuccessInv, JobOK
        <3>2. text = Compiled(argv[i].name, FALSE)
            BY <3>1 DEF text, Compiled, Holds
        <3>3. child.out # NoFile
            BY <3>1, AsmFacts
        <3>4. AsmOf(job.base)' = child.out
            BY <1>1, <3>1 DEF AsmOf
        <3>5. Compiled(argv[i].name, FALSE)' = Compiled(argv[i].name, FALSE)
            BY <1>1 DEF Compiled, Preprocessed
        <3>6. QED BY <1>5, <3>2, <3>3, <3>4, <3>5 DEF Holds
    <2>3. QED BY <2>1, <2>2
<1>7. QED BY <1>1, <1>3, <1>4, <1>6, ChildSucceeds

LEMMA CompletesSucceeds == DriverInv /\ SuccessInv /\ Completes => SuccessInv'
<1> SUFFICES ASSUME DriverInv, SuccessInv, Completes PROVE SuccessInv'
    OBVIOUS
<1>1. /\ UNCHANGED << argv, i, pass, d, itemp, rmlist, job, status, failed >>
      /\ child.at = "writing" /\ child' = [child EXCEPT !.at = "over"]
      /\ files' = IF child.out \in DOMAIN files THEN [files EXCEPT ![child.out].whole = TRUE]
                  ELSE files
    BY DEF Completes
<1>2. /\ DOMAIN child = {"at", "cmd", "in", "out", "args", "code", "died"}
      /\ child.code = 0 /\ ~ child.died
    BY <1>1, NoChildIs DEF DriverInv, DataOK, SuccessInv, FailOK
<1>3. /\ child'.out = child.out /\ child'.cmd = child.cmd /\ child'.at = "over"
      /\ child'.args = child.args /\ child'.in = child.in
      /\ child'.code = 0 /\ ~ child'.died
    BY <1>1, <1>2
<1>4. /\ DOMAIN files' = DOMAIN files
      /\ \A name \in DOMAIN files : name # child.out => files'[name] = files[name]
    BY <1>1
<1>5. ASSUME NEW by, NEW of, NEW args, Holds(child.out, Text(by, of, args, FALSE))
      PROVE  child.out \in DOMAIN files' /\ files'[child.out] = Text(by, of, args, TRUE)
    <2>1. /\ files'[child.out] = [Text(by, of, args, FALSE) EXCEPT !.whole = TRUE]
          /\ child.out \in DOMAIN files'
        BY <1>1, <1>5 DEF Holds
    <2>2. QED BY <2>1 DEF Text
<1>6. TextOK'
    <2> SUFFICES ASSUME pass = "files", Quiet
                 PROVE  /\ job.at = "cpp" => Holds(itemp, Preprocessed(argv[i].name, TRUE))'
                        /\ job.at = "rcc" /\ suffix(argv[i].name, 4) = 0 =>
                              Holds(AsmOf(job.base), Compiled(argv[i].name, TRUE))'
        BY <1>1, <1>3 DEF TextOK, Quiet
    <2>1. ASSUME job.at = "cpp"
          PROVE  Holds(itemp, Preprocessed(argv[i].name, TRUE))'
        <3>1. child.out = itemp /\ Holds(child.out, Preprocessed(argv[i].name, FALSE))
            BY <1>1, <2>1 DEF SuccessInv, JobOK, TextOK
        <3>2. child.out \in DOMAIN files' /\ files'[child.out] = Preprocessed(argv[i].name, TRUE)
            BY <1>5, <3>1 DEF Preprocessed
        <3>3. QED BY <1>1, <3>1, <3>2 DEF Holds, Preprocessed
    <2>2. ASSUME job.at = "rcc", suffix(argv[i].name, 4) = 0
          PROVE  Holds(AsmOf(job.base), Compiled(argv[i].name, TRUE))'
        <3>1. /\ child.out = AsmOf(job.base)
              /\ Holds(child.out, Compiled(argv[i].name, FALSE))
            BY <1>1, <2>2 DEF SuccessInv, JobOK, TextOK
        <3>2. child.out \in DOMAIN files' /\ files'[child.out] = Compiled(argv[i].name, TRUE)
            BY <1>5, <3>1 DEF Compiled
        <3>3. AsmOf(job.base)' = child.out
            BY <1>1, <3>1 DEF AsmOf
        <3>4. Compiled(argv[i].name, TRUE)' = Compiled(argv[i].name, TRUE)
            BY <1>1 DEF Compiled, Preprocessed
        <3>5. QED BY <3>2, <3>3, <3>4 DEF Holds
    <2>3. QED BY <2>1, <2>2
<1>7. QED BY <1>1, <1>3, <1>4, <1>6, ChildSucceeds

LEMMA EndSucceeds == DriverInv /\ SuccessInv /\ End => SuccessInv'
<1> SUFFICES ASSUME DriverInv, SuccessInv, End PROVE SuccessInv'
    OBVIOUS
<1>1. /\ UNCHANGED << argv, i, d, itemp, rmlist, job, child, failed >>
      /\ status = -1 /\ pass = "files" /\ i > Len(argv) /\ files' = rm
      /\ pass' = "over" /\ status' = IF d.errcnt > 0 THEN 1 ELSE 0
    BY DEF End, Exit, Running
<1>2. d.errcnt \in Nat /\ i \in Nat /\ Len(argv) \in Nat
    BY LenProperties DEF DriverInv, ArgsOK, DataOK
<1>3. job = NoJob /\ child = NoChild
    <2>1. job.at = "none"
        BY <1>1, <1>2 DEF DriverInv, PhaseOK
    <2>2. QED BY <1>1, <2>1 DEF DriverInv, PhaseOK, DataOK
<1>4. FailOK'
    <2>1. failed => d.errcnt > 0
        BY <1>1, <1>3, NoChildIs DEF SuccessInv, FailOK
    <2>2. QED BY <1>1, <1>2, <1>3, <2>1, NoChildIs DEF FailOK
<1>5. /\ DOMAIN files' \subseteq DOMAIN files
      /\ \A name \in DOMAIN files' : files'[name] = files[name]
      /\ \A name \in DOMAIN files : name # itemp => name \in DOMAIN files'
    <2>1. Range(rmlist) \subseteq {itemp}
        <3>1. rmlist = << >> \/ rmlist = << itemp >>
            BY DEF DriverInv, DataOK
        <3>2. QED BY <3>1 DEF Range
    <2>2. QED BY <1>1, <2>1 DEF rm
<1>6. SourcesOK'
    BY <1>1, <1>5 DEF SuccessInv, SourcesOK
<1>7. CountOK'
    <2>1. \A k : Counted(k)' <=> Counted(k)
        BY <1>1 DEF Counted
    <2>2. QED BY <1>1, <2>1 DEF SuccessInv, CountOK, Filing
<1>8. JobOK' /\ TextOK'
    BY <1>1 DEF JobOK, TextOK
<1>9. DoneOK'
    <2> SUFFICES ASSUME Quiet, d.errcnt = 0, NEW k \in Inputs(0), k < i, ~ Overwritten(k)
                 PROVE  /\ AsmOf(argv[k].name.base) \in DOMAIN files'
                        /\ files'[AsmOf(argv[k].name.base)] = Compiled(argv[k].name, TRUE)
        BY <1>1 DEF DoneOK, Quiet, Inputs, Overwritten, Holds, AsmOf, Compiled, Preprocessed
    <2>1. Holds(AsmOf(argv[k].name.base), Compiled(argv[k].name, TRUE))
        BY <1>1 DEF SuccessInv, DoneOK, Filing
    <2>2. QED BY <1>5, <2>1, AsmFacts DEF Holds
<1>10. QED BY <1>4, <1>6, <1>7, <1>8, <1>9 DEF SuccessInv

LEMMA InterruptSucceeds == DriverInv /\ SuccessInv /\ interrupt => SuccessInv'
<1> SUFFICES ASSUME DriverInv, SuccessInv, interrupt PROVE SuccessInv'
    OBVIOUS
<1>1. /\ pass' = "over" /\ status' = 100 /\ files' = rm /\ child' \in {child, NoChild}
    BY DEF interrupt, Exit
<1>2. FailOK'
    BY <1>1, NoChildIs DEF SuccessInv, FailOK
<1>3. SourcesOK'
    <2>1. /\ DOMAIN files' \subseteq DOMAIN files
          /\ \A name \in DOMAIN files' : files'[name] = files[name]
        BY <1>1 DEF rm
    <2>2. QED BY <1>1, <2>1, NoChildIs DEF SuccessInv, SourcesOK
<1>4. CountOK'
    BY <1>1 DEF CountOK, Filing
<1>5. JobOK' /\ TextOK'
    BY <1>1 DEF JobOK, TextOK
<1>6. DoneOK'
    BY <1>1 DEF DoneOK, Filing
<1>7. QED BY <1>2, <1>3, <1>4, <1>5, <1>6 DEF SuccessInv

LEMMA SuccessNext == DriverInv /\ SuccessInv /\ [Next]_vars => SuccessInv'
<1>1. ASSUME SuccessInv, UNCHANGED vars PROVE SuccessInv'
    <2>1. FailOK' /\ SourcesOK'
        BY <1>1 DEF vars, SuccessInv, FailOK, SourcesOK, spawnStatus
    <2>2. CountOK'
        <3>1. \A k : Counted(k)' <=> Counted(k)
            BY <1>1 DEF vars, Counted
        <3>2. QED BY <1>1, <3>1 DEF vars, SuccessInv, CountOK, Filing
    <2>3. JobOK'
        BY <1>1 DEF vars, SuccessInv, JobOK, Quiet, Holds, AsmOf, Preprocessed
    <2>4. TextOK'
        <3>1. /\ AsmOf(job.base)' = AsmOf(job.base) /\ Quiet' = Quiet
              /\ spawnStatus' = spawnStatus
            BY <1>1 DEF vars, AsmOf, Quiet, spawnStatus
        <3>2. ASSUME NEW whole \in BOOLEAN
              PROVE  /\ Holds(itemp, Preprocessed(argv[i].name, whole))'
                            <=> Holds(itemp, Preprocessed(argv[i].name, whole))
                     /\ Holds(AsmOf(job.base), Compiled(argv[i].name, whole))'
                            <=> Holds(AsmOf(job.base), Compiled(argv[i].name, whole))
            BY <1>1, <3>1 DEF vars, Holds, Compiled, Preprocessed
        <3>3. QED BY <1>1, <3>1, <3>2 DEF vars, SuccessInv, TextOK
    <2>5. DoneOK'
        BY <1>1 DEF vars, SuccessInv, DoneOK, Filing, Quiet, Inputs, Overwritten, Holds,
           AsmOf, Compiled, Preprocessed
    <2>6. QED BY <2>1, <2>2, <2>3, <2>4, <2>5 DEF SuccessInv
<1>2. QED
    BY <1>1, OptionsSucceed, OptionsDoneSucceeds, FiledSucceeds, OtherSucceeds,
       PreprocessSucceeds, CompileSucceeds, StartsSucceed, CreatesSucceeds,
       CompletesSucceeds, EndSucceeds, InterruptSucceeds DEF Next, Step

(* q3lcc says that it succeeded only if nothing went wrong, for every command  *)
(* line and all that its children do; and then each C file named is compiled,  *)
(* whole, with all the options, into the file its name or -o says, unless a    *)
(* later file has its name.                                                 *)
THEOREM DriverSuccess == Spec => []SuccessMeansCompiled
<1>1. DriverInv /\ SuccessInv => SuccessMeansCompiled
    <2> SUFFICES ASSUME DriverInv, SuccessInv, status = 0 PROVE SuccessMeansCompiled
        BY DEF SuccessMeansCompiled
    <2>1. ~ failed /\ d.errcnt = 0 /\ i > Len(argv)
        BY DEF SuccessInv, FailOK, DriverInv, DataOK
    <2>2. ASSUME d.E = 0, d.verbose < 2, NEW k \in Inputs(0)
          PROVE  \/ Overwritten(k)
                 \/ Holds(AsmOf(argv[k].name.base), Compiled(argv[k].name, TRUE))
        <3>1. k < i
            BY <2>1, LenProperties DEF Inputs, DriverInv, ArgsOK
        <3>2. QED BY <2>1, <2>2, <3>1 DEF SuccessInv, DoneOK, Filing, Quiet
    <2>3. QED BY <2>1, <2>2 DEF SuccessMeansCompiled, Holds, Compiled, Preprocessed
<1>2. Spec => []SuccessInv
    BY SuccessInit, SuccessNext, DriverInvariant, PTL DEF Spec
<1>3. QED BY <1>1, <1>2, DriverInvariant, PTL
================================================================================
