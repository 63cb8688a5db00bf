# A formal model of q3vm

q3vm (`src/src/vm/vm.c`, `vm.h`) is an interpreter for the bytecode of the
Quake III virtual machine, with a C compiler (lcc) and an assembler (q3asm) that
produce that bytecode. This directory holds TLA+ modules that model it, TLC
configurations that check them on small instances, and proofs that TLAPS checks.

## 1. The system

| part | state it keeps | operations | interacts with |
|---|---|---|---|
| interpreter: `VM_Call`, `VM_CallInterpreted` | `vm->programStack`, `currentlyInterpreting`, `callLevel`, `lastError`, the data image `dataBase`; per activation, on the C stack: program counter, program stack, stack on entry, operand stack and its offset, the cached `r0`, `r1` | call; one per opcode; return through `done` or through an error | calls the host's `systemCall` and `Com_Error`; the host may call `VM_Call` again from a system call |
| life cycle: `VM_Create`, `VM_Free` | the whole `vm_t`, the heap blocks it points to | create (six steps that can fail), free | host's `Com_malloc`, `Com_free`, `Com_Error`; refuses on `callLevel` |
| loader: `VM_LoadQVM`, `VM_PrepareInterpreter` | data image, `codeBase`, `instructionPointers` | validate the header, round up and fill the image, expand the code to ints, resolve branches | called by `VM_Create` |
| address translation: `VM_ArgPtr`, `VM_MemoryRangeValid`, `VM_BlockCopy` | none | mask, check a range, copy | called by handlers and `OP_BLOCK_COPY` |
| host: `main.c`, `test/q3vm_test/q3vm_test.c` | none of its own | `systemCalls` (print, memset, memcpy, `FLOATFF`, `RECURSIVE`) | calls `VM_Create`, `VM_Call`, `VM_Free` |
| symbols and profile (`DEBUG_VM`) | list of symbols with counters | load the `.map` file, look up, print | `VM_Create`, every fetch |
| assembler `q3asm.c` | segments, symbols in hash buckets, current segment, pass, the frame of the current function | the command line, a line, two passes, the symbol table, the image and the map | reads lcc's output, writes what the loader reads |
| bytecode library `bg_lib.c` | `randSeed`, an empty buffer of `_atof` | qsort, string and number functions | linked into bytecode |
| preprocessor `lcc/cpp` | input buffers, a stack of sources, the row of tokens, macros, the depth of `#if` | scan a row, obey a control line, expand, evaluate, write with `#line` | a child of the driver; writes what q3rcc reads |
| compiler `lcc/src` (q3rcc) | the tree of an expression, the list of code of a function, the nodes of a forest, tables of symbols and types | fold and rearrange, read a statement, list a tree, emit | reads cpp's output, writes q3asm's lines |
| driver `lcc/etc` (q3lcc) | option lists, the temporary file, one child | read the arguments twice, run children, clean up on a signal | forks q3cpp and q3rcc |

Everything but the driver runs on one thread. What is hard in the machine is not
parallelism but re-entrance (it is entered again from its own system calls), the
many exits that skip the ordinary epilogue, words cached in registers, unchecked
addresses, and an interpreter whose two builds (`DEBUG_VM`: a switch with checks on
every fetch; otherwise computed gotos without) share the same instructions. In the
tools it is work done twice or out of order: a second pass that must meet the
first, a buffer refilled in the middle of a token, macros that take in more rows
while one is expanded, code that is put before what was already listed, values
that are used again after something may have changed them. The driver has
children that fail or die, and signals.

What makes each part correct:

- **interpreter**: a program returns what its source says, whatever garbage the
  operand stack began with, nested or not, and after calls that failed; nested
  calls leave the frames and arguments of their callers alone; `callLevel` is
  the number of activations; the interpreter stays inside its memory, for
  compiled programs; registers agree with the operand stack at every fetch; a
  `DEBUG_VM` build gives control back when a program recurses without end.
- **life cycle**: no block is lost or freed twice on any path; code that runs is
  allocated; a failure can be told from the `vm_t`.
- **loader**: what is executed is what the file says; jumps land on
  instructions; the image is big enough for every masked access.
- **assembler**: a symbol resolves to where it was put, in both passes; a file is
  written exactly when the program is one; the loader reads in it what was meant.
- **library**: it does what C says, or what is said here that it does instead.
- **preprocessor**: how a file comes in pieces does not change its tokens; groups,
  includes and macros are C's; the compiler is told the right lines; the text it
  is given is read back as the tokens that were meant.
- **compiler**: folding, rearranging, sharing and the shape of jumps change nothing
  a program could notice.
- **driver**: success is told of what was compiled, and nothing temporary stays.

## 2. The modules

| module | models | kind |
|---|---|---|
| `VmErrors` | `vmErrorCode_t` | constants |
| `CallProtocol` | `VM_Call` and all that instructions do to the stack pointers, the level and who has control | abstract specification |
| `VmLifecycle` | `VM_Create`, `VM_Free`, allocation, composed with `CallProtocol` | composition |
| `Words` | C integers, the byte image, stores, copies | pure |
| `Opcodes` | `opcode_t` and its groups | pure |
| `Alu` | what the arithmetic and comparing instructions compute | pure |
| `QvmProgram` | what the loader makes of well formed code | pure |
| `Loader` | `VM_Create`, `VM_LoadQVM` and `VM_PrepareInterpreter` over the bytes of a file, and its refinement of `VmLifecycle` | detailed specification |
| `VmLifecycleProofs`, `LoaderProofs` | - | proofs |
| `Interpreter` | `VM_Call` and `VM_CallInterpreted` instruction by instruction, and the host of the test | detailed specification |
| `InterpreterProtocol` | the refinement of `CallProtocol` by `Interpreter`, and the stack discipline of compiled programs it rests on | refinement |
| `InterpreterProofs`, `DisciplineProofs` | - | proofs: for every program, and for every program that keeps the discipline |
| `Lemmas`, `WordLemmas` | - | facts on sequences and functions; on integers and bits |
| `QvmFile` | `vmHeader_t`, what `VM_LoadQVM` asks of it, the bytes of an instruction | pure |
| `SourceOps` | `opstrings.h` | table |
| `Assembler` | q3asm | detailed specification |
| `AssemblerProofs` | - | proofs |
| `BgLib` | functions of `bg_lib.c`, a call a step | pure, with reference definitions |
| `CppText` | what C says of the text of a program | reference |
| `CppLex` | `cpplex.c`, the scanner over its buffer | detailed specification of `CppText` |
| `CppMacro`, `CppEval` | rows, hidesets and expansion; `#if` expressions | pure |
| `Cpp` | `cpp.c`, `include.c`, `nlist.c`: the sources, control lines and output | detailed specification |
| `StmtCases`, `DagTrees` | the statements that are tried, and the trees `Dag` is given | data |
| `Driver` | q3lcc, its children and signals | specification |
| `DriverProofs` | - | proofs |
| `Expr` | `simp.c`, `enode.c`, `tree.c` and the operators of `expr.c` | detailed, with a reference |
| `Stmt` | `stmt.c` and the listing of conditions | detailed, with a reference |
| `Dag` | `dag.c` and the calls of `enode.c` | detailed, with a reference |
| `MC...` | instances for TLC; `MCPreprocessor` puts `CppLex` and `Cpp`, `MCCompiler` puts `Expr`, `Stmt` and `Dag` into one run | model checking |

### CallProtocol

`acts` is the C stack of `VM_CallInterpreted` activations. The innermost one
executes bytecode unless it is inside a system call; then, or when there is
none, the host has control. A step is a call, a frame entered or left, a system
call or its return, an error. Everything between two of those is abstracted.

Two fields carry the whole difficulty: an activation remembers `stackOnEntry`
and restores `vm->programStack` from it at the label `done`, while a system call
moves `vm->programStack` below its frame and nobody moves it back but that label.
An error return runs no epilogue at all, so that the pointer stays low, and a
flag stays set. `faulted` remembers that this has happened, because some
properties hold only before.

### VmLifecycle

`creating` is the step `VM_Create` has reached. `owned` counts the blocks the
`vm_t` points to, `live` those that the host has handed out. In a `DEBUG_VM`
build `VM_LoadSymbols` allocates a block per symbol and holds the `.map` file in
memory meanwhile. The contents of the file are abstracted: every check of the
loader may fail (`Loader` has the checks, and implements this module). After `VM_Create` the steps of `CallProtocol` go on, and the
host may free at any moment it has control.

### Loader

A file is a header, bytes and, if q3asm wrote it, the instructions it stands
for. `VM_Create` runs in steps as in `VmLifecycle`; the header is checked
(`GoodHeader`), the image rounded up, and an iteration of one of the two loops of
`VM_PrepareInterpreter` is a step: `Expand` reads one instruction from the bytes
and writes one or two ints of `codeBase`, `Resolve` replaces the target of one
branch. Both walk over the same code, the first in bytes, with a check of the
position that comes after the read, the second in ints, trusting the first.
`instructionPointers` and `codeBase` are functions over what has been written so
far. Where the loops leave the file or the memory they took, or an end of a
segment overflows an int, `mode` becomes `"wild"`. For the files of q3asm the
result is `Load` of `QvmProgram`, which is defined without loops or bytes, and is
what the programs of `Interpreter` are made by. The contents of the data segments
are copied and never looked at, and left out.

### Interpreter

One action per instruction (a group of instructions that differ only in the
function of `Alu` they apply is one action). An action runs from the fetch to
the next `DISPATCH`. A system call is three steps, `OP_CALL`, the handler and
the return into `OP_CALL`, because in between the handler may start another
activation. `r0` and `r1` are locals of their own: `DISPATCH` (`Reload`) loads
them from the operand stack, `DISPATCH2` does not.

Where the C code has no defined behaviour the model says so: an access outside
of the allocated image or code sets `mode` to `"wild"`, after which nothing is
claimed; a trapping division sets it to `"trapped"`; a shift by an impossible
count, a float, and the initial operand stack are any value of a given set;
`memcpy` of overlapping regions has the results of two directions.

The width of a byte is a parameter (`ByteBits`), so that a small instance has
words that overflow, sign-extend and are truncated. `DataMask` is the size of
the image, `OpStackSize` the range of `opStackOfs` (256 in the code, where an
`unsigned char` wraps around in an operand stack of 256 ints).

The history variables are `calls` (a bound), `reported` (the last `Com_Error`),
`faulted`, `returned` (what the last `VM_Call` returned) and, in an activation,
`entry` (its arguments) and `frames` (return addresses that are still needed).

### MCInterpreter, MCLoader, MCArbitrary

`MCInterpreter` has nine programs with their C source in a comment, laid out as
lcc and q3asm lay them out: recursion, narrow stores and sign extension,
a `VM_Call` from a system call from a `VM_Call`, memset, memcpy and struct
assignment, division and shifts of negative numbers, a loop through `OP_JUMP`,
floats and unknown system calls, a call through a bad function pointer after a
system call, endless recursion. `MCMeaning` is what the source returns.

`MCLoader` has 79 files: twenty as q3asm writes them, with padding after the code and
different sizes of the segments, and files with one thing wrong.

`MCArbitrary` has programs no compiler makes: every pair of instructions out of
a set with bad opcodes, bad targets and odd frames.

### QvmFile, SourceOps, Assembler

A line of an assembly file is a word and the tokens behind it, a token a name or a
number with what is added to it. The state is that of q3asm's globals: `segment`
(image, base, end), `symtable` (the list `symbols`, whose last entry is `lastSymbol`,
and the chains of the hash table), `currentSegment`, `passNumber`, `instructionCount`,
the frame of the function (`currentLocals`, `currentArgs`, `currentArgOffset`), the
file and the line. An action is a statement: `proc` opens a frame and emits
`OP_ENTER`, `LABEL` defines a symbol in the first pass, a data statement may move the
last label to another segment (`HackToSegment`), an operation emits its opcode and,
if the line has one more token, an operand. `BeginPass` gives the segments their bases from the sizes of
the first pass. What is written is a `QvmFile`, the kind of file `Loader` reads, and
`CodeDecodes` takes it apart with the opcodes and the header checks of the loader.

### BgLib

A step is one call. The functions are written the way the code computes (for
`qsort` the choice of the pivot by size, the two sweeps, the swap of the equal
keys into the middle and the two recursions), and compared with what C says by
`QsortSorts`, `MemmoveMoves` and so on. Where the function does something else (see
below) the reference says what, so that the difference is pinned down.

### CppText, CppLex, CppMacro, CppEval, Cpp

`CppText` is what C says of a text: trigraphs, folded lines, then the longest token
again and again. `CppLex` does it as `gettokens` does: an automaton over a buffer
that `fillbuf` extends by as much as `read` likes to return, in which trigraphs and
folded lines are closed up under the scan. `ScannedAsWhole` says that the two agree,
however the file is cut. `Cpp` works on rows that `CppText` has scanned: `sources` is the stack
of files and arguments of `-D`, a step is a row that is obeyed, passed over or expanded
(`TextLine` takes in further rows when a call goes on behind the line). `CppMacro` has the
expansion with hidesets, `#` and `##`, `CppEval` the two stacks of `eval`. `odd` is
a history of the doubtful things control lines may do (section 3), under which a reference would have
to repeat the code. The reference for `GroupsHold` reads the conditional groups of a program as
the nested structure they are and not with counters.

### Driver

The arguments are read twice, files and options; for each file of C q3lcc forks
q3cpp with the temporary file as its output and then q3rcc, waits, and looks at the status.
A child takes steps of its own (`exec` may fail, it writes its output, it ends,
well or badly, or by a signal), an interrupt may come at any time, and the
handler removes the file while a child may still be alive. What a file holds is who made
it, from what and with which options.

### Expr, Stmt, Dag

Three parts of q3rcc, each against a reference that gives C its meaning.

`Expr` grows an expression one operator at a time and builds its tree as `expr.c`
calls `enode.c` and `simp.c` do: conversions first, then the foldings and
rearrangements of `simplify`, computed in the `long` of the host and cut to the
width of the target. `tree` is evaluated (`Run`) and compared with the expression
read (`C`): value and calls made, wherever C gives the expression a value.

`Stmt` keeps the code list of a function: labels with their reference counts, jumps
that are left out or equated (`branch`), the dead code that is not listed, and `swgen`,
which puts the choice of the case before a body already listed. `Machine` runs the
list, jump tables included, and `Whole` runs the statement.

`Dag` lists expression statements as `listnodes` does, with the buckets of nodes that may
be found again and what empties them, then `visit`, which makes temporaries of shared
nodes, `undag`, and what is taken out again when a temporary only copies a register
variable, or the variable a condition leaves its value in. As in `statement` (`stmt.c:202`) a new
forest begins after a statement that leaves no node to be found again, and where more than
`Crowded` of them are. The forests are kept in one sequence, since nothing is
shared between two; `begun` is where the last one starts. They are
executed in their order and compared with the statements.

## 3. The runs

| run | bounds | states | what it shows |
|---|---|---|---|
| `call_protocol` | `DEBUG_VM`, 3 levels, frames of 8 and 64 over a stack of 200 bytes | 53,466 | types; the level counts activations; nested calls below their callers; the stack restored; frames inside the image in spite of the late check |
| `lifecycle` | `DEBUG_VM` with or without a map file, 2 levels, 2 symbols | 9,709 | no lost blocks, no running code freed |
| `interp_release` | 8 programs, 4 argument vectors, 2 calls, 4 levels, bytes of 4 bits, image of 256 bytes | 17,076 | results, no access outside, returns and jumps to instructions, the stack discipline kept, refinement of `CallProtocol` |
| `interp_debug` | the same and endless recursion | 19,909 | saved frames found again; the stack discipline kept, also where the stack runs out; every call returns |
| `arbitrary_debug` | 8 thousand programs, bytes of 2 bits, image of 64 bytes, 4 operand words, a handler given a negative length | about 81,800 | the level for programs no compiler makes |
| `loader` | 79 files of at most eight instructions, bytes of 6 bits, a stack of 32 bytes | 27,479 | `FilesFollowed`: q3asm's files are accepted, loaded as `Load` says; `TargetsChecked`: branches of any accepted file land on instructions, the walk and the look-ups stay bounded; `ImageSized`: the stack is clear of the variables; refinement of `VmLifecycle` |
| `assembler` | command lines over files of correct source alone and together, and with one of each error of a source, bytes of 6 bits, 3 buckets | 4,690 | the passes agree; labels resolve to their data; arguments stay below locals; the file is written exactly when the program is legal, and decodes; the assembler ends, or stays at a line that is too long |
| `library` | all arrays of up to six elements of three keys, long ones around the sizes where `qsort` changes (7 and 40), all strings of up to four characters, ints of 9 bits | 8,390 | sorting, moving, finding; printing and reading numbers |
| `preprocessor` | all texts of up to four of seven characters and longer ones over a buffer of 16; all programs of up to three of seven conditional lines and of `#if`, four, `#endif`, headers with nine bodies included in four ways, and the calls of macros that are hard to get right | 214,468 | tokens and lines independent of the buffer, which is never passed; the scan ends; groups, lines, the text read back, every macro expanded |
| `driver` | 12 command lines, two sets of files present, failures and a signal anywhere | 1,671 | success means compiled; temporaries removed |
| `compiler` | expressions of one operator over 26 operands and of a second one over 4, words of 4 bits and chars of 2; statements a few deep, switches over every set of 8 values; lists of 3 out of 28 statements that share, a new forest behind 9 nodes, run over 3 memories | 169,383 | code does what the source says; jumps land |
| `unsigned_switch` | switches on unsigned values of 3 bits | violated | a jump table entered outside (below) |

Small properties that are asked of the same states are one definition of an MC module:
`FilesFollowed`, `TargetsChecked`, `ImageSized`, `OnlyLegalWritten`, `SortsMovesFinds`,
`NumbersKept`, `StatementsKept`, `ScannedAsWhole`, `GroupsHold` and `TextHolds` are
conjunctions whose parts carry the comments.

`CallProtocol` without `DEBUG_VM` is what `interp_release` implements, and the
proofs cover both builds; the life cycle of a release build is that of a
`DEBUG_VM` build that finds no map file.

**Why the bounds are enough.** Three levels give an activation that is both
nested and nested in; two calls give one that begins where a failed one left the
`vm_t`; two frame sizes let an overflow be exact or overshoot. The real
`EntryFrame` of `CallProtocol` is used (60 bytes) and `MaxFrame` is larger, as
the assembler's limit is. In `Interpreter` the compiled programs need words of
16 bits at most; the image of 256 bytes has room for four nested frames in a
release build, and the stack of 128 bytes overflows within eight frames in the
endless recursion.

The files of `loader` have every kind of instruction length, in every order that
matters to a walk, and each comparison of the loader has files on both sides of it
and at it. A byte of 6 bits holds every opcode and four that are none. A file is
loaded after another one was refused or freed, so that leftovers would show.

The machine words of `compiler` have 4 bits and its host counts in integers that do not
overflow, so that every constant at an edge meets every other; an array of three
elements makes an address computation leave it. Statements nest up to three deep around each
kind of leaf, which lets a jump over a jump over a label arise and be equated. Three expression
statements let a value be shared, spoiled and used again; `Crowded`, 200 in the code, is 9, which
some lists pass and others do not. The buffer of `preprocessor` holds 16
characters, so that every token, comment and folded line of the longer texts is split at every place by some
answer of `read`. Groups nest to `NIF` 5 and headers to `MaxInclude` 3, which programs
meet. The files of `assembler` are put together in groups, so that what one leaves in the current segment, in
the last label and in the frame meets the next; three buckets make collisions. `driver` has at most
three files, which lets one overwrite, follow and precede another.

**Deadlock** is checked where the system cannot stop. It can where the model
bounds the calls of the host (`MaxCalls`) or frames (`StackFloor`), where the
process has stopped (`mode`), and where a tool has ended.

**Fairness.** `FairSpec` assumes `WF_vars(Machine)`: the processor goes on
executing instructions, and handlers return. Both are so for one thread
and the handlers of `q3vm_test.c`, none of which waits. No fairness is assumed
of the host. `Assembler` and the scanner of `Preprocessor` assume `WF` of
their only action, a program that runs; `Ends` and `ScanEnds` rest on it. `CallsReturn` is claimed for `DEBUG_VM` builds only: nothing in the
other build stops an endless recursion, and nothing in either build stops an
endless loop, of which the programs of the run have none.

### Where the code differs from what is said of it

`unsigned_switch` is the one run that is expected to find a violation.
`TablesStayInside` says that a jump table is entered only with a value it has an
entry for. `swcode` (`stmt.c:443`) leaves out the comparison with the least case
when the value is unsigned and that case is 0, which is right if the other comparison is
unsigned; but `cmp` (`stmt.c:473`) casts the value to the signed type.
A value with its highest bit set passes both and the jump goes through a word before the table.
`compiler` has the same switches on signed values, which are right.

The others were met while modelling. Each is in the model as the code has it, and
where a property would fail its definition says so.

*The machine.*
- README.md says that the error of a failed `VM_Create` is in `vm_t::lastError`; it
  is stored and then `VM_Free` zeroes the struct (`vm.c:386`).
- vm.h says of `currentlyInterpreting` "Is the vm currently running?". It stays set
  after an error return (`vm.c:1138`), and a nested call that returns clears it while its caller
  still runs (`vm.c:1540`). Nothing reads it.
- After a call that failed behind a system call `vm->programStack` stays low
  (`vm.c:1141`), and a host that calls on loses a little stack with each such failure.
- The check for a "jump to invalid instruction number" (`vm.c:816`) lets the number behind the
  last instruction pass, and the table of instructions is read one entry past its
  end. `LookupBounded` says that this is the only one.
- `Com_free` gets "memory allocated by Com_malloc"; in a `DEBUG_VM` build it gets the
  map file, which came from `malloc` (`vm.c:1924`).
- A host with one static block per type of allocation, as README.md has it, is
  asked for one block per symbol in a `DEBUG_VM` build (`vm.c:1898`).

*q3asm.*
- The limits of the loader on the length of a file and of the .bss are not looked at.
- `JTRGSEG` is given a base and never written; an `equ` in a data segment gets that segment's base added.
- A line that does not fit in the buffer is returned again and again
  (`q3asm.c:695`). `Ends` says that the assembler stays there for ever and nowhere else.
- `HackToSegment` says "I also need to fixup the label that was just defined" (`q3asm.c:842`); it
  moves the last label also when data was put behind it since (`q3asm.c:859`). For
  `struct { char c; int i; } pair = { 7, 5 }` the byte takes the label along to the lit segment and
  the word takes it back to the data segment, so that `pair.c` is the first byte of 5. The
  files of `assembler` have data of one kind behind each label, as `Unmixed` says.
- An undefined symbol is defined on the spot, so that it is an error once; a local one is
  defined by another name than it is looked up by, and is an error at every use.
- `-b 0` divides by zero.

*bg_lib.*
- The least int prints as characters that are not digits; a left adjusted number that
  is wider than its field pads through the whole range of int; the precision of an integer is not used.
- `_atoi` and `_atof` move behind the character that ended the number also if it was the end of the text, so that
  a `sscanf` that wants one number more reads on behind the text; `_atof` reads nothing of `.5`.
- A format that ends inside a conversion is read on behind its end.

*cpp.*
- `gatherargs` says of itself "trp->tp is not changed" (`macro.c:226`); if no parenthesis
  follows it is left at the token that was found, and `expand` steps over that one too (`macro.c:192`): with
  `#define f(x) x` and `#define a 1` the `a` of `f a` is not expanded. `ExpandedWhole`, a part of `TextHolds`,
  says that nothing else is left unexpanded.
- Operators of equal priority that follow each other in an `#if` are grouped from
  the right: `8-4-2` is 6. A comma, and a `?:` between others, are given up on or refused.
- A full hideset is returned as it is, so that a cycle of more than `HSSIZ` macros is expanded for ever.
- A control line inside a call that goes on over lines is taken for an argument.
- In a header `#elif` acts on the includer's group. Where lines are skipped, the name of a macro
  after `#` counts as `#if`, and `# 9` still moves the number of the line.
- The `#line` behind an included file whose last line has no newline is glued to that
  line. A failed `#include` drops a newline. A very long comment loses a character behind it.
- `f()` is an error for a macro with one parameter; a different redefinition is an error and done.
- The operand stack of `eval` (`NSTAK`) is not checked.

*lcc.*
- `0 - x` of the least value folds to one that does not fit in a 64 bit `long` (`simp.c:177`), as does
  `1 << 31`; the value is cut when it is printed, and `Expr` compares what it is then.
- The identities of `BCOM` test the wrong type, so that `~~x` of an int and `x & -1` are not simplified.
- The statements in a `switch` without braces around its body may be put before the
  choice of the case, where an expression of an `if` is pending; the programs of `compiler` have braces there.

*q3lcc.*
- `Sflag` is 1 from the start, so that everything about assembling, linking and `.o` is
  unreachable; `LCCINPUTS` is read and not used; `-g` says "ignored" and passes `-g2` on.
- `spawn` returns eight bits, so that the test for -1 behind it never holds.
- Files with the same base name overwrite each other's output. A child that lives on after
  an interrupt may leave the temporary file; `TempRemoved` excepts it.

## 4. The proofs

TLAPS checks every step; nothing is assumed but the named `ASSUME`s of the
modules, which TLC evaluates in the runs.

**`VmLifecycleProofs`**, its first part, of `CallProtocol`: for every stack size, set of frame sizes, depth and
either build. The five invariants of the runs are not inductive. What they rest on:

- `StackNotRaised`: `vm->programStack` is never above the `stackOnEntry` of the
  innermost activation. Without it a nested call could begin above the frames
  of its caller after an error, and `NestedBelow` could not be kept.
- `NestedExactly`: before any fault a nested activation began exactly four
  bytes below its caller's frame; this gives `StackRestored` when it returns.
- `Overshoot`: between two checks a frame can reach at most `MaxFrame` below
  `stackBottom`. With `RoomAssumption`, that the image has that much room
  below the stack, no frame leaves the image (`DebugFramesInImage`).

`Inv` is their conjunction with the type invariant; there is one lemma per action
of `Next`, then `Invariance` and the five theorems.

**`InterpreterProofs`**, for every program whatever, every memory content and
argument, both builds:

- `CoherentRegisters`: at every fetch `r0` and `r1` are the two topmost words of
  the operand stack. This is the argument for `DISPATCH2`, which saves the
  loads: each instruction that uses it must keep the equalities itself.
- `LevelIsDepth`: `callLevel` is the number of activations.

The inductive invariant says that an activation is a record of its locals with an
operand stack over `OpStackIndex` and an offset in it (`Shape`), that registers
are coherent when it executes, and that `callLevel = Len(acts)`. It deliberately
says nothing of the values of words, which no step of the argument needs, so that
it holds for programs that compute with anything. The lemmas follow the
operators actions are built from (`Moving`, `Setting`, `Reload`, `PushValue`),
then the three things that happen to the C stack (an activation goes on, returns,
or begins), then the instructions.

- `WordsStayWords` (`TypeOK`): every register, every word of the operand stack, every argument and result is
  a C integer, and the image stays bytes. It covers the masks (a load or store of any address
  reads within the four bytes after the mask), the range test of `VM_BlockCopy` and
  `VM_MemoryRangeValid` with both ways `memcpy` may copy, truncating division (the one quotient that does not fit
  is the one that traps), shifts and bit operations, and a `VM_Call` nested in a system call.
- `SyscallFramesInImage`: the frame of a pending system call is in the image until it
  returns, although the return has no check.

`TypeInv` adds to `TypeOK` that `vm->programStack` is a word, that `callLevel = Len(acts)`, that exactly the
activations below the innermost are `nested`, and that one which waits has the
arguments and the frame of its system call: `TypeOK` alone does not say that `SystemReturn` reads inside of
the image. That `FromBits` gives a number at all is an induction over its bits (`BitSum`, `FromBitsFacts`).

**`DisciplineProofs`**, for every program that keeps `Disciplined`, under every host and in both builds. An operation
of vm.c that returns reads where to go from the data image, where the program may write, and looks at the
range of what it finds and nothing else. So what a program returns to rests on what the
compiler and the assembler do, and `Disciplined` (`InterpreterProtocol`) says what that is, of a state that is
about to execute an instruction or a handler of the host:

- `WellFormed`: `codeBase` is a row of whole instructions that does not run off its end, branches lead to instructions;
- `EntersAndLeaves`: a function begins with `OP_ENTER`, which is nowhere else, and `OP_LEAVE` releases the frame it made;
- `WritesApart`: no store, `OP_ARG`, block copy, and no memset or memcpy of the host, overwrites a return address.

It does not say that return addresses are intact, that the machine reads one where it looks for it, nor anything of nested
calls, system calls or errors: these are what is proved. TLC checks `Disciplined` in
`interp_release` and `interp_debug`, for every state of the compiled programs, and each theorem has the form
`Spec /\ []Disciplined => ...`.

- `ReturnAddressesKept` (`FramesIntact`): every return address, of every open call of every activation, is where it was stored
  and what it was. A nested `VM_Call` pushes its arguments below the frame of the system call that
  waits, `OP_CALL` puts the number of a system call into the word above its return address and
  the return takes it back, and each of these writes goes through a mask. `StackInv`, the
  inductive invariant, has the geometry: in an activation the frames of open calls are eight bytes apart or more, none below the stack
  pointer or above what `VM_Call` pushed, all at multiples of four and in the image; activations lie
  below those that wait for them, also after any sequence of errors; in a `DEBUG_VM` build what a call starts from is above
  `stackBottom - 4`. A store at a masked address that is a multiple of four leaves the words beside it as they were (`WordKept`),
  and a word is read as it was written (`WordRoundTrip`, an equation of quotients for a width of a byte that is a parameter).
- `RunsInstructions` (`AtInstruction`): a program counter is always at the start of an instruction, in every activation.
  `CodeInv` says it of the return addresses too, which is why it needs the first theorem.
- `DebugNeverWild`: a `DEBUG_VM` build makes no access outside of the image and the code. What a fetch with a stack that was checked
  can push, a return address, a frame of `MaxFrame`, the argument count, stays in the image until the next fetch looks.
  For a release build, which does not look, nothing of this kind is true.
- `InterpreterRefines` (`ImplementsProtocol`): the refinement of `CallProtocol`, step by step: an `OP_CALL` of a function is
  its step that moves the stack, a handler that calls `VM_Call` is its call, everything that computes is no step. With `ProtocolAssumptions`, which proves
  what `CallProtocol` assumes of its constants, what is proved of every behaviour of `CallProtocol` holds of programs; `NestedCallsBelow`
  is the case of it that the first theorem rests on. The proof found that `CallProtocol` said too much: the
  range of the program counter is looked at before the stack, so that an error of the counter may be reported of a stack that would not pass
  (`vm.c:970` to `984`); `ProgramFault` allows it.

**`VmLifecycleProofs`**, its second part, of `VmLifecycle`: for any number of symbols, either build and every file
the loader may see. `BlocksAccounted` is not inductive: it looks at a `vm_t` between
two calls, and is only true there because of what each of the steps of `VM_Create`
has taken so far. The invariant names, for each value of `creating`, which blocks
there are. `RunningIsLoaded` needs the `Inv` of `CallProtocol`, as `VM_Free` asks
`callLevel` and not the activations; the proofs are composed by showing that the steps of the
life cycle that end a program leave `CallProtocol` in a state of its `Init`.

**`LoaderProofs`**, for files of any length with any header and any bytes.
`LoaderInv` says of the first loop that the table of instructions and `codeBase` are
laid out one instruction after the other: an instruction begins where the one before
ends, takes one or two ints, and none lies inside of another. Of the second loop
it says that it stands at the beginning of an instruction, and that the targets
behind it are resolved. From this follow `LoopsContained`, where the first
loop passes the end of the code by one instruction at most and the second reads the table
one past its end at most, and `LoaderRefines`, the step by step refinement of `VmLifecycle`.
`ImageHoldsStack` rests on facts about `2^n` and the rounding in `WordLemmas`.

Its second part proves `FilesFollowed` for files that q3asm wrote from instructions: what is loaded
is `Load` of `QvmProgram`, and no such file is refused. `Follows`, an invariant
beside `LoaderInv`, says where in the file and in `codeBase` the k-th instruction of the source
is, in both loops, in bytes and in ints. That a walk in bytes and one in ints meet at the same
instruction is an induction over the source. The theorem modules state induction with an
operator as a parameter, which the provers cannot take; `Lemmas` states it with a set
of numbers (a set with 0 that has the successor of each of its elements), which they can.

**`DriverProofs`**, for every command line and every set of files. `DriverRemovesTemp`: `rmlist` is empty until
there is a temporary name and then holds only it, and the only file in
the temporary directory is the one of that name, as an output of `-o` is named by the
user. `DriverSuccess` needs five more facts (`SuccessInv`): a child that went wrong is counted in `errcnt`
before anything else can happen (`FailOK`); no output is ever a source (`SourcesOK`);
`-o` is dropped unless one file can have an output, which is known only by counting while arguments
are taken out of the list (`CountOK`); a child has the input, output and options of the file that `filename` is at, and
a partial output is one of that file (`JobOK`, `TextOK`); and what was made for an earlier file is
still there, unless a later one has its name (`DoneOK`), because the temporary file and the output of this file are
not that output.

**`AssemblerProofs`**, for every command line and every set of assembly files in the shape lcc gives them,
with errors and without. `PassesMeet` (`SegmentsMeet`): the second pass of q3asm puts as much into each segment as the
first. Every address in a program rests on that: addresses are computed, in the second pass, from the sizes of the first.
That is not so because the two passes do the same, for they do not: the first defines symbols, moves labels to other segments and
takes every expression for 0; the second begins in the segment and with the frame the first ended with, and finds
other errors. The argument is that what a line adds depends on the line, on the segment that was named last and on the
arguments that wait for their call, and on nothing else (`After`, `LineStep`, one lemma for each
statement). So both passes walk through one table of sizes, which the invariant `PassInv` states to exist: the first pass fills
it, line by line and file by file (`Filling`), and the second follows it (`Retracing`). The count of arguments is the one thing
the first pass leaves to the second: it is 0 at the end of the first (`Pending`) because an argument has its call in the same file.
An option file is part of it: the files it names come out of a recursive function, and are names (`NamesFromList`).

`WrittenCodeDecodes` (`CodeDecodes`): the code of a written file is a row of as many instructions as its header says, for the loader, and
the loader accepts the header. q3asm emits an operand where the line has a token and the loader reads one where the opcode has
one, so this is where the two could come apart. The invariant `CodeInv` says that as long as no error was counted there are places in the code segment,
one behind the other by the length of the opcode that stands there, from its start to its end (`Laid`), and that data never
goes into it (`DataNamed`); an error may leave an opcode without its operand (`ARG`, `ADDRF`), and is not forgotten (`ErrorsKept`).
The end of a pass rounds the size up, behind the last instruction. Who reads the code from the start comes to the same places
(`EndOfLaid`), since two walks that begin together stay together (`WalksAgree`).

`LabelsResolved` (`LabelsAtData`): a label of the first pass has, in the second, the address of the data or the number of the instruction that
is put behind it. That takes the table of sizes, the symbol table and `HackToSegment` together. The invariant `LabelInv` says that, as long as no error was
counted: no two entries of the symbol table have a name, and each is in the chain of its name (`GoodTable`; it survives a new
entry, `AddedGood`, one that is moved, `MovedGood`, and `sort_symbols`, `SortedGood`, which keeps every entry because no two have the same rank); a label that has
something behind it has an entry with the segment and the place that the table of sizes gives the line behind (`LabelsSet`), and one that was
defined by the line before still is the last entry (`Fresh`). For where data is behind a label, `HackToSegment` moves that label and no other:
it moves one only when the segment changes, which is on the first data behind a label (`HomeKept`, `MovesAtOnce`).
In the second pass nothing is added to the table (`SecondPassStep`), so the label is found (`FoundThere`), and what it
says of the place is so because the second pass follows the same table of sizes behind the same bases.
The theorem has two hypotheses. `Unmixed` says that data behind a label is of one kind up to the next label; without it the
theorem is false, as section 3 says of a structure of a char and an int. `HashTyped` says that the hash of a name is an int.

**What is assumed.** The `ASSUME`s hold for the instances of the runs, and the code justifies them:

- `RoomAssumption` (`CallProtocol`): the image has room for a frame below the stack, and a frame is at least that of `VM_Call`. `ImageHoldsStack` shows the room of q3asm's programs.
- `StackAssumption`, `FrameAssumption`, `SymbolAssumption`, `InterpreterAssumption`: the types of constants; a system
  call has at least the four arguments that the handlers read (`MAX_VMSYSCALL_ARGS` is 16).
- `ProgramsAssumption` (`Interpreter`): `codeBase` holds ints, and `instructionPointers` has one number for each
  instruction: what `VM_PrepareInterpreter` writes for any file. Nothing is said of where they point.
- `DisciplineAssumption` (`InterpreterProtocol`): frames are multiples of four with room for a return address and an argument count,
  and `MaxFrame` is not above `stackBottom`; the image is a multiple of four; a system call has four arguments more than `vmMain` at most, so that
  what is read of them ends where the frame of `VM_Call` does (in the code 16 and 13); there is a level to call at; the code length is an int.
- `LoaderAssumption` (`Loader`): `PROGRAM_STACK_SIZE` is a power of two, and an image with a `.bss` within their
  limits (`VM_MAX_IMAGE_SIZE`, `VM_MAX_BSS_LENGTH`) fits in an int: the constants of `vm.c` do.
- `FilesAssumption` (`Loader`): a file is a header, bytes that the header's length does not pass, and
  `HoldsSource`: if instructions come with it, its bytes are those of the instructions,
  each operation `Writable`. q3asm writes such files: that the code is a row of instructions is `WrittenCodeDecodes`.
- `SourcesAssumption` (`Assembler`): a file names a segment before it puts anything there (q3asm would write through a null pointer;
  lcc prints `code`, `data`, `lit` or `bss` before anything but `export` and the like).
- `LinesAssumption`: a line is a word with tokens; `align` is given a positive number (lcc prints the alignment of a type), `LABEL`, `proc`
  and `equ` a name; an `ARG` is followed by a `CALL` in its file, as lcc lists the arguments of a call before it.
- `CommandLinesAssumption`, `OperationsAssumption` (`Assembler`): the types of the command line and of the limits; no operation in `opstrings.h` has the
  name of another statement, and each has one opcode, none of them `OP_ARG`, whose operand is a byte.
- `OperandsAssumption`: lcc prints a token behind an operation if the opcode has an operand, but for `CVIF4` and `CVFI4`, whose size q3asm skips,
  and those it does not take for instructions; `CVII4` has a size and nothing more (`bytecode.c`).
- `DataAssumption`: lcc prints `align`, `skip` and `byte` behind the name of a segment for data with no `code` since, and skips forwards. q3asm would put
  the bytes among the instructions.
- `BucketsAssumption`: the hash table has a bucket; `-b` is followed by a positive number.
- `ImageAssumption`: the size of a segment is a multiple of four, so that rounding its end up stays inside.
- `CommandsAssumption`, `PresentAssumption` (`Driver`): nobody names a file as a temporary file, since those names
  contain the number of the process; `-o` is not followed by another option. With an
  option behind it, `main` would take that for the name of the output.

**Checked by TLC only**:

- `Disciplined`, which depends on what the compiler does, and is claimed for compiled programs only; `ResultsRight`, which is
  about what they compute; `NeverWild` in the release build, where nothing stops a program that uses up its stack.
- Of `Assembler`, `ArgumentsBelowLocals`, which holds because of the sizes lcc prints behind `proc`, and
  `WrittenIffLegal` with the type invariant.
- `BgLib`, the preprocessor and the compiler: pure algorithms over texts and trees, written with
  recursive operators, which TLAPS does not take.
- Liveness (`CallsReturn`, `Ends`, `ScanEnds`): out of the prover's reach.

## 5. Not modelled

- The contents of the data segments in the loader; files whose code overlaps
  their header.
- `cmdlib.c`, of which q3asm uses the reading of files and the parsing of words, and the rest is not
  called; `main.c`, a host that does less than the one of the test; `g_main.c`, a program
  for the machine. `printf`, files, the command line of the hosts: I/O and text.
- The look-up of symbols and the profile of a `DEBUG_VM` build, which print.
- Of bg_lib the functions that are one loop over a string, case conversion, `abs` and `rand`.
- Of the preprocessor `-M`, `getopt` and the buffering of the output.
- Of lcc the scanner, declarations, initializers, types other than three integers and
  a pointer, structures, bit fields, floats and the printing of the assembly: its tables
  of symbols and types follow the grammar of C, and have no order of events to get wrong. `lburg`, `dagcheck.c` and
  `gen.c` serve machines for which q3rcc is not built.
- The values of floats.
- Big endian hosts, on which `vm.c` does not swap the words that it pushes.

## 6. Plan

1. *Done*: the machine, its life cycle and loader, with refinements; the proofs of section 4.
2. *Done*: the tools: assembler, library, preprocessor, driver, and of the compiler
   expressions, statements and shared values.
3. *Done*: the proofs of `VmLifecycle`, of `Loader` with its refinement and of what it loads, and of `Driver`.
   The type invariant of `Interpreter` for every program.
4. *Done*: the stack discipline, which TLC checks of the compiled programs; from it, for every program
   that keeps it, the return addresses, the program counters, the bounds of a `DEBUG_VM` build and the refinement of
   `CallProtocol`.
5. *Done*: the two passes of `Assembler`, the code they write and the places of its labels.
6. When `Assembler` counts an error (`WrittenIffLegal`).
