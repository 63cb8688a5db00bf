--------------------------- MODULE MCInterpreter -----------------------------
(***************************************************************************)
(* Instances of Interpreter for TLC: small programs, laid out the way lcc  *)
(* and q3asm lay out a function (the return address at 0 of the frame, the *)
(* arguments of calls from 8 on, then the locals; the function's own       *)
(* arguments at 8 above its frame), and what their C source returns.       *)
(***************************************************************************)
EXTENDS InterpreterProtocol

i(op, operand) == Instruction(op, operand)
o(op)          == Plain(op)

(* int fact(int n) { return n > 1 ? n * fact(n - 1) : 1; }                  *)
(* int vmMain(int command, int n) { return fact(n); }                       *)
Factorial ==
    << i("OP_ENTER", 12), i("OP_LOCAL", 24), o("OP_LOAD4"), i("OP_ARG", 8),
       i("OP_CONST", 7), o("OP_CALL"), i("OP_LEAVE", 12),  \* fact is 7
       i("OP_ENTER", 16), i("OP_LOCAL", 24), o("OP_LOAD4"),
       i("OP_CONST", 1), i("OP_GTI", 14), i("OP_CONST", 1),
       i("OP_LEAVE", 16),  \* more is 14
       i("OP_LOCAL", 12), i("OP_LOCAL", 24), o("OP_LOAD4"), o("OP_STORE4"),
       i("OP_LOCAL", 24), o("OP_LOAD4"), i("OP_CONST", 1), o("OP_SUB"),
       i("OP_ARG", 8), i("OP_CONST", 7), o("OP_CALL"), i("OP_LOCAL", 12),
       o("OP_LOAD4"), o("OP_MULI"), i("OP_LEAVE", 16) >>

(* char c; short s; void set(int n) { c = n; s = n; }                       *)
(* int vmMain(int command, int n) { set(n * 7); return c + s; }             *)
Narrow ==
    << i("OP_ENTER", 12), i("OP_LOCAL", 24), o("OP_LOAD4"),
       i("OP_CONST", 7), o("OP_MULI"), i("OP_ARG", 8), i("OP_CONST", 17),
       o("OP_CALL"), o("OP_POP"), i("OP_CONST", 8), o("OP_LOAD1"),
       o("OP_SEX8"), i("OP_CONST", 12), o("OP_LOAD2"), o("OP_SEX16"),
       o("OP_ADD"), i("OP_LEAVE", 12),  \* set is 17
       i("OP_ENTER", 8), i("OP_CONST", 8), i("OP_LOCAL", 16),
       o("OP_LOAD4"), o("OP_STORE1"), i("OP_CONST", 12), i("OP_LOCAL", 16),
       o("OP_LOAD4"), o("OP_STORE2"), o("OP_PUSH"), i("OP_LEAVE", 8) >>

(* int vmMain(int command, int n) {                                         *)
(*     if (command == 1) return n > 2 ? n : recursive(n + 1);               *)
(*     return recursive(n + 1) + n; }                                       *)
Nested ==
    << i("OP_ENTER", 12), i("OP_LOCAL", 20), o("OP_LOAD4"),
       i("OP_CONST", 1), i("OP_NE", 20), i("OP_LOCAL", 24), o("OP_LOAD4"),
       i("OP_CONST", 2), i("OP_LEI", 12), i("OP_LOCAL", 24), o("OP_LOAD4"),
       i("OP_LEAVE", 12),  \* again is 12
       i("OP_LOCAL", 24), o("OP_LOAD4"), i("OP_CONST", 1), o("OP_ADD"),
       i("OP_ARG", 8), i("OP_CONST", -7), o("OP_CALL"), i("OP_LEAVE", 12),  \* outer is 20
       i("OP_LOCAL", 24), o("OP_LOAD4"), i("OP_CONST", 1), o("OP_ADD"),
       i("OP_ARG", 8), i("OP_CONST", -7), o("OP_CALL"), i("OP_LOCAL", 24),
       o("OP_LOAD4"), o("OP_ADD"), i("OP_LEAVE", 12) >>

(* struct { int x; } a, b, c;                                               *)
(* int vmMain(int command, int n) {                                         *)
(*     memset(&a, n, 4); memset(0, n, 4); memset(250, n, 40);               *)
(*     memcpy(&b, &a, 4); c = b; return (c ^ a) | b; }                      *)
Blocks ==
    << i("OP_ENTER", 20), i("OP_CONST", 8), i("OP_ARG", 8),
       i("OP_LOCAL", 32), o("OP_LOAD4"), i("OP_ARG", 12), i("OP_CONST", 4),
       i("OP_ARG", 16), i("OP_CONST", -3), o("OP_CALL"), o("OP_POP"),
       i("OP_CONST", 0), i("OP_ARG", 8), i("OP_CONST", -3), o("OP_CALL"),
       o("OP_POP"), i("OP_CONST", 250), i("OP_ARG", 8), i("OP_CONST", 40),
       i("OP_ARG", 16), i("OP_CONST", -3), o("OP_CALL"), o("OP_POP"),
       i("OP_CONST", 16), i("OP_ARG", 8), i("OP_CONST", 8),
       i("OP_ARG", 12), i("OP_CONST", 4), i("OP_ARG", 16),
       i("OP_CONST", -4), o("OP_CALL"), o("OP_POP"), i("OP_CONST", 24),
       i("OP_CONST", 16), i("OP_BLOCK_COPY", 4), i("OP_CONST", 24),
       o("OP_LOAD4"), i("OP_CONST", 8), o("OP_LOAD4"), o("OP_BXOR"),
       i("OP_CONST", 16), o("OP_LOAD4"), o("OP_BOR"), i("OP_LEAVE", 20) >>

(* int vmMain(int command, int n) {                                         *)
(*     int m = -(2 * n + 1);                                                *)
(*     return 100 * (m / 2) + 10 * (m % 2) + (m >> 1) + ((unsigned)m > 9); } *)
Divide ==
    << i("OP_ENTER", 12), i("OP_LOCAL", 8), i("OP_CONST", 2),
       i("OP_LOCAL", 24), o("OP_LOAD4"), o("OP_MULI"), i("OP_CONST", 1),
       o("OP_ADD"), o("OP_NEGI"), o("OP_STORE4"), i("OP_CONST", 100),
       i("OP_LOCAL", 8), o("OP_LOAD4"), i("OP_CONST", 2), o("OP_DIVI"),
       o("OP_MULI"), i("OP_CONST", 10), i("OP_LOCAL", 8), o("OP_LOAD4"),
       i("OP_CONST", 2), o("OP_MODI"), o("OP_MULI"), o("OP_ADD"),
       i("OP_LOCAL", 8), o("OP_LOAD4"), i("OP_CONST", 1), o("OP_RSHI"),
       o("OP_ADD"), i("OP_LOCAL", 8), o("OP_LOAD4"), i("OP_CONST", 9),
       i("OP_LEU", 34), i("OP_CONST", 1), o("OP_ADD"),  \* small is 34
       i("OP_LEAVE", 12) >>

(* int vmMain(int command, int n) {                                         *)
(*     int sum = 0; while (n > 0) { sum += n; n--; } return sum; }          *)
Loop ==
    << i("OP_ENTER", 12), i("OP_LOCAL", 8), i("OP_CONST", 0),
       o("OP_STORE4"), i("OP_CONST", 19), o("OP_JUMP"),  \* body is 6
       i("OP_LOCAL", 8), i("OP_LOCAL", 8), o("OP_LOAD4"),
       i("OP_LOCAL", 24), o("OP_LOAD4"), o("OP_ADD"), o("OP_STORE4"),
       i("OP_LOCAL", 24), i("OP_LOCAL", 24), o("OP_LOAD4"),
       i("OP_CONST", 1), o("OP_SUB"), o("OP_STORE4"),  \* test is 19
       i("OP_LOCAL", 24), o("OP_LOAD4"), i("OP_CONST", 0), i("OP_GTI", 6),
       i("OP_LOCAL", 8), o("OP_LOAD4"), i("OP_LEAVE", 12) >>

(* int vmMain(int command, int n) {                                         *)
(*     printf(text); return (floatff(n) * 2.0f < 1.0f ? n : -n) + unknown(); } *)
Prints ==
    << i("OP_ENTER", 12), i("OP_CONST", 8), i("OP_ARG", 8),
       i("OP_CONST", -1), o("OP_CALL"), o("OP_POP"), i("OP_LOCAL", 24),
       o("OP_LOAD4"), i("OP_ARG", 8), i("OP_CONST", -6), o("OP_CALL"),
       i("OP_CONST", 2), o("OP_MULF"), i("OP_CONST", 1), i("OP_LTF", 20),
       i("OP_LOCAL", 24), o("OP_LOAD4"), o("OP_NEGI"), i("OP_CONST", 22),
       o("OP_JUMP"),  \* less is 20
       i("OP_LOCAL", 24), o("OP_LOAD4"),  \* sum is 22
       i("OP_CONST", -9), o("OP_CALL"), o("OP_ADD"), i("OP_LEAVE", 12) >>

(* int vmMain(int command, int n) {                                         *)
(*     if (command == 0) return recursive(n) + n;                           *)
(*     printf(text); f = 9999; return f(); }                                *)
BadPointer ==
    << i("OP_ENTER", 12), i("OP_LOCAL", 20), o("OP_LOAD4"),
       i("OP_CONST", 0), i("OP_NE", 14), i("OP_LOCAL", 24), o("OP_LOAD4"),
       i("OP_ARG", 8), i("OP_CONST", -7), o("OP_CALL"), i("OP_LOCAL", 24),
       o("OP_LOAD4"), o("OP_ADD"), i("OP_LEAVE", 12),  \* bad is 14
       i("OP_CONST", 8), i("OP_ARG", 8), i("OP_CONST", -1), o("OP_CALL"),
       o("OP_POP"), i("OP_CONST", 9999), o("OP_CALL"), i("OP_LEAVE", 12) >>

(* int f(int n) { return f(n + 1); }                                        *)
(* int vmMain(int command, int n) { return f(n); }                          *)
Runaway ==
    << i("OP_ENTER", 12), i("OP_LOCAL", 24), o("OP_LOAD4"), i("OP_ARG", 8),
       i("OP_CONST", 7), o("OP_CALL"), i("OP_LEAVE", 12),  \* f is 7
       i("OP_ENTER", 12), i("OP_LOCAL", 20), o("OP_LOAD4"),
       i("OP_CONST", 1), o("OP_ADD"), i("OP_ARG", 8), i("OP_CONST", 7),
       o("OP_CALL"), i("OP_LEAVE", 12) >>

-----------------------------------------------------------------------------

Source ==
    [Factorial |-> Factorial, Narrow |-> Narrow, Nested |-> Nested,
     Blocks |-> Blocks, Divide |-> Divide, Loop |-> Loop, Prints |-> Prints,
     BadPointer |-> BadPointer, Runaway |-> Runaway]

MCPrograms  == {Load(name, Source[name]) : name \in DOMAIN Source \ {"Runaway"}}
MCAllPrograms == {Load(name, Source[name]) : name \in DOMAIN Source}
MCHostArgs == {[k \in 0 .. 1 |-> IF k = 0 THEN c ELSE n] :
                  c \in {0, 1}, n \in {1, 3}}

MCOpStacks    == {[k \in 1 .. 7 |-> g] : g \in {0, -5}}
MCUnspecified == {0, 2}
MCFrameSizes  == {8, 12, 16, 20}

(* What the sources above return.                                           *)
MCMeaning(name, args) ==
    LET n       == args[1]
        settled == IF n > 2 THEN n ELSE 3
        value   ==
            CASE name = "Factorial" -> {IF n = 3 THEN 6 ELSE 1}
              [] name = "Narrow"    -> {Signed(7 * n, 16) + 7 * n}
              [] name = "Nested"    -> {IF args[0] = 1 THEN settled
                                        ELSE n + IF n + 1 > 2 THEN n + 1 ELSE 3}
              [] name = "Blocks"    -> {n + 16 * n + 256 * n + 4096 * n}
              [] name = "Divide"    -> {IF n = 1 THEN -111 ELSE -313}
              [] name = "Loop"      -> {IF n = 3 THEN 6 ELSE 1}
              [] name = "Prints"    -> {n, -n}
              [] OTHER              -> {n - 1}
    IN  IF name = "Runaway" \/ (name = "BadPointer" /\ args[0] = 1)
        THEN {<< "error", -1 >>}
        ELSE {<< "done", v >> : v \in value}
=============================================================================
