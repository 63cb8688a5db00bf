-------------------------------- MODULE MCExpr --------------------------------
(* Expressions for TLC: all of one operator over constants at the limits,      *)
(* variables of every type, calls, addresses and some sums; those of two        *)
(* operators over fewer operands.                                           *)
EXTENDS Expr

Cn(ty, v) == Leaf("CNST", ty, v)
Var(ty, n) == Leaf("INDIR", ty, n)
Constants == {Cn("int", v) : v \in {-8, -1, 0, 1, 2, 3, 7}} \cup {Cn("unsigned", v) : v \in {0, 1, 2, 8, 15}}
Variables == {Var("int", 1), Var("unsigned", 2), Var("char", 3), Var("uchar", 4), Leaf("CALL", "int", 5), Leaf("CALL", "unsigned", 6)}
Addresses == {Leaf("ADDR", "ptr", 0), Leaf("ADDR", "ptr", 2), Var("ptr", 7)}
Sums == {Bin("ADD", Var("int", 1), Cn("int", 1)), Bin("SUB", Var("int", 1), Cn("int", 2)), Bin("ADD", Var("ptr", 7), Cn("int", 1)),
         Bin("ADD", Var("int", 1), Leaf("ADDR", "ptr", 2)), Bin("LT", Leaf("CALL", "int", 5), Cn("unsigned", 0))}
Few == {Cn("int", 2), Var("int", 1), Cn("unsigned", 8), Leaf("ADDR", "ptr", 0)}
MCOperands == << Constants \cup Variables \cup Addresses \cup Sums, Few >>
Values == {<< i, u, c, 3, i, u, 6 >> : i \in {-8, -1, 1}, u \in {0, 9}, c \in {-2}}
===============================================================================
