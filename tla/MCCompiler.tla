------------------------------ MODULE MCCompiler ------------------------------
(***************************************************************************)
(* The parts of the compiler for TLC: a behaviour grows either one expression, *)
(* or one statement, or a list of expression statements.                     *)
(***************************************************************************)
EXTENDS MCExpr

CONSTANTS SwitchBits, Unsigned, Programs, Wrapped(_, _), Inputs, MaxEvents, MaxRounds
VARIABLES s, depth, st
Stmts == INSTANCE Stmt
Cases == INSTANCE StmtCases

Seeds       == Cases!MCPrograms
Around(p, d) == Cases!MCWrapped(p, d)
Answered    == Cases!MCInputs

CONSTANTS Globals, Registers, Places, Statements, Longest, Crowded, Memories, Modulus
VARIABLES list_of, dag
Dags  == INSTANCE Dag
Lists == INSTANCE MCDag

Listed   == Lists!Expressions
Contents == Lists!Contents

None  == 99     \* operators of no expression, depth of no statement
NoRow == [i \in 1 .. Longest + 1 |-> 0]     \* no list of statements
NoExpression == ops = None /\ needconst = FALSE /\ e = << >> /\ tree = << >>
NoStatement  == depth = None /\ s = << >> /\ st = << >>
NoList       == list_of = NoRow /\ dag = << >>
CompilerInit ==
    \/ Init /\ NoStatement /\ NoList
    \/ NoExpression /\ Stmts!Init /\ NoList
    \/ NoExpression /\ NoStatement /\ Dags!Init
ReadExpression == ops # None /\ Next /\ UNCHANGED << s, depth, st, list_of, dag >>
ReadStatement  == depth # None /\ Stmts!Next /\ UNCHANGED << e, needconst, ops, tree, list_of, dag >>
ReadRow        == list_of # NoRow /\ Dags!Next /\ UNCHANGED << e, needconst, ops, tree, s, depth, st >>
CompilerNext == ReadExpression \/ ReadStatement \/ ReadRow
CompilerSpec == CompilerInit /\ [][CompilerNext]_<< vars, s, depth, st, list_of, dag >>

(* An expression is folded and rearranged into one of the same value.         *)
ExpressionsKept == ops # None => FoldingKeepsValue
(* The code of a statement does what it says, its jumps lead to labels that   *)
(* are there.                                                                *)
StatementsKept == depth # None => Stmts!CodeRunsAsWritten /\ Stmts!JumpsLand
(* Shared expressions are still what C says they are where they are used.      *)
SharingKept == list_of # NoRow => Dags!SharingKeepsMeaning
===============================================================================
