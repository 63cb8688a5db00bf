--------------------------------- MODULE MCDag --------------------------------
(* Statements for TLC: what can be shared, before and after what changes it.    *)
EXTENDS Integers, DagTrees

X == 1     \* a local whose address is taken
Y == 2     \* a register variable
G == 3     \* globals
H == 4
A == 5     \* a parameter
P == 6     \* a pointer
V(x) == INDIR(ADDR(x))
At == INDIR(V(P))
Plus(a, b) == Tree("ADD", a, b)
Set(x, r) == Tree("ASGN", ADDR(x), r)
SetAt(r) == Tree("ASGN", V(P), r)
Inc(x) == [op |-> "INC", l |-> ADDR(x)]
IncAt == [op |-> "INC", l |-> V(P)]
Call(args) == [op |-> "CALL", args |-> args]
If(c, a, b) == COND(c, a, b, TRUE)
Not(a) == [op |-> "NOT", l |-> a]
XY == Plus(V(X), V(Y))
Less == Tree("LT", V(Y), CNST(3))

Expressions ==
    {Set(H, V(Y)), Set(Y, V(A)), Set(A, V(X)), Set(Y, Plus(V(Y), V(Y))), Set(A, XY), Set(H, Plus(XY, XY)),
     Set(X, Set(Y, V(A))), Set(X, Set(H, If(V(Y), V(A), CNST(2)))), Set(H, Inc(Y)), Set(A, IncAt), Inc(Y), IncAt, SetAt(V(Y)), Set(A, At),
     SetAt(Plus(At, CNST(1))),
     Set(A, Call(<< V(X) >>)), Call(<< Inc(Y), V(A) >>), Call(<< Call(<< CNST(1) >>), XY, Call(<< CNST(2), XY >>) >>),
     Set(A, Plus(Call(<< V(Y) >>), Call(<< V(X), V(X) >>))), Call(<< XY, If(V(A), XY, CNST(2)) >>),
     Set(A, If(Less, V(X), V(Y))), Set(H, Tree("AND", Less, V(X))), Tree("AND", V(Y), Call(<< XY >>)),
     Set(A, Plus(XY, If(V(Y), XY, CNST(2)))), COND(Tree("OR", V(Y), V(X)), Call(<< CNST(1) >>), CNST(0), TRUE),
     If(V(A), If(V(Y), Call(<< CNST(1) >>), Call(<< CNST(2) >>)), Set(X, CNST(3))),
     Set(A, If(Tree("OR", Less, Not(V(X))), Call(<< V(Y) >>), Tree("RIGHT", SetAt(CNST(4)), V(X)))),
     Set(A, Plus(If(Tree("AND", V(Y), Tree("LT", XY, CNST(4))), CNST(1), CNST(2)), XY))}
Content(y, a, p) ==
    [x \in 1 .. 6 |-> CASE x = X -> 2 [] x = Y -> y [] x = G -> 0 [] x = H -> 4 [] x = A -> a [] x = P -> p]
Contents == {Content(0, 0, X), Content(3, 1, X), Content(0, 1, H)}
===============================================================================
