------------------------------ MODULE StmtCases --------------------------------
(***************************************************************************)
(* Statements for TLC: those within each other, a few deep, and a switch over  *)
(* every set of cases.                                                      *)
(***************************************************************************)
EXTENDS Integers, SequencesExt

Act(id)    == [s |-> "act", id |-> id, call |-> id < 3]
Block(ss)  == [s |-> "block", ss |-> ss]
Plain(w)   == [s |-> w]
Goto(n)    == [s |-> "goto", name |-> n]
Label(n, a) == [s |-> "label", name |-> n, a |-> a]
Case(v, a) == [s |-> "case", vals |-> v, a |-> a]
Default(a) == [s |-> "default", a |-> a]
Switch(ss) == [s |-> "switch", a |-> Block(ss)]
Test(n)    == [c |-> "test", v |-> n]
Const(v)   == [c |-> "const", v |-> v]
Not(a)     == [c |-> "not", a |-> a]
Two(op, a, b) == [c |-> op, a |-> a, b |-> b]
Loop(k, c, a) == [s |-> k, c |-> c, a |-> a]
IfElse(c, a, b) == [s |-> "ifelse", c |-> c, a |-> a, b |-> b]
For(init, c, step, a) == [s |-> "for", init |-> init, c |-> c, step |-> step, a |-> a]

Conds ==
    {Test(1), Const(0), Const(1), Not(Test(1)), Two("and", Test(1), Test(2)), Two("or", Test(1), Test(2)),
     Two("or", Two("and", Test(1), Test(2)), Not(Test(3))), Not(Two("and", Const(1), Two("or", Test(1), Test(2))))}
Less(n) == [c |-> "less", v |-> n]

Leaves == {Act(1), Act(3), Plain("break"), Plain("continue"), Plain("return"), Goto("L"), Block(<< >>),
           Block(<< Plain("break"), Act(1) >>), Label("L", Act(2)), Case(<< 1 >>, Act(2)), Default(Plain("break"))}

(* A switch with a case for each of a set, and perhaps a default in front.     *)
Over(vals, ends, default) ==
    LET sorted == SelectSeq(<< 0, 3, 6, 1, 4, 7, 2, 5 >>, LAMBDA v : v \in vals)
        one(v) == Case(<< v >>, Act(10 + v))
    IN  Switch((IF default THEN << Default(Act(4)) >> ELSE << >>)
               \o FlattenSeq([i \in DOMAIN sorted |-> << one(sorted[i]) >> \o (IF ends THEN << Plain("break") >> ELSE << >>)]))
Sets == {Block(<< Over(vals, ends, default), Act(5) >>) : vals \in SUBSET (0 .. 7), ends \in BOOLEAN, default \in BOOLEAN}
Ranges == {Block(<< Switch(<< Case(<< 2, 1 >>, Act(1)), Case(<< 1 >>, Act(2)) >>) >>),
           Block(<< Switch(<< Case(<< 1, 2, 3, 4, 5 >>, Act(1)), Default(Act(2)), Default(Act(3)) >>) >>)}
MCPrograms == Leaves \cup Sets \cup Ranges

Wraps1(p) ==
    {Loop("if", Test(1), p), IfElse(Test(1), p, Act(3)), IfElse(Test(1), Act(3), p), IfElse(Test(1), p, Plain("return")),
     Loop("while", Test(1), p), Loop("while", Const(1), p), Loop("do", Test(1), p), Loop("do", Const(0), p),
     For(0, Less(2), TRUE, p), For(-1, [c |-> "none"], TRUE, p), For(2, Less(2), TRUE, p),
     Block(<< Act(1), p >>), Block(<< p, Act(3) >>), Label("L", p),
     Switch(<< Case(<< 1 >>, p), Case(<< 2 >>, Act(3)), Plain("break"), Default(Act(1)) >>),
     Switch(<< Act(1), Default(p), Case(<< 5 >>, Act(3)) >>), Switch(<< p >>)}
WrapsC(p) ==
    UNION {{Loop("if", c, p), IfElse(c, p, Act(2)), Loop("while", c, p), Loop("do", c, p), For(-1, c, FALSE, p)} : c \in Conds}
Plainer(p) ==
    {Block(<< p, Act(3), Goto("L") >>), Block(<< Label("L", Act(3)), p >>), Loop("while", Test(3), p),
     Switch(<< Case(<< 1, 2 >>, Act(4)), p, Default(Act(3)) >>), Block(<< p, Label("L", Act(4)) >>)}
MCWrapped(p, d) ==
    CASE d = 0 -> IF p \in Leaves THEN Wraps1(p) \cup WrapsC(p) ELSE {}
      [] d = 1 -> Wraps1(p)
      [] d = 2 -> Plainer(p)
      [] OTHER -> {}

Answers == {<< TRUE >>, << FALSE >>, << TRUE, FALSE >>, << FALSE, TRUE >>, << TRUE, TRUE, FALSE >>}
MCInputs ==
    {[answers |-> a, x |-> 1] : a \in Answers}
    \cup {[answers |-> << TRUE, FALSE >>, x |-> x] : x \in 0 .. 7}
===============================================================================
