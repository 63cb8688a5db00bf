------------------------------- MODULE DagTrees -------------------------------
(* The trees that dags are made of (src/lcc/src/tree.c).  NODE stands for one  *)
(* that was listed before.                                                  *)
NULL == [op |-> "NULL"]
Tree(op, l, r) == [op |-> op, l |-> l, r |-> r]
CNST(v) == [op |-> "CNST", v |-> v]
ADDR(x) == [op |-> "ADDR", v |-> x]
INDIR(l) == [op |-> "INDIR", l |-> l]
NODE(p) == [op |-> "NODE", v |-> p]
COND(c, a, b, valued) == [op |-> "COND", c |-> c, a |-> a, b |-> b, valued |-> valued]
===============================================================================
