---------------------------------- MODULE Dag ---------------------------------
(***************************************************************************)
(* From the trees of expressions to the code of q3rcc: trees are listed as a   *)
(* directed graph in which equal expressions are one node, shared nodes become *)
(* assignments to temporaries, and some temporaries are taken out again        *)
(* (src/lcc/src/dag.c, with the calls of enode.c and the arguments of          *)
(* bytecode.c).  Fields, structures and conversions are left out.             *)
(***************************************************************************)
EXTENDS Integers, SequencesExt, DagTrees

CONSTANTS
    Globals, Registers,   \* variables; those that are declared register
    Places,            \* all, by their addresses
    Statements, Longest,  \* expression statements, and how many in a row
    Crowded,           \* more nodes than this to be found again begin a new forest: 200
    Memories, Modulus     \* first values, and what numbers are cut to

VARIABLES
    list_of,   \* the statements
    dag        \* what is made of them

-----------------------------------------------------------------------------
(* Nodes are numbered; 0 is none.  forest: the roots, in order, of all forests;   *)
(* begun: how many of them are in forests handed on already.  buckets: the      *)
(* nodes that may be found again.  p: the node just made.                     *)
Start ==
    [nodes |-> << >>, buckets |-> {}, forest |-> << >>, begun |-> 0, listed |-> {}, p |-> 0, label |-> 1,
     eq |-> << >>, depth |-> 0, locals |-> 0, ok |-> TRUE]
Result(c, p) == [c EXCEPT !.p = p]
Asserted(c, b) == [c EXCEPT !.ok = @ /\ b]
Counted(nodes, p, n) == IF p = 0 THEN nodes ELSE [nodes EXCEPT ![p].count = @ + n]
Local(k) == 20 + k      \* the variable a condition leaves its value in
Temp(t) == 40 + t

newnode(c, op, l, r, sym) ==
    [c EXCEPT !.nodes = Append(Counted(Counted(@, l, 1), r, 1),
                               [op |-> op, l |-> l, r |-> r, sym |-> sym, count |-> 0, tmp |-> 0]),
              !.p = Len(c.nodes) + 1]
IsNode(n, op, l, r, sym) == n.op = op /\ n.l = l /\ n.r = r /\ n.sym = sym
InBucket(c) == [c EXCEPT !.buckets = @ \cup {c.p}]
node(c, op, l, r, sym) ==
    IF \E i \in c.buckets : IsNode(c.nodes[i], op, l, r, sym)
    THEN Result(c, CHOOSE i \in c.buckets : IsNode(c.nodes[i], op, l, r, sym))
    ELSE InBucket(newnode(c, op, l, r, sym))

(* Mutant of kill: loads through pointers survive.                           *)
killDirect(c, sym) ==
    [c EXCEPT !.buckets = {i \in @ : ~ (c.nodes[i].op = "INDIR" /\ c.nodes[c.nodes[i].l].op = "ADDR"
                                        /\ c.nodes[c.nodes[i].l].sym = sym)}]

(* A variable is assigned: loads of it, and through pointers, are stale.       *)
kill(c, sym) ==
    [c EXCEPT !.buckets = {i \in @ : c.nodes[i].op = "INDIR" =>
                                        LET a == c.nodes[c.nodes[i].l] IN a.op = "ADDR" /\ a.sym # sym}]
reset(c) == [c EXCEPT !.buckets = {}]
(* A forest is handed on, and the next begins: nothing is shared with it.      *)
walk(c) == [reset(c) EXCEPT !.begun = Len(c.forest)]

list(c) ==
    IF c.p = 0 \/ c.p \in c.listed THEN c
    ELSE [c EXCEPT !.forest = Append(@, c.p), !.listed = @ \cup {c.p}]
IsLabel(c) == Len(c.forest) > c.begun /\ c.nodes[Last(c.forest)].op = "LABEL"
genlabel(c, n) == [c EXCEPT !.label = @ + n, !.eq = @ \o [i \in 1 .. n |-> 0]]
equatelab(c, old, new) == [c EXCEPT !.eq[old] = new]
labelnode(c, lab) ==
    reset(IF IsLabel(c) THEN equatelab(c, lab, c.nodes[Last(c.forest)].sym)
          ELSE list(newnode(c, "LABEL", 0, 0, lab)))
unlist(c, lab) ==
    IF IsLabel(c) THEN [equatelab(c, c.nodes[Last(c.forest)].sym, lab) EXCEPT !.forest = Front(@)] ELSE c
jump(c, lab) == list(newnode(c, "JUMP", 0, 0, lab))

-----------------------------------------------------------------------------
(* Trees.  NODE stands for one that was listed before.                        *)
Logical == {"AND", "OR", "NOT", "LT", "GE", "NE", "EQ"}

RECURSIVE hascall(_)
hascall(x) ==
    CASE x.op = "CALL" -> TRUE
      [] x.op \in {"CNST", "ADDR", "NODE", "NULL"} -> FALSE
      [] x.op = "COND" -> hascall(x.c) \/ hascall(x.a) \/ hascall(x.b)
      [] x.op \in {"INDIR", "INC", "NOT"} -> hascall(x.l)
      [] OTHER -> hascall(x.l) \/ hascall(x.r)
value(x) == IF x.op \in Logical THEN COND(x, CNST(1), CNST(0), TRUE) ELSE x
cond(x) == IF x.op \in Logical THEN x ELSE Tree("NE", x, CNST(0))

(* What of an expression is evaluated though nobody wants its value.          *)
Both(l, r) == IF l = NULL /\ r = NULL THEN NULL ELSE Tree("RIGHT", l, r)
RECURSIVE root(_)
root(x) ==
    CASE x.op \in {"CNST", "ADDR", "NULL"} -> NULL
      [] x.op \in {"INDIR", "NOT"} -> root(x.l)
      [] x.op \in {"ADD", "LT", "GE", "NE", "EQ", "RIGHT"} -> Both(root(x.l), root(x.r))
      [] x.op \in {"AND", "OR"} -> IF root(x.r) = NULL THEN root(x.l) ELSE [x EXCEPT !.r = root(x.r)]
      [] x.op = "COND" ->
           IF root(x.a) = NULL /\ root(x.b) = NULL THEN root(x.c) ELSE COND(x.c, root(x.a), root(x.b), FALSE)
      [] x.op = "INC" -> Tree("ASGN", x.l, Tree("ADD", INDIR(x.l), CNST(1)))
      [] OTHER -> x

Opposite == [EQ |-> "NE", NE |-> "EQ", LT |-> "GE", GE |-> "LT"]

RECURSIVE listnodes(_, _, _, _), Arguments(_, _)
(* Arguments that make calls are evaluated before any is stored.              *)
Kept(n, args) == << n, Append(args, NODE(n.p)) >>
Arguments(c, args) ==
    FoldLeft(LAMBDA acc, x :
                 IF ~ hascall(x) THEN << acc[1], Append(acc[2], x) >>
                 ELSE Kept(listnodes(acc[1], value(x), 0, 0), acc[2]),
             << c, << >> >>, args)
StoreArg(v) == list(newnode(v, "ARG", v.p, 0, 0))
StoredArgs(before) == FoldLeft(LAMBDA d, a : StoreArg(listnodes(d, value(a), 0, 0)), before[1], before[2])
CallNode(called) == Result(reset(called), called.p)

(* An assignment: to a variable, or to anything.                             *)
Assign(c, l, r) ==
    LET n == list(newnode(c, "ASGN", l, r, 0))
    IN  Result(IF c.nodes[l].op = "ADDR" THEN kill(n, c.nodes[l].sym) ELSE reset(n), r)
(* Two operands: << where they are, and what is listed with them >>.          *)
Second(l, x) == << l.p, listnodes(l, value(x.r), 0, 0) >>
Evaluated(c, x) == Second(listnodes(c, value(x.l), 0, 0), x)
Binary(two, op) == node(two[2], op, two[1], two[2].p, 0)
(* A comparison jumps if it holds, or if it does not.                         *)
Compared(two, op, lab) == Result(list(newnode(two[2], op, two[1], two[2].p, lab)), 0)
Assigned(two) == Assign(two[2], two[1], two[2].p)
Stored(c, x) == Assigned(Second(listnodes(c, x.l, 0, 0), x))     \* x is assigned to what has the address x.l

(* Where neither branch of a condition wants a value, none is kept.            *)
Arm(c, x, valued, to) ==
    IF valued THEN Stored(c, Tree("ASGN", ADDR(to), x)) ELSE Result(listnodes(c, x, 0, 0), 0)

(* An operator that jumps: the second operand where the first leaves it open.    *)
Up(d) == [d EXCEPT !.depth = @ - 1, !.p = 0]
Deeper(c) == [IF c.depth = 0 THEN reset(c) ELSE c EXCEPT !.depth = @ + 1]
And(c, x, tlab, flab, own) ==
    Up(IF flab # 0 THEN listnodes(listnodes(c, cond(x.l), 0, flab), cond(x.r), 0, flab)
       ELSE labelnode(listnodes(listnodes(genlabel(c, 1), cond(x.l), 0, own),
                                IF tlab = 0 THEN x.r ELSE cond(x.r), tlab, 0), own))
Or(c, x, tlab, flab, own) ==
    Up(IF tlab # 0 THEN listnodes(listnodes(c, cond(x.l), tlab, 0), cond(x.r), tlab, 0)
       ELSE labelnode(listnodes(listnodes(genlabel(c, 1), cond(x.l), own, 0),
                                IF flab = 0 THEN x.r ELSE cond(x.r), 0, flab), own))

(* The condition, an arm, a jump over the other arm, and the value read again.   *)
Asked(c, x, own) == reset(listnodes(genlabel([c EXCEPT !.locals = IF x.valued THEN @ + 1 ELSE @], 2), cond(x.c), 0, own))
Arms(c, x, own, to) ==
    unlist(Arm(labelnode(jump(unlist(Arm(c, x.a, x.valued, to), own + 1), own + 1), own), x.b, x.valued, to), own + 1)
Joined(c, x, own, to) ==
    IF x.valued THEN listnodes(labelnode(c, own + 1), INDIR(ADDR(to)), 0, 0)
    ELSE Result(labelnode(c, own + 1), 0)
Conditional(c, x, own, to) == Joined(Arms(Asked(c, x, own), x, own, to), x, own, to)

(* x++ has the value before: it is listed, then what it is one more is assigned. *)
AssignTo(sum, at) == Assign(sum, at, sum.p)
Sum(one, at, old) == Result(AssignTo(node(one, "ADD", old, one.p, 0), at), old)
Increased(old, at) == Sum(node(old, "CNST", 0, 0, 1), at, old.p)
Increment(at) == Increased(list(node(at, "INDIR", at.p, 0, 0)), at.p)
Loaded(l) == node(l, "INDIR", l.p, 0, 0)

listnodes(c, x, tlab, flab) ==
    CASE x.op = "NULL" -> Result(c, 0)
      [] x.op = "NODE" -> Result(c, x.v)
      [] x.op = "AND" -> And(Deeper(c), x, tlab, flab, c.label)
      [] x.op = "OR" -> Or(Deeper(c), x, tlab, flab, c.label)
      [] x.op = "NOT" -> listnodes(c, cond(x.l), flab, tlab)
      [] x.op = "COND" -> Conditional(c, x, c.label, Local(c.locals))
      [] x.op = "CNST" ->
           IF tlab # 0 \/ flab # 0
           THEN Result(IF tlab # 0 /\ x.v # 0 THEN jump(c, tlab) ELSE IF flab # 0 /\ x.v = 0 THEN jump(c, flab) ELSE c, 0)
           ELSE node(c, "CNST", 0, 0, x.v)
      [] x.op = "ADDR" -> node(c, "ADDR", 0, 0, x.v)
      [] x.op = "INDIR" -> Loaded(listnodes(c, value(x.l), 0, 0))
      [] x.op = "ADD" -> Binary(Evaluated(c, x), "ADD")
      [] x.op \in DOMAIN Opposite ->
           Compared(Evaluated(c, x), IF tlab # 0 THEN x.op ELSE Opposite[x.op], IF tlab # 0 THEN tlab ELSE flab)
      [] x.op = "RIGHT" ->
           IF x.r = NULL THEN listnodes(c, x.l, tlab, flab)
           ELSE listnodes(listnodes(c, x.l, 0, 0), value(x.r), tlab, flab)
      [] x.op = "INC" -> Increment(listnodes(c, x.l, 0, 0))
      [] x.op = "ASGN" -> Stored(c, x)
      [] x.op = "CALL" -> CallNode(list(newnode(StoredArgs(Arguments(c, x.args)), "CALL", 0, 0, Len(x.args))))

-----------------------------------------------------------------------------
(* Shared nodes become temporaries.  tail: what is listed so far; cse: what a   *)
(* temporary stands for.                                                    *)
TmpAddress(c, p) == newnode(c, "ADDR", 0, 0, p)
TmpLoad(a) == newnode(a, "INDIR", a.p, 0, 0)
UsedTimes(c, n) == [c EXCEPT !.nodes[c.p].count = n]
tmpnode(c, p) ==
    UsedTimes(TmpLoad(TmpAddress([c EXCEPT !.nodes[p].count = @ - 1,
                                         !.nodes[p].tmp = IF c.nodes[p].count = 1 THEN 0 ELSE @],
                               Temp(c.nodes[p].tmp))), 1)

(* The kids of a node are replaced by what op makes of them.                   *)
WithLeft(c, p)  == [c EXCEPT !.nodes[p].l = c.p]
WithRight(c, p) == Result([c EXCEPT !.nodes[p].r = c.p], p)

TmpAssign(a, p) == newnode(a, "ASGN", a.p, p, 0)
TmpFor(c, p, t) ==
    TmpAssign(newnode([c EXCEPT !.nodes[p].tmp = t, !.cse = Append(@, p)], "ADDR", 0, 0, Temp(t)), p)
NewTmp(c, p, listed) == IF listed THEN Result(c, p) ELSE tmpnode(c, p)
Listed(c) == [c EXCEPT !.tail = Append(@, c.p)]

RECURSIVE visit(_, _, _)
Kids(c, p, n) == WithRight(visit(WithLeft(visit(c, n.l, FALSE), p), n.r, FALSE), p)
Visited(c, p, n, listed) ==
    CASE n.tmp # 0 -> tmpnode(c, p)
      [] n.tmp = 0 /\ n.count <= IF n.op = "CALL" THEN 0 ELSE 1 -> Kids(c, p, n)
      [] n.tmp = 0 /\ n.count > 1 /\ n.op = "ADDR" /\ n.sym \notin Globals ->
           UsedTimes(newnode(Asserted(c, ~ listed), "ADDR", 0, 0, n.sym), 1)
      [] OTHER -> LET kids == Kids(c, p, n) IN NewTmp(Listed(TmpFor(kids, p, Len(kids.cse) + 1)), p, listed)
visit(c, p, listed) == IF p = 0 THEN Result(c, 0) ELSE Visited(c, p, c.nodes[p], listed)

(* A load listed for its value before an assignment: not to be pruned.         *)
NotPruned(a, t) == IF t # 0 THEN [Asserted(a, a.cse[t] # 0) EXCEPT !.cse[t] = 0] ELSE a
LoadListed(a, p) == NotPruned(a, a.nodes[p].tmp)
UndagNode(v, p, n) ==
    CASE n.op = "INDIR" -> LoadListed(Asserted(v, n.count >= 1), p)
      [] n.op = "CALL" /\ n.count >= 1 -> v
      [] OTHER -> [Asserted(v, n.count = 0) EXCEPT !.tail = Append(@, p)]
Undagged(c, p) == UndagNode(visit(c, p, TRUE), p, c.nodes[p])
undag(c) == FoldLeft(Undagged, [tail |-> << >>, cse |-> << >>, replaced |-> {}] @@ c, c.forest)

(* A temporary for a register variable is taken out again; what a condition    *)
(* leaves its value in is one as well.                                       *)
TmpOf(c, l) == IF c.nodes[l].op = "ADDR" THEN c.nodes[l].sym - Temp(0) ELSE 0
Register(c, t) == UsedTimes(TmpLoad(TmpAddress(c, c.nodes[c.nodes[c.cse[t]].l].sym)), 1)
RECURSIVE replace(_, _)
Replaced(c, p, l, r) == WithRight(replace(WithLeft(replace(c, l), p), r), p)
Replace(c, p, n, t) == IF t \in c.replaced THEN Register(c, t) ELSE Replaced(c, p, n.l, n.r)
replace(c, p) ==
    IF p = 0 THEN Result(c, 0)
    ELSE Replace(c, p, c.nodes[p], IF c.nodes[p].op = "INDIR" THEN TmpOf(c, c.nodes[p].l) ELSE 0)

InRegister(c, q) ==
    /\ q.op = "INDIR" /\ c.nodes[q.l].op = "ADDR"
    /\ c.nodes[q.l].sym \in Registers \cup (Local(1) .. Temp(0))
PruneNode(c, p, n, t) ==
    IF t > 0 /\ c.cse[t] = n.r /\ InRegister(c, c.nodes[n.r])
    THEN [c EXCEPT !.replaced = @ \cup {t}]
    ELSE [c EXCEPT !.tail = Append(@, p)]
PruneIn(c, p, n) == PruneNode(c, p, n, IF n.op = "ASGN" THEN TmpOf(c, n.l) ELSE 0)
PruneAfter(c, p) == PruneIn(c, p, c.nodes[p])
Pruned(c, p) ==
    PruneAfter(IF c.replaced = {} THEN c ELSE Replaced(c, p, c.nodes[p].l, c.nodes[p].r), p)
prune(c) == FoldLeft(Pruned, [c EXCEPT !.tail = << >>], c.tail)

vars == << list_of, dag >>
Init == list_of = << >> /\ dag = Start
Full(c) == c.buckets = {} \/ Cardinality(c.buckets) > Crowded
statement ==
    /\ Len(list_of) < Longest
    /\ \E x \in Statements :
         LET c == Result(listnodes(dag, root(x), 0, 0), 0)
         IN  list_of' = Append(list_of, x) /\ dag' = IF Full(c) THEN walk(c) ELSE c
Next == statement
Spec == Init /\ [][Next]_vars
-----------------------------------------------------------------------------
(* Calls do the same wherever they are made: they tell their arguments, and     *)
(* count in the first global variable.                                        *)
Counter == CHOOSE x \in Globals : \A y \in Globals : x <= y
Cut(v) == v % Modulus
Called(m, args) ==
    [m EXCEPT !.calls = Append(@, args), !.mem[Counter] = Cut(@ + 1),
              !.v = Cut(Len(args) + FoldLeft(LAMBDA acc, a : acc + a, m.mem[Counter], args))]
Begun(mem) == [mem |-> [x \in 1 .. 60 |-> IF x \in DOMAIN mem THEN mem[x] ELSE 0], calls |-> << >>, v |-> 0,
               stack |-> << >>, args |-> << >>]

(* What C says.                                                             *)
RECURSIVE C(_, _)
C(x, m) ==
    LET l == C(x.l, m)
        r == C(x.r, l)
    IN  CASE x.op = "NULL" -> m
          [] x.op \in {"CNST", "ADDR"} -> [m EXCEPT !.v = x.v]
          [] x.op = "INDIR" -> [l EXCEPT !.v = l.mem[l.v]]
          [] x.op = "ADD" -> [r EXCEPT !.v = Cut(l.v + r.v)]
          [] x.op = "LT" -> [r EXCEPT !.v = IF l.v < r.v THEN 1 ELSE 0]
          [] x.op = "NE" -> [r EXCEPT !.v = IF l.v # r.v THEN 1 ELSE 0]
          [] x.op = "NOT" -> [l EXCEPT !.v = IF l.v = 0 THEN 1 ELSE 0]
          [] x.op \in {"AND", "OR"} ->
               IF (l.v # 0) = (x.op = "OR") THEN [l EXCEPT !.v = IF @ # 0 THEN 1 ELSE 0]
               ELSE [r EXCEPT !.v = IF @ # 0 THEN 1 ELSE 0]
          [] x.op = "RIGHT" -> r
          [] x.op = "COND" -> LET c == C(x.c, m) IN IF c.v # 0 THEN C(x.a, c) ELSE C(x.b, c)
          [] x.op = "INC" -> [l EXCEPT !.mem[l.v] = Cut(@ + 1), !.v = l.mem[l.v]]
          [] x.op = "ASGN" -> [r EXCEPT !.mem[l.v] = r.v]
          [] x.op = "CALL" ->
               LET all == FoldLeft(LAMBDA acc, a : LET v == C(a, acc[1]) IN << v, Append(acc[2], v.v) >>, << m, << >> >>, x.args)
               IN  Called(all[1], all[2])

(* What the code does: dumptree's order, on the stack of operands.  An          *)
(* argument goes to the place after the last one since a call.                *)
Pop(m, n) == SubSeq(m.stack, 1, Len(m.stack) - n)
Push(m, n, v) == [m EXCEPT !.stack = Append(Pop(m, n), v)]
RECURSIVE Dumped(_, _, _)
Dumped(c, p, m) ==
    IF p = 0 THEN m
    ELSE LET n == c.nodes[p]
             k == Dumped(c, n.r, Dumped(c, n.l, m))
             top == k.stack[Len(k.stack)]
             sub == k.stack[Len(k.stack) - 1]
         IN  CASE n.op \in {"CNST", "ADDR"} -> Push(k, 0, n.sym)
               [] n.op = "INDIR" -> Push(k, 1, k.mem[top])
               [] n.op = "ADD" -> Push(k, 2, Cut(sub + top))
               [] n.op = "ASGN" -> [k EXCEPT !.mem[sub] = top, !.stack = Pop(k, 2)]
               [] n.op = "ARG" -> [k EXCEPT !.args = Append(@, top), !.stack = Pop(k, 1)]
               [] n.op = "CALL" ->
                    LET d == [Called(k, k.args) EXCEPT !.args = << >>] IN IF n.count = 0 THEN d ELSE Push(d, 0, d.v)
               [] OTHER -> [k EXCEPT !.v = IF CASE n.op = "LT" -> sub < top [] n.op = "GE" -> sub >= top
                                                [] n.op = "NE" -> sub # top [] n.op = "EQ" -> sub = top THEN 1 ELSE 0,
                                     !.stack = Pop(k, 2)]
RECURSIVE equated(_, _)
equated(c, lab) == IF c.eq[lab] = 0 THEN lab ELSE equated(c, c.eq[lab])
RECURSIVE Run(_, _, _)
Run(c, pc, m) ==
    IF pc > Len(c.tail) THEN m
    ELSE LET n == c.nodes[c.tail[pc]]
             to == SelectInSeq(c.tail, LAMBDA p : c.nodes[p].op = "LABEL" /\ c.nodes[p].sym = equated(c, n.sym))
             d == Dumped(c, c.tail[pc], m)
         IN  CASE n.op = "LABEL" -> Run(c, pc + 1, m)
               [] n.op = "JUMP" -> Run(c, to, m)
               [] n.op \in DOMAIN Opposite -> Run(c, IF d.v = 1 THEN to ELSE pc + 1, d)
               [] OTHER -> Run(c, pc + 1, d)

(* However expressions are shared, kept in temporaries and taken out of them,   *)
(* the code assigns, calls and passes arguments as C says, leaves the operand    *)
(* stack empty, and no assertion of dag.c fails on the way.                    *)
Meant(mem) == FoldLeft(LAMBDA m, x : C(x, m), Begun(mem), list_of)
SameEffect(got, meant) ==
    /\ \A x \in Places : got.mem[x] = meant.mem[x]
    /\ got.calls = meant.calls
    /\ got.stack = << >>
KeepsMeaning(c) == c.ok /\ \A mem \in Memories : SameEffect(Run(c, 1, Begun(mem)), Meant(mem))
SharingKeepsMeaning == KeepsMeaning(prune(undag(dag)))
===============================================================================
