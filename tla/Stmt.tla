---------------------------------- MODULE Stmt --------------------------------
(***************************************************************************)
(* Statements in q3rcc: the list of code that is built while a function is     *)
(* read, with its labels, the jumps that are left out or redirected, and the   *)
(* code put before the body of a switch (src/lcc/src/stmt.c, and of dag.c the  *)
(* listing of conditions).  Entries that make no code (blocks, points, locals) *)
(* are left out: every loop over the list passes over them.                  *)
(***************************************************************************)
EXTENDS Integers, SequencesExt

CONSTANTS
    SwitchBits,   \* of the value switched on
    Unsigned,     \* whether it is
    Programs,     \* what is read first
    Wrapped(_, _) \* statements around a statement, by how many there were

VARIABLES
    s,            \* the function's statement
    depth,
    st            \* what is made of it

-----------------------------------------------------------------------------
(* code: entries of kind Label, Gen, Jump and Switch.  forest: what is listed   *)
(* and not yet in the code.  ref, eq: references to a label and what it is     *)
(* equated to.  sw: the switch statements around.                             *)
MaxLabel == 60
Start ==
    [code |-> << >>, forest |-> << >>, label |-> 1, ref |-> [l \in 1 .. MaxLabel |-> 0],
     eq |-> [l \in 1 .. MaxLabel |-> 0], sw |-> << >>, ulab |-> << >>, defined |-> {}, errcnt |-> 0]
Entry(kind, lab, nodes) == [kind |-> kind, lab |-> lab, nodes |-> nodes]
Node(n, k, sense, lab) == [n |-> n, k |-> k, sense |-> sense, lab |-> lab]
genlabel(c, n) == [c EXCEPT !.label = @ + n]
error(c) == [c EXCEPT !.errcnt = @ + 1]
Refer(c, lab, n) == [c EXCEPT !.ref[lab] = @ + n]

list(c, node) == [c EXCEPT !.forest = Append(@, node)]
walk(c) == IF c.forest = << >> THEN c
           ELSE [c EXCEPT !.code = Append(@, Entry("Gen", 0, c.forest)), !.forest = << >>]

(* Mutant of equatelab: no reference is counted.                             *)
equatelabUncounted(c, old, new) == [c EXCEPT !.eq[old] = new]

equatelab(c, old, new) == Refer([c EXCEPT !.eq[old] = new], new, 1)

(* Whether a label is among those dst is equated to.                         *)
RECURSIVE equal(_, _, _)
equal(c, lprime, dst) == lprime = dst \/ (c.eq[dst] # 0 /\ equal(c, lprime, c.eq[dst]))
RECURSIVE equated(_, _)
equated(c, lab) == IF c.eq[lab] = 0 THEN lab ELSE equated(c, c.eq[lab])

(* A label, and a jump: where a label ends the forest, the new one is it.     *)
labelnode(c, lab) ==
    IF c.forest # << >> /\ Last(c.forest).n = "LABEL" THEN equatelab(c, lab, Last(c.forest).lab)
    ELSE list(c, Node("LABEL", 0, TRUE, lab))

jump(c, lab) == list(Refer(c, lab, 1), Node("JUMP", 0, TRUE, lab))

(* Conditions, with a label to go to if they hold, or one if they do not.     *)
RECURSIVE listnodes(_, _, _, _)
listnodes(c, p, tlab, flab) ==
    LET own == c.label
        g   == genlabel(c, 1)
    IN  CASE p.c = "not" -> listnodes(c, p.a, flab, tlab)
          [] p.c = "and" ->
               IF flab # 0 THEN listnodes(listnodes(c, p.a, 0, flab), p.b, 0, flab)
               ELSE labelnode(listnodes(listnodes(g, p.a, 0, own), p.b, tlab, 0), own)
          [] p.c = "or" ->
               IF tlab # 0 THEN listnodes(listnodes(c, p.a, tlab, 0), p.b, tlab, 0)
               ELSE labelnode(listnodes(listnodes(g, p.a, own, 0), p.b, 0, flab), own)
          [] p.c = "const" ->
               IF tlab # 0 /\ p.v # 0 THEN jump(c, tlab)
               ELSE IF tlab = 0 /\ p.v = 0 THEN jump(c, flab) ELSE c
          [] OTHER ->
               LET lab == IF tlab # 0 THEN tlab ELSE flab
               IN  list(Refer(c, lab, 1), Node(p.c, p.v, tlab # 0, lab))

(* A label: a jump to it that has come before it is taken back.              *)
LastCode(c) == SelectLastInSeq(c.code, LAMBDA cp : cp.kind # "Label")
RECURSIVE Untaken(_, _, _)
Untaken(c, lab, i) ==
    IF i > 0 /\ c.code[i].kind = "Jump" /\ c.code[i].lab = lab
    THEN Untaken(Refer([c EXCEPT !.code = RemoveAt(@, i)], lab, -1), lab,
                 LastCode([c EXCEPT !.code = RemoveAt(@, i)]))
    ELSE c
Labelled(c, lab) == Untaken([c EXCEPT !.code = Append(@, Entry("Label", lab, << >>))], lab, LastCode(c))
definelab(c, lab) == Labelled(walk(c), lab)

(* Labels that stand before a jump become its target.                        *)
RECURSIVE Redirected(_, _)
Redirected(c, lab) ==
    IF c.code # << >> /\ Last(c.code).kind = "Label" /\ ~ equal(c, Last(c.code).lab, lab)
    THEN Redirected([equatelab(c, Last(c.code).lab, lab) EXCEPT !.code = Front(@)], lab)
    ELSE c

(* A jump is not made where it could not be reached.                         *)
Jumping(c, lab) ==
    IF c.code # << >> /\ Last(c.code).kind \in {"Jump", "Switch"} THEN c
    ELSE [Refer(c, lab, 1) EXCEPT !.code = Append(@, Entry("Jump", lab, << >>))]
branch(c, lab) == Jumping(Redirected(walk(c), lab), lab)
IfReferred(c, lab) == IF c.ref[lab] > 0 THEN definelab(c, lab) ELSE c

-----------------------------------------------------------------------------
(* Switch: case labels in order, buckets of cases that lie densely, and a      *)
(* search among them.                                                       *)
signed(v) == LET u == v % 2 ^ SwitchBits IN IF u >= 2 ^ (SwitchBits - 1) THEN u - 2 ^ SwitchBits ELSE u

(* Mutant of caselabel: a case goes behind all that are there.               *)
caselabelLast(c, val, lab) == [c EXCEPT !.sw[Len(c.sw)].cases = Append(@, << val, lab >>)]

caselabel(c, val, lab) ==
    LET cases == Last(c.sw).cases
        k == SelectLastInSeq(cases, LAMBDA x : x[1] < val)
        c1 == IF k < Len(cases) /\ cases[k + 1][1] = val THEN error(c) ELSE c
    IN  [c1 EXCEPT !.sw[Len(c.sw)].cases = InsertAt(@, k + 1, << val, lab >>)]

(* The least half of the values must be cases.                               *)
dense(v, i, j) == 2 * (j - i + 1) >= v[j][1] - v[i][1] + 1

(* The first case of every bucket, and one behind the last case.             *)
RECURSIVE Buckets(_, _, _)
Buckets(v, b, k) ==
    LET RECURSIVE Merged(_)
        Merged(x) == IF Len(x) > 1 /\ dense(v, x[Len(x) - 1], k) THEN Merged(Front(x)) ELSE x
    IN  IF k > Len(v) THEN Append(b, k) ELSE Buckets(v, Merged(Append(b, k)), k + 1)

cmp(c, op, val, lab) == list(Refer(c, lab, 1), Node(op, val, TRUE, lab))

(* A bucket of few cases, and one that becomes a table.                       *)
Few(c, v, l, u) == FoldLeft(LAMBDA acc, i : cmp(acc, "EQ", v[i][1], v[i][2]), c, [i \in 1 .. u - l + 1 |-> l + i - 1])
Otherwise(c, v, l, u, lolab, hilab, below, above) ==
    walk(CASE below -> cmp(c, "GT", v[u][1], hilab)
           [] ~ below /\ above -> cmp(c, "LT", v[l][1], lolab)
           [] OTHER -> branch(c, lolab))
TableAt(v, l, u, deflab) == [n |-> "TABLE", table |-> SubSeq(v, l, u), lab |-> deflab]
Many(c, v, l, u, lolab, hilab, deflab) ==
    [walk(list(cmp(IF ~ Unsigned \/ v[l][1] # 0 THEN cmp(c, "LT", v[l][1], lolab) ELSE c,
                   "GT", v[u][1], hilab), TableAt(v, l, u, deflab)))
        EXCEPT !.code = Append(@, Entry("Switch", 0, << >>))]
Bucket(c, v, l, u, lolab, hilab, deflab, below, above) ==
    IF u - l + 1 <= 3 THEN Otherwise(Few(c, v, l, u), v, l, u, lolab, hilab, below, above)
    ELSE Many(c, v, l, u, lolab, hilab, deflab)

(* The bucket in the middle, with labels for those below and those above.       *)
RECURSIVE swcode(_, _, _, _, _, _)
Below(c, v, b, deflab, lolab, lb, k) ==
    IF k > lb THEN swcode(definelab(c, lolab), v, b, deflab, lb, k - 1) ELSE c
Above(c, v, b, deflab, hilab, k, ub) ==
    IF k < ub THEN swcode(definelab(c, hilab), v, b, deflab, k + 1, ub) ELSE c
Around(c, v, b, deflab, lb, k, ub, lolab, hilab) ==
    Above(Below(Bucket(genlabel(c, (IF k > lb THEN 1 ELSE 0) + (IF k < ub THEN 1 ELSE 0)),
                       v, b[k], b[k + 1] - 1, lolab, hilab, deflab, k > lb, k < ub),
                v, b, deflab, lolab, lb, k), v, b, deflab, hilab, k, ub)
Middle(c, v, b, deflab, lb, k, ub) ==
    Around(c, v, b, deflab, lb, k, ub, IF k > lb THEN c.label ELSE deflab,
           IF k < ub THEN c.label + (IF k > lb THEN 1 ELSE 0) ELSE deflab)
swcode(c, v, b, deflab, lb, ub) == Middle(c, v, b, deflab, lb, (lb + ub) \div 2, ub)

InBuckets(c, sw, b) == swcode(c, sw.cases, b, sw.deflab, 1, Len(b) - 1)
swgen(c, sw) == InBuckets(c, sw, Buckets(sw.cases, << >>, 1))

(* The body is read first; the code that chooses is put before it.            *)
Defaulted(c, lab) ==
    IF Last(c.sw).deflab = 0 THEN definelab([c EXCEPT !.sw[Len(c.sw)].deflab = lab], lab) ELSE c
Choosing(c, sw, lab) == branch(IF sw.cases # << >> THEN swgen(c, sw) ELSE c, lab)
Headed(c, lab, head) ==
    [Choosing([c EXCEPT !.code = SubSeq(@, 1, head - 1), !.sw = Front(@)], Last(c.sw), lab)
        EXCEPT !.code = @ \o SubSeq(c.code, head + 1, Len(c.code))]
Chosen(c, lab, head) == Headed(IfReferred(Defaulted(c, lab), lab + 1), lab, head)

-----------------------------------------------------------------------------
(* for (v = const; v < const; ...) : no test before the first round.          *)
foldcond(p) == p.init >= 0 /\ p.c.c = "less" /\ p.init < p.c.v

UserLabel(c, name) ==
    IF \E i \in DOMAIN c.ulab : c.ulab[i][1] = name THEN c
    ELSE [genlabel(c, 1) EXCEPT !.ulab = Append(@, << name, c.label >>)]
LabelOf(c, name) == c.ulab[SelectInSeq(c.ulab, LAMBDA x : x[1] = name)][2]

(* The statement left by break: the later of the loop and the switch around.   *)
BreakLabel(c, loop) ==
    IF c.sw # << >> /\ Last(c.sw).lab > loop THEN Last(c.sw).lab + 1
    ELSE IF loop # 0 THEN loop + 2 ELSE 0
return == MaxLabel     \* cfunc->u.f.label

RECURSIVE statement(_, _, _)
conditional(x, q, t, f) == walk(listnodes(x, q, t, f))

Else(c, p, loop, lab) ==
    IF p.s = "if" THEN definelab(c, lab)
    ELSE IfReferred(statement(definelab(branch(c, lab + 1), lab), p.b, loop), lab + 1)
ifstmt(c, p, loop) ==
    Else(statement(conditional(genlabel(c, 2), p.c, 0, c.label), p.a, loop), p, loop, c.label)

(* The end of a round: where continue goes, the condition, where break goes.     *)
RoundEnds(c, p, lab) == IfReferred(conditional(definelab(c, lab + 1), p.c, lab, 0), lab + 2)
whilestmt(c, p) ==
    RoundEnds(statement(definelab(branch(genlabel(walk(c), 3), c.label + 1), c.label), p.a, c.label), p, c.label)
dostmt(c, p) == RoundEnds(statement(definelab(genlabel(c, 3), c.label), p.a, c.label), p, c.label)

Tests(p) == p.c.c # "none"
Begins(c, p) == walk(IF p.init >= 0 THEN list(c, Node("set", p.init, TRUE, 0)) ELSE c)
Enters(c, p, lab) == IF Tests(p) /\ ~ foldcond(p) THEN branch(c, lab + 3) ELSE c
Steps(c, p) == IF p.step THEN walk(list(c, Node("inc", 0, TRUE, 0))) ELSE c
Repeats(c, p, lab) ==
    IF ~ Tests(p) THEN branch(c, lab)
    ELSE conditional(IF foldcond(p) THEN c ELSE definelab(c, lab + 3), p.c, lab, 0)
ForBody(c, p, lab) == statement(definelab(Enters(Begins(c, p), p, lab), lab), p.a, lab)
forstmt(c, p) ==
    IfReferred(Repeats(Steps(definelab(ForBody(genlabel(c, 4), p, c.label), c.label + 1), p), p, c.label), c.label + 2)

Switched(c, lab) ==
    [c EXCEPT !.code = Append(@, Entry("Switch", 0, << >>)),
              !.sw = Append(@, [lab |-> lab, deflab |-> 0, cases |-> << >>])]
SwitchBody(c, p, loop, lab) == Chosen(statement(c, p.a, loop), lab, Len(c.code))
swstmt(c, p, loop) == SwitchBody(Switched(walk(genlabel(c, 2)), c.label), p, loop, c.label)

DefineUser(c, name) == definelab([c EXCEPT !.defined = @ \cup {name}], LabelOf(c, name))
OnceOnly(c, name) == IF name \in c.defined THEN error(c) ELSE c
stmtlabel(c, p) == DefineUser(OnceOnly(UserLabel(c, p.name), p.name), p.name)
GoesTo(c, name) == branch(c, LabelOf(c, name))
DefaultAt(c, lab) == definelab([c EXCEPT !.sw[Len(c.sw)].deflab = lab], lab)
CaseAt(c, vals, lab) == FoldLeft(LAMBDA x, val : caselabel(x, signed(val), lab), definelab(genlabel(c, 1), lab), vals)
Acts(c, p) == list(c, Node("act", p.id, TRUE, 0))

statement(c, p, loop) ==
    CASE p.s = "act" -> IF p.call THEN walk(Acts(c, p)) ELSE Acts(c, p)
      [] p.s = "block" -> walk(FoldLeft(LAMBDA x, q : statement(x, q, loop), walk(c), p.ss))
      [] p.s \in {"if", "ifelse"} -> ifstmt(c, p, loop)
      [] p.s = "while" -> whilestmt(c, p)
      [] p.s = "do" -> dostmt(c, p)
      [] p.s = "for" -> forstmt(c, p)
      [] p.s = "break" ->
           IF BreakLabel(c, loop) = 0 THEN error(c) ELSE branch(c, BreakLabel(c, loop))
      [] p.s = "continue" -> IF loop = 0 THEN error(c) ELSE branch(c, loop + 1)
      [] p.s = "return" -> branch(c, return)
      [] p.s = "goto" -> GoesTo(UserLabel(walk(c), p.name), p.name)
      [] p.s = "label" -> statement(stmtlabel(c, p), p.a, loop)
      [] p.s = "switch" -> swstmt(c, p, loop)
      [] p.s = "case" ->
           IF c.sw = << >> THEN error(c) ELSE statement(CaseAt(c, p.vals, c.label), p.a, loop)
      [] p.s = "default" ->
           IF c.sw = << >> \/ Last(c.sw).deflab # 0 THEN error(c)
           ELSE statement(DefaultAt(c, Last(c.sw).lab), p.a, loop)

(* The whole function; a goto without its label is an error in the end.        *)
AllDefined(c) == IF \E i \in DOMAIN c.ulab : c.ulab[i][1] \notin c.defined THEN error(c) ELSE c
funcdefn(p) == AllDefined(walk(definelab(statement(Start, [s |-> "block", ss |-> << p >>], 0), return)))

vars == << s, depth, st >>
Init == s \in Programs /\ depth = 0 /\ st = funcdefn(s)
compound == \E p \in Wrapped(s, depth) : s' = p /\ depth' = depth + 1 /\ st' = funcdefn(p)
Next == compound
Spec == Init /\ [][Next]_vars
-----------------------------------------------------------------------------
(* What C says of a statement.  m: the events so far (actions, and conditions   *)
(* asked), the loop variable, and how control moves: sig is "" where it goes    *)
(* on, "seek" on the way to a label or a case, else what ended a statement.     *)
(* An env answers the conditions in turn, and has the value switched on.        *)
CONSTANTS
    Inputs,                  \* answers of the conditions, values switched on
    MaxEvents, MaxRounds     \* looked at, and rounds of loops
Event(m, x) == [m EXCEPT !.trace = Append(@, x), !.sig = IF Len(m.trace) + 1 >= MaxEvents THEN "out" ELSE @]
Round(m) == [m EXCEPT !.rounds = @ + 1, !.sig = IF m.rounds >= MaxRounds THEN "out" ELSE @]
Begun == [trace |-> << >>, asked |-> 0, rounds |-> 0, v |-> 0, holds |-> FALSE, sig |-> "", to |-> << >>]

Ask(m, env, id) ==
    [Event(m, << "test", id >>) EXCEPT !.asked = @ + 1, !.holds = env.answers[1 + (m.asked % Len(env.answers))]]
RECURSIVE Decide(_, _, _)
Decide(m, env, q) ==
    CASE m.sig # "" -> m
      [] q.c = "none" -> [m EXCEPT !.holds = TRUE]
      [] q.c = "const" -> [m EXCEPT !.holds = q.v # 0]
      [] q.c = "less" -> [m EXCEPT !.holds = m.v < q.v]
      [] q.c = "test" -> Ask(m, env, q.v)
      [] q.c = "not" -> LET a == Decide(m, env, q.a) IN [a EXCEPT !.holds = ~ @]
      [] q.c = "and" -> LET a == Decide(m, env, q.a) IN IF a.holds THEN Decide(a, env, q.b) ELSE a
      [] q.c = "or" -> LET a == Decide(m, env, q.a) IN IF a.holds THEN a ELSE Decide(a, env, q.b)

Word(v) == v % 2 ^ SwitchBits
RECURSIVE Has(_, _)
Has(p, to) ==
    CASE p.s = "block" -> \E i \in DOMAIN p.ss : Has(p.ss[i], to)
      [] p.s = "ifelse" -> Has(p.a, to) \/ Has(p.b, to)
      [] p.s = "label" -> to = << "label", p.name >> \/ Has(p.a, to)
      [] p.s = "case" -> (to[1] = "case" /\ \E i \in DOMAIN p.vals : Word(p.vals[i]) = Word(to[2])) \/ Has(p.a, to)
      [] p.s = "default" -> to[1] = "default" \/ Has(p.a, to)
      [] p.s = "switch" -> to[1] = "label" /\ Has(p.a, to)
      [] p.s \in {"if", "while", "do", "for"} -> Has(p.a, to)
      [] OTHER -> FALSE
Here(p, to) == to[1] = p.s /\ (p.s = "default" \/ (p.s = "label" /\ to[2] = p.name)
                                \/ (p.s = "case" /\ \E i \in DOMAIN p.vals : Word(p.vals[i]) = Word(to[2])))
Ended(m, signals) == IF m.sig \in signals THEN [m EXCEPT !.sig = ""] ELSE m

RECURSIVE Exec(_, _, _)
Exec(p, m, env) ==
    LET seeking == m.sig = "seek"
        body(x) == Ended(Exec(p.a, x, env), {"continue"})
        step(x) == IF p.s = "for" /\ p.step /\ x.sig = "" THEN [x EXCEPT !.v = @ + 1] ELSE x
        RECURSIVE Tested(_), Rounds(_)
        Tested(x) == LET d == Decide(x, env, p.c) IN IF d.sig = "" /\ d.holds THEN Rounds(Round(d)) ELSE d
        Rounds(x) == LET b == step(body(x)) IN IF b.sig = "" THEN Tested(b) ELSE b
        choice == IF Has(p.a, << "case", env.x >>) THEN << "case", env.x >> ELSE << "default" >>
    IN  IF m.sig # "" /\ ~ (seeking /\ Has(p, m.to)) THEN m
        ELSE CASE p.s = "act" -> Event(m, << "act", p.id >>)
               [] p.s = "block" -> FoldLeft(LAMBDA x, q : Exec(q, x, env), m, p.ss)
               [] p.s = "if" -> LET d == Decide(m, env, p.c) IN IF seeking \/ d.holds THEN Exec(p.a, d, env) ELSE d
               [] p.s = "ifelse" ->
                    LET d == Decide(m, env, p.c)
                    IN  IF IF seeking THEN Has(p.a, m.to) ELSE d.holds THEN Exec(p.a, d, env) ELSE Exec(p.b, d, env)
               [] p.s = "while" -> Ended(IF seeking THEN Rounds(m) ELSE Tested(m), {"break"})
               [] p.s = "do" -> Ended(Rounds(m), {"break"})
               [] p.s = "for" ->
                    Ended(IF seeking THEN Rounds(m) ELSE Tested(IF p.init >= 0 THEN [m EXCEPT !.v = p.init] ELSE m), {"break"})
               [] p.s \in {"break", "continue", "return"} -> [m EXCEPT !.sig = p.s]
               [] p.s = "goto" -> [Round(m) EXCEPT !.sig = IF @ = "" THEN "goto" ELSE @, !.to = << "label", p.name >>]
               [] p.s \in {"label", "case", "default"} ->
                    Exec(p.a, IF seeking /\ Here(p, m.to) THEN [m EXCEPT !.sig = ""] ELSE m, env)
               [] p.s = "switch" ->
                    IF seeking THEN Ended(Exec(p.a, m, env), {"break"})
                    ELSE IF Has(p.a, choice) THEN Ended(Exec(p.a, [m EXCEPT !.sig = "seek", !.to = choice], env), {"break"})
                    ELSE m
RECURSIVE Whole(_, _, _)
Whole(p, m, env) ==
    LET r == Exec(p, m, env) IN IF r.sig = "goto" THEN Whole(p, [r EXCEPT !.sig = "seek"], env) ELSE r

(* What the code does.                                                      *)
nodes(c) ==
    FlattenSeq([i \in DOMAIN c.code |->
        CASE c.code[i].kind = "Label" -> << Node("LABEL", 0, TRUE, c.code[i].lab) >>
          [] c.code[i].kind = "Jump" -> << Node("JUMP", 0, TRUE, c.code[i].lab) >>
          [] OTHER -> c.code[i].nodes])
Targets(node) == {node.lab} \cup (IF node.n = "TABLE" THEN {node.table[i][2] : i \in DOMAIN node.table} ELSE {})
Jumps == {"JUMP", "TABLE", "test", "less", "EQ", "LT", "GT"}

RECURSIVE Machine(_, _, _, _, _)
Machine(c, code, pc, m, env) ==
    LET x == signed(env.x)
        node == code[pc]
        at(lab) == SelectInSeq(code, LAMBDA n : n.n = "LABEL" /\ n.lab = equated(c, lab))
        go(lab, mm) == Machine(c, code, at(lab), Round(mm), env)
        on(mm) == Machine(c, code, pc + 1, mm, env)
        index == x - node.table[1][1]
        entry == SelectInSeq(node.table, LAMBDA y : y[1] = x)
        asked == Ask(m, env, node.k)
    IN  IF m.sig # "" \/ pc > Len(code) THEN m
        ELSE CASE node.n = "LABEL" -> on(m)
               [] node.n = "act" -> on(Event(m, << "act", node.k >>))
               [] node.n = "set" -> on([m EXCEPT !.v = node.k])
               [] node.n = "inc" -> on([m EXCEPT !.v = @ + 1])
               [] node.n = "JUMP" -> go(node.lab, m)
               [] node.n = "test" -> IF asked.holds = node.sense THEN go(node.lab, asked) ELSE on(asked)
               [] node.n = "less" -> IF (m.v < node.k) = node.sense THEN go(node.lab, m) ELSE on(m)
               [] node.n = "EQ" -> IF x = node.k THEN go(node.lab, m) ELSE on(m)
               [] node.n = "LT" -> IF x < node.k THEN go(node.lab, m) ELSE on(m)
               [] node.n = "GT" -> IF x > node.k THEN go(node.lab, m) ELSE on(m)
               [] node.n = "TABLE" ->
                    IF index < 0 \/ index > Last(node.table)[1] - node.table[1][1] THEN [m EXCEPT !.sig = "wild"]
                    ELSE go(IF entry > 0 THEN node.table[entry][2] ELSE node.lab, m)

(* The code does what the statements say, in their order, whatever the         *)
(* conditions are and whatever is switched on: the jumps that were left out,     *)
(* turned to another label or chosen by a search among the cases are all right.*)
CodeRunsAsWritten ==
    st.errcnt = 0 =>
        LET code == nodes(st)
        IN  \A env \in Inputs :
                LET meant == Whole(s, Begun, env)
                    got   == Machine(st, code, 1, Begun, env)
                IN  \/ got.trace = meant.trace /\ got.sig # "wild"
                    \/ "out" \in {meant.sig, got.sig} /\ got.sig # "wild"
                       /\ (IsPrefix(got.trace, meant.trace) \/ IsPrefix(meant.trace, got.trace))

(* A jump table is entered only with a value it has an entry for.             *)
TablesStayInside ==
    \A env \in Inputs : st.errcnt = 0 => Machine(st, nodes(st), 1, Begun, env).sig # "wild"

(* Every jump leads to a label that is there, once, when the code is emitted,   *)
(* though labels are equated and dropped all the time.                       *)
JumpsLand ==
    st.errcnt = 0 =>
        LET code == nodes(st)
            defined == {i \in DOMAIN code : code[i].n = "LABEL"}
        IN  /\ \A i, j \in defined : code[i].lab = code[j].lab => i = j
            /\ \A i \in defined : st.eq[code[i].lab] = 0
            /\ \A i \in DOMAIN code : code[i].n \in Jumps =>
                    \A lab \in Targets(code[i]) \ {0} : \E d \in defined : code[d].lab = equated(st, lab)
===============================================================================
