---------------------------------- MODULE Expr --------------------------------
(***************************************************************************)
(* Expressions in q3rcc: from what the parser has read to a tree, which is    *)
(* folded and rearranged while it is built (src/lcc/src/simp.c, enode.c and    *)
(* expr.c).  The host counts in long, the machine in words of WordBits bits,   *)
(* as the compiled program does.  Floats, bit fields and structures are out.   *)
(***************************************************************************)
EXTENDS Integers, Sequences

CONSTANTS
    WordBits, CharBits,   \* bits of int and unsigned, and of the char types
    Operands,             \* by the number of operators: what they are put to
    Envs, Base, Elements  \* values of variables and calls; an array in memory

VARIABLES
    e,             \* the expression read
    needconst,     \* whether a constant is called for
    ops,           \* its operators
    tree           \* what it has become

Types == {"int", "unsigned", "char", "uchar", "ptr"}
inttype == "int"
unsignedtype == "unsigned"
kind(ty) == CASE ty \in {"int", "char"} -> "I" [] ty \in {"unsigned", "uchar"} -> "U" [] ty = "ptr" -> "P"
bits(ty) == IF ty \in {"char", "uchar"} THEN CharBits ELSE WordBits
ElementSize == 2          \* of what a pointer is to
ones(ty) == 2 ^ bits(ty) - 1
min(ty) == IF kind(ty) = "I" THEN - (2 ^ (bits(ty) - 1)) ELSE 0
max(ty) == IF kind(ty) = "I" THEN 2 ^ (bits(ty) - 1) - 1 ELSE ones(ty)
InLimits(v, ty) == v >= min(ty) /\ v <= max(ty)

(* A value cut to a type, as extend and ones do it.                          *)
extend(v, ty) == LET u == v % 2 ^ bits(ty) IN IF u > max(ty) THEN u - 2 ^ bits(ty) ELSE u

Bit(v, i) == (v \div 2 ^ i) % 2
RECURSIVE BitwiseOf(_, _, _, _)
BitwiseOf(op, x, y, n) ==
    IF n = 0 THEN 0
    ELSE BitwiseOf(op, x, y, n - 1)
         + 2 ^ (n - 1) * (LET a == Bit(x, n - 1)
                              b == Bit(y, n - 1)
                          IN  CASE op = "BAND" -> a * b [] op = "BOR" -> a + b - a * b [] op = "BXOR" -> (a + b) % 2)

(* Division as the host's C has it, towards 0.                              *)
Quot(x, y) == LET q == (IF x < 0 THEN - x ELSE x) \div (IF y < 0 THEN - y ELSE y)
              IN  IF (x < 0) = (y < 0) THEN q ELSE - q
Rem(x, y) == x - y * Quot(x, y)

-----------------------------------------------------------------------------
(* Trees.                                                                   *)

Nil == [op |-> "nil"]
Tree(op, k, ty, l, r) == [op |-> op, k |-> k, ty |-> ty, l |-> l, r |-> r, v |-> 0]
(* An INT is stored as it comes, an UNSIGNED is cut.                         *)
cnsttree(ty, v) == [Tree("CNST", kind(ty), ty, Nil, Nil) EXCEPT !.v = IF kind(ty) = "I" THEN v ELSE v % 2 ^ bits(ty)]
retype(p, ty) == [p EXCEPT !.ty = ty]
isC(p, k) == p.op = "CNST" /\ p.k = k
isaddrop(p) == p.op = "ADDR"
Comparisons == {"EQ", "NE", "GT", "GE", "LT", "LE"}
Logical == Comparisons \cup {"AND", "OR", "NOT"}

(* What of a tree must be evaluated though its value is not used.            *)
RECURSIVE root(_)
root(p) ==
    LET both(l, r) == IF l = Nil /\ r = Nil THEN Nil ELSE Tree("RIGHT", p.k, p.ty, l, r)
    IN  IF p = Nil THEN Nil
        ELSE CASE p.op = "CALL" -> p
               [] p.op \in {"CNST", "ADDR"} -> IF needconst THEN p ELSE Nil
               [] p.op = "INDIR" -> Nil
               [] p.op \in {"AND", "OR"} ->
                    LET r == root(p.r) IN IF r = Nil THEN root(p.l) ELSE [p EXCEPT !.r = r]
               [] p.op = "COND" -> LET arms == both(root(p.r.l), root(p.r.r))
                                   IN  IF arms = Nil THEN root(p.l) ELSE [p EXCEPT !.r = arms]
               [] p.op \in {"NOT", "CVI", "CVU", "CVP", "NEG", "BCOM"} -> root(p.l)
               [] OTHER -> both(root(p.l), root(p.r))

addi(x, y, ty) ==
    \/ x = 0 \/ y = 0 \/ needconst
    \/ x < 0 /\ y < 0 /\ x >= min(ty) - y
    \/ x < 0 /\ y > 0
    \/ x > 0 /\ y < 0
    \/ x > 0 /\ y > 0 /\ x <= max(ty) - y
subi(x, y, ty) == addi(x, - y, ty)
divi(x, y, ty) == y # 0 /\ ~ (x = min(ty) /\ y = -1)
muli(x, y, ty) ==
    \/ x \in 0 .. 1 \/ y \in 0 .. 1 \/ needconst
    \/ x < 0 /\ y < 0 /\ - x <= Quot(max(ty), - y)
    \/ x < 0 /\ y > 0 /\ x >= Quot(min(ty), y)
    \/ x > 0 /\ y < 0 /\ y >= Quot(min(ty), x)
    \/ x > 0 /\ y > 0 /\ x <= Quot(max(ty), y)

Shifts(y, ty) == y >= 0 /\ y < bits(ty)
OneShifted(y) == IF y = WordBits - 1 THEN - 2 ^ y ELSE 2 ^ y      \* 1<<y is an int

(* Whether two constants of kind k may be folded.                           *)
Foldable(op, k, ty, x, y) ==
    CASE op = "ADD" /\ k = "I" -> addi(x, y, ty)
      [] op = "SUB" /\ k = "I" -> subi(x, y, ty)
      [] op = "MUL" /\ k = "I" -> muli(x, y, ty)
      [] op \in {"DIV", "MOD"} -> IF k = "I" THEN divi(x, y, ty) ELSE y # 0
      [] op = "LSH" /\ k = "I" -> Shifts(y, ty) /\ muli(x, OneShifted(y), ty)
      [] op \in {"LSH", "RSH"} -> Shifts(y, ty)
      [] OTHER -> TRUE

Compared(op, x, y) ==
    CASE op = "EQ" -> x = y [] op = "NE" -> x # y [] op = "GT" -> x > y
      [] op = "GE" -> x >= y [] op = "LT" -> x < y [] op = "LE" -> x <= y
Truth(b) == IF b THEN 1 ELSE 0

(* What two numbers give, before the result is cut.                         *)
Calculated(op, x, y) ==
    CASE op = "ADD" -> x + y [] op = "SUB" -> x - y [] op = "MUL" -> x * y
      [] op = "DIV" -> Quot(x, y) [] op = "MOD" -> Rem(x, y)
      [] op = "LSH" -> x * 2 ^ y [] op = "RSH" -> x \div 2 ^ y
      [] op \in {"BAND", "BOR", "BXOR"} ->
           LET v == BitwiseOf(op, x % 2 ^ WordBits, y % 2 ^ WordBits, WordBits)
           IN  IF x < 0 \/ y < 0 THEN extend(v, inttype) ELSE v
      [] op \in Comparisons -> Truth(Compared(op, x, y))

ispow2(u) == IF \E n \in 1 .. WordBits : u = 2 ^ n THEN CHOOSE n \in 1 .. WordBits : u = 2 ^ n ELSE 0

(* A symbol of its own for an address at a distance.                        *)
addrtree(p, n) == [p EXCEPT !.v = @ + n]

Neutral == [ADD |-> 0, SUB |-> 0, BOR |-> 0, BXOR |-> 0, LSH |-> 0, RSH |-> 0, DIV |-> 1]
Commuting == {"ADD", "BAND", "BOR", "BXOR", "EQ", "NE"}

(* What makes trees calls what makes trees, all of it through optree.        *)
RECURSIVE optree(_, _, _, _, _)
simplify(op, k, ty, l, r) == optree(op, k, ty, l, r)      \* k is the suffix of the operator
cast(p, ty)               == optree("cast", "", ty, p, Nil)
cond(p)                   == optree("cond", "", inttype, p, Nil)

promote(ty) == IF kind(ty) = "I" THEN inttype ELSE IF ty = "uchar" THEN inttype ELSE ty
(* Mutant of binary: the type of the left operand.                          *)
binaryLeft(x, y) == promote(x)
binary(x, y) == IF unsignedtype \in {x, y} THEN unsignedtype ELSE inttype

ArithIn(ty, op, l, r) == simplify(op, kind(ty), ty, cast(l, ty), cast(r, ty))
Arith(op, l, r) == ArithIn(binary(l.ty, r.ty), op, l, r)
multree(op, l, r) == Arith(op, l, r)
bittree(op, l, r) == Arith(op, l, r)
Compare(ty, op, l, r) == simplify(op, kind(ty), inttype, cast(l, ty), cast(r, ty))
cmptree(op, l, r) == Compare(IF l.ty = "ptr" THEN unsignedtype ELSE binary(l.ty, r.ty), op, l, r)
PointerLeft(l, r) == l.ty = "ptr" \/ r.ty # "ptr"
eqtree(op, l, r) == cmptree(op, IF PointerLeft(l, r) THEN l ELSE r, IF PointerLeft(l, r) THEN r ELSE l)

(* cfoldcnst and geu, and comparisons of unsigned values with 0.             *)
Comparing(op, k, l, r) ==
    LET constant(p, v) == Tree("RIGHT", "I", inttype, root(p), cnsttree(inttype, v))
        plain == Tree(op, k, inttype, l, r)
        zero(p) == isC(p, "U") /\ p.v = 0
    IN  CASE k = "U" /\ op \in {"GE", "LT"} /\ zero(r) -> constant(l, Truth(op = "GE"))
          [] k = "U" /\ op \in {"LE", "GT"} /\ zero(l) -> constant(r, Truth(op = "LE"))
          [] isC(l, k) /\ isC(r, k) -> cnsttree(inttype, Calculated(op, l.v, r.v))
          [] k = "U" /\ op \in {"GE", "LT"} /\ zero(l) -> eqtree(IF op = "GE" THEN "EQ" ELSE "NE", r, l)
          [] k = "U" /\ op \in {"LE", "GT"} /\ zero(r) -> eqtree(IF op = "LE" THEN "EQ" ELSE "NE", l, r)
          [] OTHER -> plain

(* Conversions of constants: what does not fit is left to the program, but     *)
(* where a constant is called for.                                          *)
Converting(op, ty, l) ==
    IF isC(l, IF op = "CVI" THEN "I" ELSE "U") /\ op # "CVP" /\ ty # "ptr" /\ (needconst \/ InLimits(l.v, ty))
    THEN cnsttree(ty, extend(l.v, ty))
    ELSE Tree(op, kind(ty), ty, l, Nil)

(* Sums of an address and distances.                                        *)
AddP(ty, l, r) ==
    LET near == InLimits(r.v, inttype)
        number(p) == p.op = "CNST" /\ p.k # "P"
    IN  CASE number(r) /\ r.v = 0 -> retype(l, ty)
          [] isaddrop(l) /\ number(r) /\ near -> addrtree(l, r.v)
          [] l.op = "ADD" /\ l.k = "P" /\ isaddrop(l.r) /\ number(r) /\ near ->
               simplify("ADD", "P", ty, l.l, addrtree(l.r, r.v))
          [] l.op \in {"ADD", "SUB"} /\ l.k = "I" /\ isC(l.r, "I") /\ isaddrop(r) ->
               simplify("ADD", "P", ty, l.l, simplify(l.op, "P", ty, r, l.r))
          [] l.op = "ADD" /\ l.k = "P" /\ l.r.op = "CNST" /\ r.op = "CNST" ->
               simplify("ADD", "P", ty, l.l, simplify("ADD", kind(l.r.ty), l.r.ty, l.r, r))
          [] l.op = "ADD" /\ l.k = "I" /\ l.r.op = "CNST" /\ r.op = "ADD" /\ r.k = "P" /\ r.r.op = "CNST" ->
               simplify("ADD", "P", ty, l.l, simplify("ADD", "P", ty, r.l,
                   simplify("ADD", kind(r.r.ty), r.r.ty, l.r, r.r)))
          [] l.op = "RIGHT" /\ l.r # Nil ->
               Tree("RIGHT", "P", ty, l.l, simplify("ADD", "P", ty, l.r, r))
          [] l.op = "RIGHT" /\ l.r = Nil -> Tree("RIGHT", "P", ty, simplify("ADD", "P", ty, l.l, r), Nil)
          [] OTHER -> Tree("ADD", "P", ty, l, r)

(* l - r                                                                    *)
SubP(ty, l, r) ==
    CASE r.op = "CNST" /\ r.k # "P" -> simplify("ADD", "P", ty, l, cnsttree(inttype, - r.v))
      [] isaddrop(l) /\ r.op = "ADD" /\ r.k = "I" /\ isC(r.r, "I") ->
           simplify("SUB", "P", ty, simplify("SUB", "P", ty, l, r.r), r.l)
      [] OTHER -> Tree("SUB", "P", ty, l, r)

(* Products with the constant in front: powers of 2, and sums.               *)
Multiplied(k, ty, l, r) ==
    CASE isC(l, "U") /\ k = "U" /\ ispow2(l.v) # 0 -> simplify("LSH", k, ty, r, cnsttree(inttype, ispow2(l.v)))
      [] isC(l, k) /\ isC(r, k) /\ Foldable("MUL", k, ty, l.v, r.v) -> cnsttree(ty, l.v * r.v)
      [] k = "I" /\ isC(l, k) /\ r.op \in {"ADD", "SUB"} /\ r.k = "I" /\ isC(r.r, "I") ->
           simplify(r.op, k, ty, simplify("MUL", k, ty, l, r.l),
                                 simplify("MUL", k, ty, l, r.r))
      [] k = "I" /\ isC(l, k) /\ ispow2(l.v) # 0 -> simplify("LSH", k, ty, r, cnsttree(inttype, ispow2(l.v)))
      [] OTHER -> Tree("MUL", k, ty, l, r)

(* Division and remainder.                                                  *)
Divided(op, k, ty, l, r) ==
    CASE op = "MOD" /\ k = "I" /\ isC(r, k) /\ r.v = 1 -> Tree("RIGHT", k, ty, root(l), cnsttree(ty, 0))
      [] k = "U" /\ isC(r, k) /\ ispow2(r.v) # 0 ->
           IF op = "DIV" THEN simplify("RSH", k, ty, l, cnsttree(inttype, ispow2(r.v)))
           ELSE bittree("BAND", l, cnsttree(ty, r.v - 1))
      [] isC(l, k) /\ isC(r, k) /\ Foldable(op, k, ty, l.v, r.v) -> cnsttree(ty, Calculated(op, l.v, r.v))
      [] OTHER -> Tree(op, k, ty, l, r)

(* The count of a shift is an int whatever is shifted.                        *)
Right(op, k) == IF op \in {"LSH", "RSH"} THEN "I" ELSE k

Simplified(op, k, ty, l, r) ==
    CASE op \in Comparisons -> Comparing(op, k, l, r)
      [] op \in {"CVI", "CVU", "CVP"} -> Converting(op, ty, l)
      [] op = "AND" -> IF isC(l, "I") THEN (IF l.v # 0 THEN cond(r) ELSE l) ELSE Tree("AND", "", ty, l, r)
      [] op = "OR" -> IF isC(l, "I") THEN (IF l.v # 0 THEN cnsttree(ty, 1) ELSE cond(r)) ELSE Tree("OR", "", ty, l, r)
      [] op = "NOT" -> IF isC(l, "I") THEN cnsttree(ty, Truth(l.v = 0)) ELSE Tree("NOT", "", ty, l, Nil)
      [] op = "NEG" -> CASE isC(l, k) /\ (needconst \/ l.v # min(ty)) -> cnsttree(ty, - l.v)
                         [] l.op = "NEG" /\ l.k = k -> l.l
                         [] OTHER -> Tree(op, k, ty, l, Nil)
      [] op = "BCOM" -> CASE isC(l, k) -> cnsttree(ty, extend(-1 - l.v, ty))
                          [] l.op = "BCOM" /\ l.k = "U" -> l.l
                          [] OTHER -> Tree(op, k, ty, l, Nil)
      [] op = "ADD" /\ k = "P" -> AddP(ty, l, r)
      [] op = "SUB" /\ k = "P" -> SubP(ty, l, r)
      [] op = "MUL" -> Multiplied(k, ty, l, r)
      [] op \in DOMAIN Neutral /\ isC(r, Right(op, k)) /\ r.v = Neutral[op] -> l
      [] op \in {"DIV", "MOD"} -> Divided(op, k, ty, l, r)
      [] isC(l, k) /\ isC(r, Right(op, k)) /\ Foldable(op, k, ty, l.v, r.v) ->
           cnsttree(ty, Calculated(op, l.v, r.v))
      [] op = "BAND" /\ isC(r, k) /\ r.v = ones(ty) -> l
      [] op = "BAND" /\ isC(r, k) /\ r.v = 0 -> Tree("RIGHT", k, ty, root(l), cnsttree(ty, 0))
      [] OTHER -> Tree(op, k, ty, l, r)

(* A constant is put on the right, in a product on the left.                 *)
Swapped(op, l, r) ==
    \/ op \in Commuting /\ l.op = "CNST" /\ r.op # "CNST"
    \/ op = "MUL" /\ r.op = "CNST" /\ l.op # "CNST"
Ordered(swap, op, k, ty, l, r) == Simplified(op, k, ty, IF swap THEN r ELSE l, IF swap THEN l ELSE r)

-----------------------------------------------------------------------------
(* What the parser calls.                                                   *)

RECURSIVE rightkid(_)
rightkid(p) == IF p.op = "RIGHT" THEN rightkid(IF p.r # Nil THEN p.r ELSE p.l) ELSE p
Conditioned(p) == IF rightkid(p).op \in Logical THEN p ELSE eqtree("NE", p, cnsttree(inttype, 0))
Choice(ty, p, l, r) ==
    IF p.op = "CNST" THEN cast(IF p.v # 0 THEN l ELSE r, ty)
    ELSE Tree("COND", kind(ty), ty, cond(p), Tree("RIGHT", kind(ty), ty, cast(l, ty), cast(r, ty)))
condtree(p, l, r) == Choice(IF l.ty = "ptr" THEN "ptr" ELSE binary(l.ty, r.ty), p, l, r)
value(p) == IF rightkid(p).op \in Logical THEN condtree(p, cnsttree(inttype, 1), cnsttree(inttype, 0)) ELSE p

(* First to the type of the kind and full size, then across, then down.       *)
Widened(p) ==
    IF p.ty = "ptr" THEN simplify("CVP", "U", unsignedtype, p, Nil)
    ELSE IF bits(p.ty) < WordBits THEN simplify(IF kind(p.ty) = "I" THEN "CVI" ELSE "CVU", "I", inttype, p, Nil)
    ELSE p
super(ty) == IF kind(ty) = "I" THEN inttype ELSE unsignedtype
Across(p, ty) == IF kind(p.ty) # kind(ty) THEN simplify(IF kind(p.ty) = "I" THEN "CVI" ELSE "CVU", kind(ty), ty, p, Nil) ELSE p
Differs(p, ty) == kind(p.ty) # kind(ty) \/ bits(p.ty) # bits(ty)
Down(p, ty) ==
    IF Differs(p, ty)
    THEN simplify(IF kind(p.ty) = "I" THEN "CVI" ELSE "CVU", kind(ty), ty, p, Nil) ELSE p
Converted(p, ty) ==
    IF p.ty = ty THEN p
    ELSE retype(Down(IF Differs(p, ty) THEN Across(Widened(p), super(ty)) ELSE p, ty), ty)

optree(op, k, ty, l, r) ==
    CASE op = "cast" -> Converted(value(l), ty)
      [] op = "cond" -> Conditioned(l)
      [] OTHER -> Ordered(Swapped(op, l, r), op, k, ty, l, r)

Shift(ty, op, l, r) == simplify(op, kind(ty), ty, cast(l, ty), cast(r, inttype))
shtree(op, l, r) == Shift(promote(l.ty), op, l, r)
Scaled(p) == multree("MUL", cnsttree(inttype, ElementSize), cast(p, promote(p.ty)))

Distance(p, at) == simplify("ADD", "P", "ptr", Scaled(p), at)
addtree(l, r) ==
    IF "ptr" \notin {l.ty, r.ty} THEN Arith("ADD", l, r)
    ELSE Distance(IF l.ty = "ptr" THEN r ELSE l, IF l.ty = "ptr" THEN l ELSE r)
Between(l, r) == simplify("SUB", "U", unsignedtype, cast(l, unsignedtype), cast(r, unsignedtype))
subtree(l, r) ==
    IF l.ty # "ptr" THEN Arith("SUB", l, r)
    ELSE IF r.ty # "ptr" THEN simplify("SUB", "P", "ptr", l, Scaled(r))
    ELSE simplify("DIV", "I", inttype, cast(Between(l, r), inttype), cnsttree(inttype, ElementSize))
andtree(op, l, r) == simplify(op, "", inttype, cond(l), cond(r))

Minus(ty, p) ==
    IF kind(ty) = "U"
    THEN simplify("ADD", "U", ty, simplify("BCOM", "U", ty, p, Nil), cnsttree(ty, 1))
    ELSE simplify("NEG", "I", ty, p, Nil)
Negated(p) == Minus(promote(p.ty), cast(p, promote(p.ty)))
Complemented(p) == simplify("BCOM", kind(promote(p.ty)), promote(p.ty), cast(p, promote(p.ty)), Nil)

(* An expression is read into a number, a variable, a call, the address of an  *)
(* element, or operators.                                                   *)
Leaf(op, ty, v) == [Tree(op, kind(ty), ty, Nil, Nil) EXCEPT !.v = v]
Operated1(x, p) ==
    CASE x.op = "cast" -> cast(p, x.ty)
      [] x.op = "+" -> cast(p, promote(p.ty))
      [] x.op = "-" -> Negated(p)
      [] x.op = "~" -> Complemented(p)
      [] x.op = "!" -> simplify("NOT", "", inttype, cond(p), Nil)
Operated2(op, l, r) ==
    CASE op = "ADD" -> addtree(l, r)
      [] op = "SUB" -> subtree(l, r)
      [] op \in {"MUL", "DIV"} -> multree(op, l, r)
      [] op \in {"MOD", "BAND", "BOR", "BXOR"} -> bittree(op, l, r)
      [] op \in {"LSH", "RSH"} -> shtree(op, l, r)
      [] op \in {"EQ", "NE"} -> eqtree(op, l, r)
      [] op \in {"LT", "LE", "GT", "GE"} -> cmptree(op, l, r)
      [] op \in {"AND", "OR"} -> andtree(op, l, r)

UnaryOps  == {"+", "-", "~", "!"}
RECURSIVE Read(_)
Read(x) ==
    CASE x.op = "CNST" -> cnsttree(x.ty, x.v)
      [] x.op \in {"INDIR", "CALL", "ADDR"} -> Leaf(x.op, x.ty, x.v)
      [] x.op \in UnaryOps \cup {"cast"} -> Operated1(x, Read(x.l))
      [] x.op = "?" -> condtree(Read(x.c), Read(x.l), Read(x.r))
      [] OTHER -> Operated2(x.op, Read(x.l), Read(x.r))

BinaryOps == {"ADD", "SUB", "MUL", "DIV", "MOD", "BAND", "BOR", "BXOR", "LSH", "RSH", "AND", "OR"} \cup Comparisons
Bin(op, a, b) == [op |-> op, l |-> a, r |-> b]
Un(op, a) == [op |-> op, l |-> a]
To(ty, a) == [op |-> "cast", ty |-> ty, l |-> a]
If(c, a, b) == [op |-> "?", c |-> c, l |-> a, r |-> b]

(* The types C gives: operands that have no meaning together are refused.       *)
RECURSIVE Typed(_)
Typed(x) ==
    CASE x.op \in {"CNST", "INDIR", "CALL", "ADDR", "cast"} -> x.ty
      [] x.op \in Logical \cup {"!"} -> inttype
      [] x.op \in UnaryOps \cup {"LSH", "RSH"} -> promote(Typed(x.l))
      [] OTHER -> LET l == Typed(x.l)
                      r == Typed(x.r)
                  IN  IF l = "ptr" /\ r = "ptr" /\ x.op = "SUB" THEN inttype
                      ELSE IF "ptr" \in {l, r} THEN "ptr" ELSE binary(l, r)
Fit(op, a, b) ==
    LET l == Typed(a)
        r == Typed(b)
    IN  CASE op \in {"AND", "OR"} \/ "ptr" \notin {l, r} -> TRUE
          [] op \in Comparisons -> l = r
          [] op = "ADD" -> l # r
          [] op = "SUB" -> l = "ptr"
          [] OTHER -> FALSE
RECURSIVE Leaves(_)
Leaves(x) == CASE x.op \in {"CNST", "INDIR", "CALL", "ADDR"} -> {x}
               [] x.op \in UnaryOps \cup {"cast"} -> Leaves(x.l)
               [] x.op = "?" -> Leaves(x.c) \cup Leaves(x.l) \cup Leaves(x.r)
               [] OTHER -> Leaves(x.l) \cup Leaves(x.r)

vars == << e, needconst, ops, tree >>

Init == e = Nil /\ ops = 0 /\ needconst \in BOOLEAN /\ tree = Nil

(* An operator is put to what has been read and to operands.                 *)
Larger(xs) ==
       {Bin(op, e, x) : x \in xs, op \in BinaryOps}
  \cup {Bin(op, x, e) : x \in xs, op \in BinaryOps}
  \cup {Un(op, e) : op \in UnaryOps}
  \cup {To(ty, e) : ty \in Types \ {"ptr"}}
  \cup {If(e, x, y) : x, y \in xs}
Meaningful(x) ==
    CASE x.op \in UnaryOps \cup {"cast"} -> Typed(x.l) # "ptr"
      [] x.op = "?" -> "ptr" \notin {Typed(x.l), Typed(x.r)}
      [] OTHER -> Fit(x.op, x.l, x.r)
Expressions ==
    IF e = Nil THEN Operands[1]
    ELSE IF Leaves(e) \subseteq UNION {Leaves(x) : x \in Operands[ops + 1]}
    THEN {x \in Larger(Operands[ops + 1]) : Meaningful(x)} ELSE {}

expr ==
    /\ ops < Len(Operands)
    /\ \E x \in Expressions :
         /\ needconst => \A y \in Leaves(x) : y.op = "CNST" /\ x.op # "?"
         /\ e' = x /\ tree' = value(Read(x))
    /\ ops' = IF e = Nil THEN ops ELSE ops + 1
    /\ UNCHANGED needconst
Next == expr
Spec == Init /\ [][Next]_vars
-----------------------------------------------------------------------------
(* What the program computes from a tree, and how many calls it makes.        *)
word(k) == IF k = "I" THEN inttype ELSE unsignedtype
Done(v, n) == [v |-> v, n |-> n]
Done1(p, l) ==
    Done(CASE p.op = "NEG" -> extend(- l.v, word(p.k))
           [] p.op = "BCOM" -> extend(-1 - l.v, word(p.k))
           [] p.op = "NOT" -> Truth(l.v = 0)
           [] OTHER -> extend(l.v, p.ty), l.n)
NoNumber(op, y) ==
    \/ op \in {"DIV", "MOD"} /\ y = 0
    \/ op \in {"LSH", "RSH"} /\ ~ Shifts(y, inttype)
Result(p, x, y) ==
    IF NoNumber(p.op, y) THEN 0
    ELSE extend(Calculated(p.op, x, y), IF p.op \in Comparisons THEN inttype ELSE word(p.k))
Done2(p, l, r) ==
    CASE p.op = "RIGHT" -> Done(IF p.r = Nil THEN l.v ELSE r.v, l.n + r.n)
      [] p.op \in {"AND", "OR"} ->
           IF (l.v # 0) = (p.op = "OR") THEN Done(Truth(l.v # 0), l.n) ELSE Done(Truth(r.v # 0), l.n + r.n)
      [] OTHER -> Done(Result(p, l.v, r.v), l.n + r.n)
After(c, a) == Done(a.v, c.n + a.n)

RECURSIVE Run(_, _)
Arm(p, c, env) == After(c, Run(IF c.v # 0 THEN p.r.l ELSE p.r.r, env))
Run(p, env) ==
    CASE p = Nil -> Done(0, 0)
      [] p.op = "CNST" -> Done(extend(p.v, word(p.k)), 0)
      [] p.op = "INDIR" -> Done(env[p.v], 0)
      [] p.op = "CALL" -> Done(env[p.v], 1)
      [] p.op = "ADDR" -> Done((Base + p.v) % 2 ^ WordBits, 0)
      [] p.op = "COND" -> Arm(p, Run(p.l, env), env)
      [] p.op \in {"CVI", "CVU", "CVP", "NEG", "BCOM", "NOT"} -> Done1(p, Run(p.l, env))
      [] OTHER -> Done2(p, Run(p.l, env), Run(p.r, env))

(* What C says of an expression: its type, its value if it has one, and the    *)
(* calls it makes.                                                          *)
Means(ty, v, def, n) == [ty |-> ty, v |-> v, def |-> def, n |-> n]
Promoted(a) == IF a.ty \in {"char", "uchar"} THEN [a EXCEPT !.ty = inttype] ELSE a
As(a, ty) == [a EXCEPT !.ty = ty, !.v = extend(@, ty)]
OfType(ty, v, def, n) == Means(ty, extend(v, ty), def /\ (kind(ty) = "I" => InLimits(v, ty)), n)
Common(tys) == IF unsignedtype \in tys THEN unsignedtype ELSE inttype

Of1(op, a) ==
    OfType(a.ty, CASE op = "+" -> a.v [] op = "-" -> - a.v [] op = "~" -> extend(-1 - a.v, a.ty), a.def, a.n)
Either(op, a, b) ==
    IF (a.v # 0) = (op = "OR") THEN Means(inttype, Truth(a.v # 0), a.def, a.n)
    ELSE Means(inttype, Truth(b.v # 0), a.def /\ b.def, a.n + b.n)
Chosen(c, a, b) ==
    [As(IF c.v # 0 THEN a ELSE b, IF "ptr" \in {a.ty, b.ty} THEN a.ty ELSE Common({a.ty, b.ty}))
        EXCEPT !.def = @ /\ c.def, !.n = @ + c.n]
(* Shifts have the type of what is shifted, and both values as they are.       *)
Shifted(op, a, b) ==
    IF Shifts(b.v, inttype) THEN OfType(a.ty, Calculated(op, a.v, b.v), a.def /\ b.def, a.n + b.n)
    ELSE Means(a.ty, 0, FALSE, a.n + b.n)
At(v, a, b) == Means("ptr", v, a.def /\ b.def /\ v \in Base .. Base + Elements * ElementSize, a.n + b.n)
Pointed(op, a, b) ==
    CASE op \in Comparisons -> Means(inttype, Calculated(op, a.v, b.v), a.def /\ b.def, a.n + b.n)
      [] a.ty = b.ty -> OfType(inttype, (a.v - b.v) \div ElementSize, a.def /\ b.def, a.n + b.n)
      [] op = "SUB" -> At(a.v - ElementSize * b.v, a, b)
      [] OTHER -> IF a.ty = "ptr" THEN At(a.v + ElementSize * b.v, a, b) ELSE At(b.v + ElementSize * a.v, a, b)
Numbers(op, a, b) ==
    IF op \in {"DIV", "MOD"} /\ b.v = 0 THEN Means(a.ty, 0, FALSE, a.n + b.n)
    ELSE OfType(IF op \in Comparisons THEN inttype ELSE a.ty, Calculated(op, a.v, b.v),
                a.def /\ b.def /\ (op = "MOD" => divi(a.v, b.v, inttype)), a.n + b.n)
InCommon(op, a, b, ty) == Numbers(op, As(a, ty), As(b, ty))
Of2(op, a, b) ==
    CASE op \in {"LSH", "RSH"} -> Shifted(op, a, b)
      [] "ptr" \in {a.ty, b.ty} -> Pointed(op, a, b)
      [] OTHER -> InCommon(op, a, b, Common({a.ty, b.ty}))

RECURSIVE C(_, _)
C(x, env) ==
    CASE x.op = "CNST" -> Means(x.ty, x.v, TRUE, 0)
      [] x.op = "INDIR" -> Means(x.ty, env[x.v], TRUE, 0)
      [] x.op = "CALL" -> Means(x.ty, env[x.v], TRUE, 1)
      [] x.op = "ADDR" -> Means("ptr", Base + x.v, TRUE, 0)
      [] x.op = "cast" -> As(C(x.l, env), x.ty)
      [] x.op \in {"+", "-", "~"} -> Of1(x.op, Promoted(C(x.l, env)))
      [] x.op = "!" -> [C(x.l, env) EXCEPT !.ty = inttype, !.v = Truth(@ = 0)]
      [] x.op \in {"AND", "OR"} -> Either(x.op, C(x.l, env), C(x.r, env))
      [] x.op = "?" -> Chosen(C(x.c, env), Promoted(C(x.l, env)), Promoted(C(x.r, env)))
      [] OTHER -> Of2(x.op, Promoted(C(x.l, env)), Promoted(C(x.r, env)))

(* However an expression is folded and rearranged, the program computes what   *)
(* C says, wherever C says something, and makes the calls of the expression.   *)
Same(meant, got) == meant.def => got.v = meant.v /\ got.n = meant.n
FoldingKeepsValue ==
    e # Nil => \A env \in Envs : Same(C(e, env), Run(tree, env))
===============================================================================
