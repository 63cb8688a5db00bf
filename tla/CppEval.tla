-------------------------------- MODULE CppEval -------------------------------
(***************************************************************************)
(* The value of an #if line (src/lcc/cpp/eval.c): operands and operators are *)
(* kept on two stacks, and an operator is carried out when one of lower      *)
(* priority follows.  A value has a type: SGN, UNS, or UND where it has no    *)
(* value.                                                                   *)
(***************************************************************************)
EXTENDS CppText, Bitwise

CONSTANTS
    LongBits,      \* bits of a long
    UnsignedFrom   \* what tokval takes as 2^31

Modulus     == 2 ^ LongBits
Unsigned(n) == n % Modulus
Signed(n)   == ((n + Modulus \div 2) % Modulus) - Modulus \div 2

Value(n, type) == [val |-> Signed(n), type |-> type]

-----------------------------------------------------------------------------
(* Operands.                                                                *)

PlaceIn(string, ch) == CHOOSE i \in 1 .. Len(string) : SubSeq(string, i, i) = ch

Digits16 == "0123456789abcdef"
digit(ch) ==
    IF ch \in Chars(Digits16) THEN PlaceIn(Digits16, ch) - 1
    ELSE IF ch \in Chars("ABCDEF")
    THEN 9 + PlaceIn("ABCDEF", ch)
    ELSE -1

(* The digits from place k on, a bad one counted as what it would be.        *)
RECURSIVE Digits(_, _, _)
Shifted(d, base, rest) ==
    [n |-> Unsigned(d * rest.weight + rest.n), behind |-> rest.behind, weight |-> Unsigned(rest.weight * base)]
Digits(t, k, base) ==
    IF k > Len(t) \/ digit(t[k]) < 0 THEN [n |-> 0, behind |-> k, weight |-> 1]
    ELSE Shifted(digit(t[k]), base, Digits(t, k + 1, base))

SuffixChars == {"u", "U", "l", "L"}
Suffix(t, number) == SubSeq(t, number.behind, Run(t, number.behind, SuffixChars) - 1)
NumberIs(number, base, suffix) ==
    Value(number.n,
          IF (number.n >= UnsignedFrom /\ base # 10) \/ Range(suffix) \cap {"u", "U"} # {} THEN "UNS" ELSE "SGN")
Reads(t, base) == Digits(t, CASE base = 16 -> 3 [] base = 8 -> 2 [] OTHER -> 1, base)
InBase(t, base, number) == NumberIs(number, base, Suffix(t, number))
Base(t) == IF Len(t) > 1 /\ t[1] = "0" /\ t[2] \in {"x", "X"} THEN 16 ELSE IF t[1] = "0" THEN 8 ELSE 10
Number(t) == InBase(t, Base(t), Reads(t, Base(t)))

(* The codes of the characters a C program needs.                           *)
Coded == " !" \o "\"" \o "#$%&'()" \o "*+,-./0123456789:;<=>?" \o
         "@ABCDEFGHIJKLMNOPQRSTUVWXYZ[" \o "\\" \o "]^_"
Lower     == "abcdefghijklmnopqrstuvwxyz"
Code(ch)  == IF ch \in Chars(Lower) THEN 96 + PlaceIn(Lower, ch) ELSE 31 + PlaceIn(Coded, ch)
Escapes   == ("b" :> 8) @@ ("f" :> 12) @@ ("n" :> 10) @@ ("r" :> 13) @@ ("t" :> 9) @@ ("v" :> 11)
                 @@ ("'" :> 39) @@ ("\"" :> 34) @@ ("?" :> 63) @@ ("\\" :> 92)

(* Of several characters the first; of octal digits at most three.          *)
OctalBehind(t, k) == Run(t, k, Chars("01234567"))
OctalDigits(t, k) == SubSeq(t, k, IF OctalBehind(t, k) > k + 3 THEN k + 2 ELSE OctalBehind(t, k) - 1)
CharacterAt(t, k) ==
    IF t[k] = "'" THEN 0
    ELSE IF t[k] # "\\" THEN Code(t[k])
    ELSE IF digit(t[k + 1]) \in 0 .. 7 THEN Digits(OctalDigits(t, k + 1), 1, 8).n
    ELSE IF t[k + 1] = "x" THEN Digits(t, k + 2, 16).n
    ELSE IF t[k + 1] \in DOMAIN Escapes THEN Escapes[t[k + 1]] ELSE 0
Begun(t) == IF t[1] = "L" THEN 3 ELSE 2
Character(t) == CharacterAt(t, Begun(t))

(* What has a value, but is an error.                                       *)
Faulty(tok) ==
    \/ tok.type = "STRING"
    \/ tok.type = "NUMBER" /\ Run(tok.t, Reads(tok.t, Base(tok.t)).behind, SuffixChars) <= Len(tok.t)
    \/ tok.type = "CCON" /\ tok.t[Begun(tok.t)] = "'"

tokval(tok, defined) ==
    CASE tok.type = "NAME1"  -> Value(IF tok.t \in defined THEN 1 ELSE 0, "SGN")
      [] tok.type = "NUMBER" -> Number(tok.t)
      [] tok.type = "CCON"   -> Value(Character(tok.t), "SGN")
      [] OTHER               -> Value(0, "SGN")

-----------------------------------------------------------------------------
(* Operators.                                                               *)

Arithmetic == {"AND", "STAR", "PLUS", "MINUS", "SLASH", "PCT", "CIRC", "OR"}
Relations  == {"EQ", "NEQ", "LEQ", "GEQ", "LT", "GT"}
Shifts     == {"LSH", "RSH"}
Logic      == {"LAND", "LOR"}
Special    == {"QUEST", "COLON"}
Unary      == {"TILDE", "NOT", "DEFINED", "UMINUS"}
Binary     == Arithmetic \cup Relations \cup Shifts \cup Logic \cup Special \cup {"COMMA"}

priority ==
    [END |-> 0, LP |-> 3, RP |-> 3, COMMA |-> 4, QUEST |-> 5, COLON |-> 5, LOR |-> 6, LAND |-> 7,
     OR |-> 8, CIRC |-> 9, AND |-> 10, EQ |-> 11, NEQ |-> 11, LEQ |-> 12, GEQ |-> 12, LT |-> 12,
     GT |-> 12, LSH |-> 13, RSH |-> 13, PLUS |-> 14, MINUS |-> 14, STAR |-> 15, SLASH |-> 15,
     PCT |-> 15, TILDE |-> 16, NOT |-> 16, DEFINED |-> 16, UMINUS |-> 16]

Truth(b) == IF b THEN 1 ELSE 0
Quotient(a, b) ==      \* rounded towards zero
    LET q == (IF a < 0 THEN - a ELSE a) \div (IF b < 0 THEN - b ELSE b)
    IN  IF (a < 0) # (b < 0) THEN - q ELSE q

(* The arithmetic of two longs, unsigned or not.                            *)
Combined(oper, a, b, uns) ==
    LET x == IF uns THEN Unsigned(a) ELSE a
        y == IF uns THEN Unsigned(b) ELSE b
    IN  CASE oper = "EQ" -> Truth(a = b) [] oper = "NEQ" -> Truth(a # b)
          [] oper = "LEQ" -> Truth(x <= y) [] oper = "GEQ" -> Truth(x >= y)
          [] oper = "LT" -> Truth(x < y) [] oper = "GT" -> Truth(x > y)
          [] oper = "LSH" -> x * 2 ^ (b % LongBits)
          [] oper = "RSH" -> x \div 2 ^ (b % LongBits)
          [] oper = "STAR" -> a * b [] oper = "PLUS" -> a + b [] oper = "MINUS" -> a - b
          [] oper = "AND" -> Unsigned(a) & Unsigned(b)
          [] oper = "OR" -> Unsigned(a) | Unsigned(b)
          [] oper = "CIRC" -> Unsigned(a) ^^ Unsigned(b)
          [] oper = "SLASH" -> IF y = 0 THEN a ELSE Quotient(x, y)
          [] oper = "PCT" -> IF y = 0 THEN a ELSE x - y * Quotient(x, y)

Type2(oper, v1, v2) ==
    IF v1.type = "UND" \/ v2.type = "UND" \/ (oper \in {"SLASH", "PCT"} /\ v2.val = 0) THEN "UND"
    ELSE IF oper \in Relations THEN "SGN"
    ELSE IF oper \in Shifts THEN v1.type
    ELSE IF "UNS" \in {v1.type, v2.type} THEN "UNS" ELSE "SGN"

(* The left operand may settle it whatever the right one is.                *)
Logical(oper, v1, v2) ==
    IF v1.type = "UND" THEN v1
    ELSE IF (v1.val # 0) = (oper = "LOR") THEN Value(Truth(oper = "LOR"), "SGN")
    ELSE IF v2.type = "UND" THEN Value(v1.val, "UND")
    ELSE Value(Truth(v2.val # 0), "SGN")

Apply2(oper, v1, v2) ==
    IF oper \in Logic THEN Logical(oper, v1, v2)
    ELSE Value(Combined(oper, v1.val, v2.val,
                        IF oper \in Shifts THEN v1.type = "UNS" ELSE "UNS" \in {v1.type, v2.type}),
               Type2(oper, v1, v2))

Apply1(oper, v) ==
    CASE oper = "UMINUS" -> Value(- v.val, v.type)
      [] oper = "TILDE"  -> Value(- v.val - 1, v.type)
      [] oper = "NOT"    -> Value(Truth(v.val = 0), IF v.type = "UND" THEN "UND" ELSE "SGN")
      [] oper = "DEFINED" -> v

-----------------------------------------------------------------------------
(* The stacks.  st has vals, ops, whether an operand has just been read       *)
(* (rand), the errors, and whether eval has given up (over).                 *)

Top(s)      == s[Len(s)]
Less(s, n)  == SubSeq(s, 1, Len(s) - n)
GiveUp(st)  == [st EXCEPT !.over = TRUE, !.errors = @ + 1]
Silently(st) == [st EXCEPT !.over = TRUE]

(* ?: is carried out at its colon; without ? the colon is an error and its   *)
(* left operand the value.                                                  *)
Conditional(st, v1, v2, ops, vals) ==
    IF Top(ops) # "QUEST"
    THEN [st EXCEPT !.ops = ops, !.vals = Append(vals, Value(v1.val, "SGN")), !.errors = @ + 1]
    ELSE [st EXCEPT !.ops = Less(ops, 1),
                    !.vals = Append(Less(vals, 1), IF Top(vals).val = 0 THEN v2 ELSE v1)]

CarriedOut(st, oper, v1, v2) ==
    IF oper \in {"COMMA", "LP"} THEN Silently(st)
    ELSE IF oper = "QUEST" THEN GiveUp(st)
    ELSE IF oper = "COLON" THEN Conditional(st, v1, v2, Less(st.ops, 1), Less(st.vals, 2))
    ELSE [st EXCEPT !.ops = Less(@, 1), !.vals = Append(Less(@, 2), Apply2(oper, v1, v2))]
Carried(st) ==
    IF Top(st.ops) \in Unary
    THEN [st EXCEPT !.ops = Less(@, 1), !.vals = Append(Less(@, 1), Apply1(Top(st.ops), Top(@)))]
    ELSE CarriedOut(st, Top(st.ops), st.vals[Len(st.vals) - 1], Top(st.vals))

RECURSIVE evalop(_, _)
evalop(pri, st) ==
    IF st.over \/ pri >= priority[Top(st.ops)] THEN st ELSE evalop(pri, Carried(st))

Push(st, oper)    == [st EXCEPT !.ops = Append(@, oper), !.rand = FALSE]
Operated(done, type) == IF done.over THEN done ELSE Push(done, type)
Operate(st, type) == Operated(evalop(priority[type], st), type)
Closed(done) ==
    IF done.over THEN done
    ELSE IF Top(done.ops) # "LP" THEN GiveUp(done)
    ELSE [done EXCEPT !.ops = Less(@, 1)]
Close(st) == Closed(evalop(priority["RP"], st))

Scan(st, tok, defined) ==
    CASE st.over -> st
      [] tok.type \in {"NL", "WS"} -> st
      [] tok.type \in {"NAME", "NAME1", "NUMBER", "CCON", "STRING"} ->
           IF st.rand THEN GiveUp(st)
           ELSE [st EXCEPT !.vals = Append(@, tokval(tok, defined)), !.rand = TRUE,
                           !.errors = @ + Truth(Faulty(tok))]
      [] tok.type \in {"DEFINED", "TILDE", "NOT", "LP"} ->
           IF st.rand THEN GiveUp(st) ELSE Push(st, tok.type)
      [] tok.type \in {"PLUS", "MINUS", "STAR", "AND"} /\ ~ st.rand ->
           IF tok.type = "MINUS" THEN Push(st, "UMINUS")
           ELSE IF tok.type = "PLUS" THEN st ELSE GiveUp(st)
      [] tok.type \in Binary -> IF st.rand THEN Operate(st, tok.type) ELSE GiveUp(st)
      [] tok.type = "RP" -> IF st.rand THEN Close(st) ELSE GiveUp(st)
      [] OTHER -> GiveUp(st)

(* The value and the errors; a line that is given up is false.              *)
Finished(st) == IF st.over THEN st ELSE IF ~ st.rand THEN GiveUp(st) ELSE evalop(0, st)
Outcome(all) ==
    IF all.over THEN [val |-> 0, errors |-> all.errors]
    ELSE IF Len(all.ops) # 1 \/ Len(all.vals) # 1 THEN [val |-> 0, errors |-> all.errors + 1]
    ELSE [val |-> Top(all.vals).val, errors |-> all.errors + Truth(Top(all.vals).type = "UND")]
Evaluated(row, defined) ==
    Outcome(Finished(FoldLeft(LAMBDA s, tok : Scan(s, tok, defined),
                              [vals |-> << >>, ops |-> << "END" >>, rand |-> FALSE, errors |-> 0, over |-> FALSE],
                              row)))
===============================================================================
