------------------------------- MODULE CppMacro -------------------------------
(***************************************************************************)
(* Macro expansion in the preprocessor (macro.c, hideset.c and the rows of    *)
(* tokens.c in src/lcc/cpp).  A tokenrow is the sequence of its tokens and    *)
(* the index tp of the current one; a hideset is the set of its names.       *)
(***************************************************************************)
EXTENDS CppText

CONSTANTS
    HSSIZ,    \* names a hideset has room for
    NARG,     \* arguments a call may have
    STRLEN,   \* characters # has room for
    Depth     \* bound: expansions of one row before it counts as endless

(* A token of a row: as scanned, with its hideset, and whether its white     *)
(* space was put there by makespace.                                        *)
Scanned(tok) ==
    [type |-> tok.type, t |-> tok.t, ws |-> tok.ws, hideset |-> {}, XPWS |-> FALSE]
NLToken  == Scanned([type |-> "NL", t |-> << "\n" >>, ws |-> FALSE])
ENDToken == Scanned([type |-> "END", t |-> << >>, ws |-> FALSE])
Row(s)   == LET toks == Tokens(s) IN [k \in 1 .. Len(toks) - 1 |-> Scanned(toks[k])]

(* A macro: its value, the names of its parameters if it has any.  np.ap is   *)
(* a sequence of length one around them, or empty.                          *)
Object(vp)       == [vp |-> vp, ap |-> << >>]
Function(ap, vp) == [vp |-> vp, ap |-> << ap >>]

Last1(row) == row[Len(row)]
TypeAt(row, i) == IF i \in DOMAIN row THEN row[i].type ELSE "none"

-----------------------------------------------------------------------------
(* Rows.                                                                    *)

wstab == {"NL", "SBRA", "SKET", "LP", "RP", "COMMA", "SEMIC", "CBRA", "CKET"}

(* Mutant of makespace: none is put there.                                   *)
makespaceNone(row, i) == row

(* White space in front of token i, where it might merge with the one before.*)
makespace(row, i) ==
    IF i \notin DOMAIN row THEN row
    ELSE LET apart == row[i].type \in wstab \/ TypeAt(row, i - 1) \in wstab
         IN  IF row[i].ws THEN [row EXCEPT ![i].ws = ~ (row[i].XPWS /\ apart)]
             ELSE IF apart THEN row
             ELSE [row EXCEPT ![i].ws = TRUE, ![i].XPWS = TRUE]

(* The ntok tokens from i on are replaced.                                  *)
insertrow(row, i, ntok, str) ==
    makespace(makespace(SubSeq(row, 1, i - 1) \o str \o SubSeq(row, i + ntok, Len(row)), i),
              i + Len(str))

normtokenrow(row) ==
    [k \in DOMAIN row |-> IF k = 1 THEN [row[k] EXCEPT !.ws = FALSE] ELSE row[k]]

(* Two rows differ.                                                         *)
comparetokens(row1, row2) ==
    \/ Len(row1) # Len(row2)
    \/ \E k \in DOMAIN row1 :
         \/ row1[k].type # row2[k].type \/ row1[k].t # row2[k].t
         \/ row1[k].ws # row2[k].ws

(* The hideset with one name more, if there is room for it.                 *)
newhideset(hs, np) ==
    IF np \in hs \/ Cardinality(hs) + 2 >= HSSIZ THEN hs ELSE hs \cup {np}
unionhideset(hs1, hs2) ==
    FoldLeft(newhideset, hs1, SetToSeq(hs2))

-----------------------------------------------------------------------------
(* The arguments of a call.  trp has the row, tp, what gettokens can still   *)
(* append (more, a sequence of rows; the end of the source behind them) and   *)
(* how many it has (taken), the errors so far, the expansions the bound       *)
(* leaves, and whether a fatal error has ended it all (dead).                *)

gettokens(trp) ==
    IF trp.more = << >> THEN [trp EXCEPT !.row = Append(@, ENDToken)]
    ELSE [trp EXCEPT !.row = @ \o Head(trp.more), !.more = Tail(@), !.taken = @ + 1]

(* Mutant of NoCall: the token behind the one that was found is lost as well. *)
NoCallFurther(trp, tp) == [trp |-> [trp EXCEPT !.tp = tp + 1], ntok |-> 0, args |-> << >>]

NoCall(trp, tp) == [trp |-> [trp EXCEPT !.tp = tp], ntok |-> 0, args |-> << >>]
Call(trp, ntok, args) == [trp |-> trp, ntok |-> ntok, args |-> << args >>]

Undo(trp) == [trp EXCEPT !.row = SubSeq(@, 1, Len(@) - 1)]

(* The place of the ( behind the name at tp, or of what is there instead:    *)
(* there gatherargs leaves tp, for it to be stepped over by expand.         *)
More(trp, i) == IF i > Len(trp.row) THEN gettokens(trp) ELSE trp
RECURSIVE FindParenthesis(_, _, _)
Parenthesis(got, name, i, more) ==
    IF more /\ Last1(got.row).type = "END" THEN NoCall(Undo(got), name)
    ELSE IF got.row[i].type = "LP" THEN Call(got, i, << >>)
    ELSE IF got.row[i].type # "NL" THEN NoCall(got, i)
    ELSE FindParenthesis(got, name, i + 1)
FindParenthesis(trp, name, i) == Parenthesis(More(trp, i), name, i, i > Len(trp.row))

(* The place behind the matching ), the newlines on the way taken out, or 0  *)
(* if the source ends first.                                                *)
Nesting(parens, type) == parens + (IF type = "LP" THEN 1 ELSE IF type = "RP" THEN -1 ELSE 0)
RECURSIVE FindEnd(_, _, _, _)
EndOrNext(got, i, parens, type, within) ==
    IF type = "END" THEN [trp |-> Undo(got), behind |-> 0, at |-> i]
    ELSE IF type = "NL"
    THEN FindEnd([got EXCEPT !.row = makespace(SubSeq(@, 1, i - 1) \o SubSeq(@, i + 1, Len(@)), i)], i, parens, TRUE)
    ELSE IF within = 0 THEN [trp |-> got, behind |-> i + 1, at |-> i]
    ELSE FindEnd(got, i + 1, within, FALSE)
EndAt(got, i, parens) == EndOrNext(got, i, parens, got.row[i].type, Nesting(parens, got.row[i].type))
Spaced(got, i, needspace) == [got EXCEPT !.row = IF needspace THEN makespace(@, i) ELSE @]
FindEnd(trp, i, parens, needspace) == EndAt(Spaced(More(trp, i), i, needspace), i, parens)

(* The arguments between from and the ) at to, cut at the commas outside of  *)
(* parentheses; none if the ) stands right behind a (.                       *)
RECURSIVE SplitArgs(_, _, _, _, _)
SplitAt(row, from, i, to, within) ==
    IF i = to THEN IF row[i - 1].type = "LP" THEN << >> ELSE << normtokenrow(SubSeq(row, from, i - 1)) >>
    ELSE IF row[i].type = "COMMA" /\ within = 0
    THEN << normtokenrow(SubSeq(row, from, i - 1)) >> \o SplitArgs(row, i + 1, i + 1, to, 0)
    ELSE SplitArgs(row, from, i + 1, to, within)
SplitArgs(row, from, i, to, parens) == SplitAt(row, from, i, to, Nesting(parens, row[i].type))

(* ## is not special in an argument.                                        *)
Hashed(row, from, to) ==
    [k \in DOMAIN row |-> IF k \in from .. to /\ row[k].type = "DSHARP"
                          THEN [row[k] EXCEPT !.type = "DSHARP1"] ELSE row[k]]

Error(trp) == [trp EXCEPT !.errors = @ + 1]
Dead(trp)  == [trp EXCEPT !.errors = @ + 1, !.left = 0, !.dead = TRUE]      \* a fatal error

WithArgs(trp, name, close, row, args) ==
    IF Len(args) >= NARG THEN Call(Dead(trp), 0, args)
    ELSE Call([trp EXCEPT !.tp = name, !.row = row], close - name + 1, args)
HashedArgs(trp, name, open, close, row) ==
    WithArgs(trp, name, close, row, SplitArgs(row, open + 1, open + 1, close, 0))
ArgsIn(found, name, open) ==
    IF found.behind = 0 THEN Call([Error(found.trp) EXCEPT !.tp = name], found.at - name, << >>)
    ELSE HashedArgs(found.trp, name, open, found.behind - 1,
                    Hashed(found.trp.row, open + 1, found.behind - 1))
ArgsOf(paren, name) ==
    IF paren.args = << >> THEN paren
    ELSE ArgsIn(FindEnd(paren.trp, paren.ntok + 1, 1, FALSE), name, paren.ntok)
gatherargs(trp) == ArgsOf(FindParenthesis(trp, trp.tp, trp.tp + 1), trp.tp)

-----------------------------------------------------------------------------
(* The value of a macro with the arguments put in.                          *)

(* The place of tok among the parameters, 0 if it is none.                  *)
lookuparg(np, tok) ==
    IF np.ap = << >> \/ tok.type # "NAME" THEN 0
    ELSE SelectInSeq(np.ap[1], LAMBDA par : par.t = tok.t)

Escaped(tok) ==
    IF tok.type \notin {"STRING", "CCON"} THEN tok.t
    ELSE FlattenSeq([k \in DOMAIN tok.t |->
                        IF tok.t[k] \in {"\"", "\\"} THEN << "\\", tok.t[k] >> ELSE << tok.t[k] >>])

(* # : the spelling, with the white space that was in the source, as far as  *)
(* there is room.                                                           *)
RECURSIVE Quoted(_, _, _)
Quoted(vp, k, s) ==
    IF k > Len(vp) THEN [t |-> s, fits |-> TRUE]
    ELSE IF Len(s) + 2 * Len(vp[k].t) >= STRLEN - 10 THEN [t |-> s, fits |-> FALSE]
    ELSE Quoted(vp, k + 1,
                s \o (IF vp[k].ws /\ ~ vp[k].XPWS THEN << " " >> ELSE << >>) \o Escaped(vp[k]))
AsString(quoted) ==
    [tok  |-> Scanned([type |-> "STRING", t |-> Append(quoted.t, "\""), ws |-> FALSE]), fits |-> quoted.fits]
stringify(vp) == AsString(Quoted(vp, 1, << "\"" >>))

(* ## : the two spellings are scanned as one; what does not make one token   *)
(* loses its rest, and a comment leaves the end of the source behind.        *)
RECURSIVE doconcat(_)
Past(trp) == [trp EXCEPT !.tp = @ + 1]
Merged(row, i) == << Scanned(Tokens(row[i - 1].t \o row[i + 1].t)[1]) >>
ConcatAt(trp, i, type) ==
    CASE type = "DSHARP1" -> Past([trp EXCEPT !.row[i].type = "DSHARP"])
      [] type # "DSHARP" -> Past(trp)
      [] i = 1 \/ i = Len(trp.row) -> Error(Past(trp))
      [] OTHER -> [trp EXCEPT !.row = insertrow(@, i - 1, 3, makespace(Merged(@, i), 1))]
doconcat(trp) ==
    IF trp.tp > Len(trp.row) THEN trp ELSE doconcat(ConcatAt(trp, trp.tp, trp.row[trp.tp].type))

-----------------------------------------------------------------------------
(* Expansion.  env has the macros, whether defined is an operator (inIf), and *)
(* what __LINE__ says.                                                      *)

Builtins == {"__LINE__", "__FILE__", "__DATE__", "__TIME__"}
Name(string) == [k \in 1 .. Len(string) |-> SubSeq(string, k, k)]
IsBuiltin(t) == \E b \in Builtins : t = Name(b)

Defined == Name("defined")

Digit(n) == SubSeq("0123456789", n + 1, n + 1)
RECURSIVE outnum(_)
outnum(n) == (IF n >= 10 THEN outnum(n \div 10) ELSE << >>) \o << Digit(n % 10) >>

builtin(env, tok) ==
    IF tok.t = Name("__LINE__") THEN [tok EXCEPT !.type = "NUMBER", !.t = outnum(env.line)]
    ELSE [tok EXCEPT !.type = "STRING", !.t = << "\"" >> \o tok.t \o << "\"" >>]

Expandable(env, tok) ==
    /\ tok.type = "NAME" /\ tok.t \notin tok.hideset
    /\ tok.t \in DOMAIN env.macros \/ IsBuiltin(tok.t)

(* What the operator defined is asked about is not expanded.                *)
AskedAt(trp, i) ==
    IF TypeAt(trp.row, i + 1) = "NAME" THEN i + 1
    ELSE IF /\ TypeAt(trp.row, i + 1) = "LP" /\ TypeAt(trp.row, i + 2) = "NAME"
            /\ TypeAt(trp.row, i + 3) = "RP" THEN i + 2 ELSE 0
Asked(marked, asked) == IF asked = 0 THEN Error(marked) ELSE [marked EXCEPT !.row[asked].type = "NAME1"]
AskDefined(trp) == Asked([trp EXCEPT !.row[trp.tp].type = "DEFINED", !.tp = @ + 1], AskedAt(trp, trp.tp))

Reading(row, more) ==
    [row |-> row, tp |-> 1, more |-> more, taken |-> 0, errors |-> 0, left |-> Depth, dead |-> FALSE]
Alone(trp, row) == [trp EXCEPT !.row = row, !.tp = 1, !.more = << >>]

(* The expansion is read again from its start.                              *)
Hidden(body, hs) ==
    [k \in DOMAIN body |->
        IF body[k].type # "NAME" THEN body[k]
        ELSE [body[k] EXCEPT !.hideset = IF @ = {} THEN hs ELSE unionhideset(@, hs)]]
Expansion(trp, name, ntokc, body) ==
    [trp EXCEPT !.row = insertrow(@, trp.tp, ntokc, Hidden(body, newhideset(trp.row[trp.tp].hideset, name)))]

RECURSIVE expandrow(_, _), substargs(_, _, _, _)

(* # and the parameter behind it; an argument as it stands, and expanded.      *)
Sharp(st, str) == [(IF str.fits THEN Past(st) ELSE Error(Past(st))) EXCEPT !.row = insertrow(@, st.tp, 2, << str.tok >>)]
PutArg(from, row, i, arg) == [from EXCEPT !.row = insertrow(row, i, 1, arg), !.tp = i + Len(arg)]
Full(st, expanded) == PutArg(expanded, st.row, st.tp, expanded.row)
Raw(st) == "DSHARP" \in {TypeAt(st.row, st.tp + 1), TypeAt(st.row, st.tp - 1)}
Substituted(env, st, args, sharp, argno) ==
    CASE st.row[st.tp].type = "SHARP" -> IF sharp = 0 THEN Error(Past(st)) ELSE Sharp(st, stringify(args[sharp]))
      [] argno = 0 -> Past(st)
      [] Raw(st) -> PutArg(st, st.row, st.tp, args[argno])
      [] OTHER -> Full(st, expandrow(env, Alone(st, args[argno])))
substargs(env, np, st, args) ==
    IF st.tp > Len(st.row) THEN st
    ELSE substargs(env, np,
                   Substituted(env, st, args,
                               IF st.tp < Len(st.row) THEN lookuparg(np, st.row[st.tp + 1]) ELSE 0,
                               lookuparg(np, st.row[st.tp])),
                   args)

Body(env, np, trp, args) == doconcat([substargs(env, np, Alone(trp, np.vp), args) EXCEPT !.tp = 1])
Replaced1(trp, name, ntok, body) ==
    Expansion([trp EXCEPT !.errors = body.errors, !.left = body.left, !.dead = body.dead], name, ntok, body.row)
Called(env, np, name, call) ==
    IF call.args = << >> THEN [call.trp EXCEPT !.tp = @ + 1]
    ELSE IF call.trp.dead THEN call.trp
    ELSE IF Len(call.args[1]) # Len(np.ap[1])
    THEN [Error(call.trp) EXCEPT !.row[call.trp.tp].hideset = newhideset(@, name), !.tp = @ + call.ntok]
    ELSE Replaced1(call.trp, name, call.ntok, Body(env, np, call.trp, call.args[1]))
ExpandMacro(env, trp, name, np) ==
    IF np.ap = << >> THEN Replaced1(trp, name, 1, doconcat(Alone(trp, np.vp)))
    ELSE Called(env, np, name, gatherargs(trp))
expand(env, trp) == ExpandMacro(env, trp, trp.row[trp.tp].t, env.macros[trp.row[trp.tp].t])

(* One token of a row is passed or replaced.                                 *)
ExpandAt(env, trp, tok) ==
    IF ~ Expandable(env, tok) THEN Past(trp)
    ELSE IF env.inIf /\ tok.t = Defined THEN AskDefined(trp)
    ELSE IF IsBuiltin(tok.t) THEN Past([trp EXCEPT !.row[trp.tp] = builtin(env, tok)])
    ELSE expand(env, [trp EXCEPT !.left = @ - 1])
expandrow(env, trp) ==
    IF trp.tp > Len(trp.row) \/ trp.left = 0 THEN trp
    ELSE expandrow(env, ExpandAt(env, trp, trp.row[trp.tp]))

-----------------------------------------------------------------------------
(* Definitions.  trp.tp is at the word define; a bad one leaves the macros.   *)

(* The parameters from place i on, up to the ).                             *)
RECURSIVE Parameters(_, _)
AlsoParameter(rest, tok) == [rest EXCEPT !.args = << tok >> \o @]
Parameters(row, i) ==
    IF row[i].type # "NAME" THEN [ok |-> FALSE, args |-> << >>, behind |-> i]
    ELSE IF row[i + 1].type = "RP" THEN [ok |-> TRUE, args |-> << row[i] >>, behind |-> i + 2]
    ELSE IF row[i + 1].type # "COMMA" THEN [ok |-> FALSE, args |-> << >>, behind |-> i]
    ELSE AlsoParameter(Parameters(row, i + 2), row[i])

Twice(args) == Cardinality({args[k].t : k \in DOMAIN args}) < Len(args)

(* A redefinition is an error and is done.                                  *)
ParametersOf(row, i, params) ==
    IF ~ params THEN [ok |-> TRUE, args |-> << >>, behind |-> i]
    ELSE IF TypeAt(row, i + 1) = "RP" THEN [ok |-> TRUE, args |-> << >>, behind |-> i + 2]
    ELSE Parameters(row, i + 1)
Value1(row, from) == normtokenrow(SubSeq(row, from, IF Last1(row).type = "NL" THEN Len(row) - 1 ELSE Len(row)))
Clashes(macros, name, np, args) ==
    /\ name \in DOMAIN macros
    /\ \/ comparetokens(np.vp, macros[name].vp)
       \/ (macros[name].ap = << >>) # (np.ap = << >>)
       \/ np.ap # << >> /\ comparetokens(args, macros[name].ap[1])
WithMacro(macros, name, np, args, twice) ==
    [macros |-> (name :> np) @@ macros,
     errors |-> (IF twice THEN 1 ELSE 0) + (IF Clashes(macros, name, np, args) THEN 1 ELSE 0)]
DefineWith(macros, row, name, params, list) ==
    IF ~ list.ok THEN [macros |-> macros, errors |-> 1]
    ELSE WithMacro(macros, name,
                   IF params THEN Function(normtokenrow(list.args), Value1(row, list.behind))
                   ELSE Object(Value1(row, list.behind)), list.args,
                   params /\ Twice(list.args))
Definable(row, i) ==
    TypeAt(row, i) = "NAME" /\ ~ IsBuiltin(row[i].t) /\ row[i].t \notin {Defined, Name("__STDC__")}
Parenthesized(row, i) == TypeAt(row, i) = "LP" /\ ~ row[i].ws
dodefine(macros, row, i) ==
    IF ~ Definable(row, i + 1) THEN [macros |-> macros, errors |-> 1]
    ELSE DefineWith(macros, row, row[i + 1].t, Parenthesized(row, i + 2),
                    ParametersOf(row, i + 2, Parenthesized(row, i + 2)))

(* -Dname, -Dname=value and -Uname, scanned with the end of the source.      *)
doadefine(macros, row, type) ==
    LET name == row[1].t
        to   == IF Last1(row).type = "END" THEN Len(row) - 1 ELSE Len(row)
    IN  IF type = "U"
        THEN IF Len(row) = 2 /\ row[1].type = "NAME"
             THEN << [n \in DOMAIN macros \ {name} |-> macros[n]] >> ELSE << >>
        ELSE IF TypeAt(row, 1) # "NAME" THEN << >>
        ELSE IF TypeAt(row, 2) \in {"none", "END"} THEN << (name :> Object(Row(<< "1" >>))) @@ macros >>
        ELSE IF row[2].type # "ASGN" THEN << >>
        ELSE << (name :> Object(normtokenrow(SubSeq(row, 3, to)))) @@ macros >>
===============================================================================
