-------------------------------- MODULE CppLex --------------------------------
(***************************************************************************)
(* The scanner of the preprocessor (src/lcc/cpp/cpplex.c): gettokens cuts    *)
(* the next row of tokens out of a buffer that fillbuf refills in the middle *)
(* of anything, trigraphs and folded lines being closed up in the buffer     *)
(* under the scan.  A step is one turn of its inner loop.  read(2) returns   *)
(* as much as it likes.                                                      *)
(***************************************************************************)
EXTENDS CppText

CONSTANTS
    INS,     \* the size of the input buffer
    Texts    \* the files to read: sequences of characters, EOB one of them

VARIABLES
    text,    \* the file
    unread,  \* what read has not returned of it
    buf,     \* inb up to inl
    end,     \* what stands at inl: EOB, or EOFC after the end of the file
    ip,      \* the next character
    t,       \* where the token begins
    ws,      \* there was white space in front of it
    state,   \* of the automaton
    row,     \* the tokens of the row so far
    rows,    \* the rows before
    line, lineinc,
    phase,   \* scanning, between rows, done or dead
    start,   \* history: where the row began
    dropped  \* history: the scan has lost a character

input  == << text, unread, buf, end >>
token  == << t, ws, state >>
output == << row, rows, line, lineinc >>
vars   == << input, ip, token, output, phase, start, dropped >>

-----------------------------------------------------------------------------
(* The automaton.  An entry says where to go, or what to do with the token;  *)
(* @@ prefers its left side, as the table prefers its later lines.           *)

Go(s)            == << "go", s >>
Self(tok)        == << "S_SELF", tok >>      \* the character ends the token
SelfB(tok)       == << "S_SELFB", tok >>     \* the token ended before it
Act(a)           == << a, "" >>
On(chars, entry) == [c \in chars |-> entry]

(* An operator: its own token, and longer ones by the next character.        *)
Operator(tok, longer) == [other |-> SelfB(tok), on |-> longer]

Quoted(self, escape, quote, tok) ==
    [other |-> Go(self),
     on |-> On({quote}, Self(tok)) @@ On({"\\"}, Go(escape)) @@ On({"\n"}, Act("S_STNL"))
            @@ On({"EOFC"}, Act("S_EOFSTR"))]
Escaped(quoted) ==
    [other |-> Go(quoted), on |-> On({"\n"}, Act("S_STNL")) @@ On({"EOFC"}, Act("S_EOFSTR"))]

fsm ==
    [START |-> [other |-> Self("UNCLASS"),
                on |-> On({"L"}, Go("ST1")) @@ On(Blanks, Go("WS1")) @@ On(C_NUM, Go("NUM1"))
                       @@ On(C_ALPH, Go("ID1")) @@ On({"."}, Go("NUM3"))
                       @@ On({"\""}, Go("ST2")) @@ On({"'"}, Go("CC1")) @@ On({"/"}, Go("COM1"))
                       @@ On({"EOFC"}, Act("S_EOF")) @@ On({"\n"}, Act("S_NL"))
                       @@ On({"-"}, Go("MINUS1")) @@ On({"+"}, Go("PLUS1"))
                       @@ On({"<"}, Go("LT1")) @@ On({">"}, Go("GT1")) @@ On({"="}, Go("ASG1"))
                       @@ On({"!"}, Go("NOT1")) @@ On({"&"}, Go("AND1")) @@ On({"|"}, Go("OR1"))
                       @@ On({"#"}, Go("SHARP1")) @@ On({"%"}, Go("PCT1"))
                       @@ On({"*"}, Go("STAR1")) @@ On({"^"}, Go("CIRC1"))
                       @@ ("[" :> Self("SBRA")) @@ ("]" :> Self("SKET")) @@ ("(" :> Self("LP"))
                       @@ (")" :> Self("RP")) @@ ("," :> Self("COMMA")) @@ ("?" :> Self("QUEST"))
                       @@ (":" :> Self("COLON")) @@ (";" :> Self("SEMIC")) @@ ("{" :> Self("CBRA"))
                       @@ ("}" :> Self("CKET")) @@ ("~" :> Self("TILDE"))],
     NUM1  |-> [other |-> SelfB("NUMBER"),
                on |-> On({"_"}, SelfB("NUMBER")) @@ On({"E", "e"}, Go("NUM2"))
                       @@ On(C_NUM \cup C_ALPH \cup {"."}, Go("NUM1"))],
     NUM2  |-> [other |-> SelfB("NUMBER"),
                on |-> On({"_"}, SelfB("NUMBER")) @@ On({"+", "-"} \cup C_NUM \cup C_ALPH, Go("NUM1"))],
     NUM3  |-> Operator("DOT", On({"."}, Go("DOTS1")) @@ On(C_NUM, Go("NUM1"))),
     DOTS1 |-> Operator("UNCLASS", On(C_NUM, Go("NUM1")) @@ On({"."}, Self("ELLIPS"))),
     ID1   |-> Operator("NAME", On(C_ALPH \cup C_NUM, Go("ID1"))),
     ST1   |-> Operator("NAME", On(C_ALPH \cup C_NUM, Go("ID1")) @@ On({"\""}, Go("ST2"))
                                @@ On({"'"}, Go("CC1"))),
     ST2   |-> Quoted("ST2", "ST3", "\"", "STRING"),
     ST3   |-> Escaped("ST2"),
     CC1   |-> Quoted("CC1", "CC2", "'", "CCON"),
     CC2   |-> Escaped("CC1"),
     COM1  |-> Operator("SLASH", On({"="}, Self("ASSLASH")) @@ On({"*"}, Go("COM2"))
                                 @@ On({"/"}, Go("COM4"))),
     COM2  |-> [other |-> Go("COM2"),
                on |-> On({"\n"}, Act("S_COMNL")) @@ On({"*"}, Go("COM3")) @@ On({"EOFC"}, Act("S_EOFCOM"))],
     COM3  |-> [other |-> Go("COM2"),
                on |-> On({"\n"}, Act("S_COMNL")) @@ On({"*"}, Go("COM3")) @@ On({"/"}, Act("S_COMMENT"))],
     COM4  |-> [other |-> Go("COM4"), on |-> On({"\n"}, Act("S_NL")) @@ On({"EOFC"}, Act("S_EOFCOM"))],
     WS1   |-> [other |-> Act("S_WS"), on |-> On(Blanks, Go("WS1"))],
     MINUS1 |-> Operator("MINUS", ("-" :> Self("MMINUS")) @@ ("=" :> Self("ASMINUS")) @@ (">" :> Self("ARROW"))),
     PLUS1 |-> Operator("PLUS", ("+" :> Self("PPLUS")) @@ ("=" :> Self("ASPLUS"))),
     LT1   |-> Operator("LT", ("<" :> Go("LT2")) @@ ("=" :> Self("LEQ"))),
     LT2   |-> Operator("LSH", "=" :> Self("ASLSH")),
     GT1   |-> Operator("GT", (">" :> Go("GT2")) @@ ("=" :> Self("GEQ"))),
     GT2   |-> Operator("RSH", "=" :> Self("ASRSH")),
     ASG1  |-> Operator("ASGN", "=" :> Self("EQ")),
     NOT1  |-> Operator("NOT", "=" :> Self("NEQ")),
     AND1  |-> Operator("AND", ("&" :> Self("LAND")) @@ ("=" :> Self("ASAND"))),
     OR1   |-> Operator("OR", ("|" :> Self("LOR")) @@ ("=" :> Self("ASOR"))),
     SHARP1 |-> Operator("SHARP", "#" :> Self("DSHARP")),
     PCT1  |-> Operator("PCT", "=" :> Self("ASPCT")),
     STAR1 |-> Operator("STAR", "=" :> Self("ASSTAR")),
     CIRC1 |-> Operator("CIRC", "=" :> Self("ASCIRC"))]

(* expandlex puts the end of the buffer into every state, and the end of the *)
(* file where the table has it take one more character.                      *)
bigfsm(c, s) ==
    LET entry == IF c \in DOMAIN fsm[s].on THEN fsm[s].on[c] ELSE fsm[s].other
    IN  IF c = "EOB" THEN Act("S_EOB")
        ELSE IF c = "EOFC" /\ entry[1] = "go" THEN Act("S_EOF")
        ELSE entry

-----------------------------------------------------------------------------
(* The buffer.                                                              *)

Peek(i) == IF i <= Len(buf) THEN buf[i] ELSE end
c       == Peek(ip)

Least(x, y) == IF x < y THEN x ELSE y

(* How much read may return, and what fillbuf does with it.  The sentinel    *)
(* standing in the file itself ends the file.                               *)
Reads == IF unread = << >> THEN {0} ELSE 1 .. Least(INS \div 8, Len(unread))

(* Mutant of fillbuf: the sentinel stays that of the buffer.                *)
fillbufEndless(behind, n) ==
    /\ buf' = behind \o SubSeq(unread, 1, n)
    /\ unread' = SubSeq(unread, n + 1, Len(unread))
    /\ end' = "EOB" /\ UNCHANGED text

fillbuf(behind, n) ==
    LET filled == behind \o SubSeq(unread, 1, n)
    IN  /\ buf' = IF ip <= Len(filled) /\ filled[ip] = "EOB"
                  THEN [filled EXCEPT ![ip] = "EOFC"] ELSE filled
        /\ unread' = SubSeq(unread, n + 1, Len(unread))
        /\ end' = IF n = 0 THEN "EOFC" ELSE "EOB"
        /\ UNCHANGED text

(* Mutant of Full: the buffer counts as full when nothing fits in it.        *)
FullLate == Len(buf) >= INS

Full == Len(buf) + INS \div 8 > INS

(* Mutant of Lookahead: one character for both.                             *)
LookaheadOne == 1

(* trigraph and foldline look ahead, and read for it.                       *)
Lookahead == IF c = "?" THEN 2 ELSE 1
Short     == c \in {"?", "\\"} /\ ip + Lookahead > Len(buf) /\ (end = "EOB" \/ Full)

IsTrigraph == c = "?" /\ Peek(ip + 1) = "?" /\ Peek(ip + 2) \in DOMAIN trigraphs
IsFolded   == c = "\\" /\ Peek(ip + 1) = "\n"

(* The character at ip is no longer to be looked at for what it starts.      *)
Plain == c \in {"?", "\\"} => ~ Short /\ ~ IsTrigraph /\ ~ IsFolded

Entry   == bigfsm(c, state)
Does(a) == phase = "scanning" /\ Plain /\ Entry[1] = a

-----------------------------------------------------------------------------
(* gettokens.                                                               *)

Init ==
    /\ text \in Texts /\ unread = text /\ buf = << >> /\ end = "EOB" /\ ip = 1
    /\ t = 1 /\ ws = FALSE /\ state = "START"
    /\ row = << >> /\ rows = << >> /\ line = 1 /\ lineinc = 0
    /\ phase = "between" /\ start = 1 /\ dropped = FALSE

Fresh(at) == t' = at /\ ws' = FALSE /\ state' = "START"

(* process asks for a row, the buffer being its own again; what is left in   *)
(* it is moved to its front near the end.                                   *)
NextRow ==
    /\ phase = "between"
    /\ rows' = IF row = << >> THEN rows ELSE Append(rows, row)
    /\ row' = << >> /\ line' = line + lineinc /\ lineinc' = 0
    /\ IF ip > Len(buf)
       THEN /\ \E n \in Reads :
                 /\ buf' = SubSeq(unread, 1, n)
                 /\ unread' = SubSeq(unread, n + 1, Len(unread))
                 /\ end' = IF n = 0 THEN "EOFC" ELSE "EOB"
            /\ ip' = 1 /\ UNCHANGED text
       ELSE IF ip - 1 >= (3 * INS) \div 4
       THEN buf' = SubSeq(buf, ip, Len(buf)) /\ ip' = 1 /\ UNCHANGED << text, unread, end >>
       ELSE UNCHANGED << input, ip >>
    /\ start' = ip' /\ Fresh(ip') /\ phase' = "scanning" /\ UNCHANGED dropped

(* A macro call goes on in the next line: gatherargs appends to the row.     *)
MoreTokens ==
    /\ phase = "between" /\ row # << >>
    /\ phase' = "scanning" /\ Fresh(ip)
    /\ UNCHANGED << input, ip, output, start, dropped >>

Advance ==
    /\ Does("go")
    /\ ip' = ip + 1 /\ state' = Entry[2]
    /\ UNCHANGED << input, t, ws, output, phase, start, dropped >>

Emit(tok, last) ==
    /\ row' = Append(row, [type |-> tok, t |-> SubSeq(buf, t, last), ws |-> ws])
    /\ ip' = last + 1 /\ Fresh(last + 1)
    /\ UNCHANGED << input, rows, line, lineinc, phase, start, dropped >>

EndsWith   == Does("S_SELF") /\ Emit(Entry[2], ip)
EndsBefore == Does("S_SELFB") /\ Emit(Entry[2], ip - 1)

White ==
    /\ Does("S_WS")
    /\ ws' = TRUE /\ t' = ip /\ state' = "START"
    /\ UNCHANGED << input, ip, output, phase, start, dropped >>

Refill ==
    /\ Does("S_EOB")
    /\ IF Full
       THEN phase' = "dead" /\ UNCHANGED << input, ip, token, output, start, dropped >>
       ELSE /\ \E n \in Reads : fillbuf(buf, n)
            /\ UNCHANGED << ip, token, output, phase, start, dropped >>

LookAhead ==
    /\ phase = "scanning" /\ Short
    /\ IF Full
       THEN phase' = "dead" /\ UNCHANGED << input, ip, token, output, start, dropped >>
       ELSE /\ \E n \in Reads : fillbuf(buf, n)
            /\ UNCHANGED << ip, token, output, phase, start, dropped >>

Trigraph ==
    /\ phase = "scanning" /\ ~ Short /\ IsTrigraph
    /\ buf' = SubSeq(buf, 1, ip - 1) \o << trigraphs[Peek(ip + 2)] >> \o SubSeq(buf, ip + 3, Len(buf))
    /\ UNCHANGED << text, unread, end, ip, token, output, phase, start, dropped >>

Fold ==
    /\ phase = "scanning" /\ ~ Short /\ IsFolded
    /\ buf' = SubSeq(buf, 1, ip - 1) \o SubSeq(buf, ip + 2, Len(buf))
    /\ lineinc' = lineinc + 1
    /\ UNCHANGED << text, unread, end, ip, token, row, rows, line, phase, start, dropped >>

(* What was scanned of a string that the line ends is lost.                 *)
Newline ==
    /\ Does("S_NL") \/ Does("S_STNL")
    /\ row' = Append(row, [type |-> "NL", t |-> << "\n" >>, ws |-> FALSE])
    /\ ip' = ip + 1 /\ lineinc' = lineinc + 1 /\ phase' = "between"
    /\ UNCHANGED << input, token, rows, line, start, dropped >>

CommentNewline ==
    /\ Does("S_COMNL")
    /\ lineinc' = lineinc + 1 /\ state' = "COM2"
    /\ IF ip >= (7 * INS) \div 8
       THEN /\ buf' = SubSeq(buf, 1, t - 1) \o SubSeq(buf, ip + 1, Len(buf))
            /\ ip' = t + 1 /\ dropped' = TRUE /\ UNCHANGED << text, unread, end >>
       ELSE ip' = ip + 1 /\ UNCHANGED << input, dropped >>
    /\ UNCHANGED << t, ws, row, rows, line, phase, start >>

CommentEnd ==
    /\ Does("S_COMMENT") \/ Does("S_EOFCOM")
    /\ ip' = IF Entry[1] = "S_COMMENT" THEN ip + 1 ELSE ip
    /\ t' = ip' /\ ws' = TRUE /\ state' = "START"
    /\ UNCHANGED << input, output, phase, start, dropped >>

EndOfFile ==
    /\ Does("S_EOF")
    /\ rows' = Append(rows, Append(row, [type |-> "END", t |-> << >>, ws |-> ws]))
    /\ row' = << >> /\ line' = line + lineinc /\ lineinc' = 0 /\ phase' = "done"
    /\ UNCHANGED << input, ip, token, start, dropped >>

EndInString ==
    /\ Does("S_EOFSTR") /\ phase' = "dead"
    /\ UNCHANGED << input, ip, token, output, start, dropped >>

Next ==
    \/ NextRow \/ MoreTokens \/ Advance \/ EndsWith \/ EndsBefore \/ White \/ Refill
    \/ LookAhead \/ Trigraph \/ Fold \/ Newline \/ CommentNewline \/ CommentEnd
    \/ EndOfFile \/ EndInString

Spec == Init /\ [][Next]_vars /\ WF_vars(Next)

Spelled ==
    LET all == FlattenSeq(rows)
    IN  [k \in DOMAIN all |-> IF all[k].type = "END" THEN [all[k] EXCEPT !.ws = FALSE] ELSE all[k]]

-----------------------------------------------------------------------------
(* Properties.                                                              *)

TypeOK ==
    /\ phase \in {"between", "scanning", "done", "dead"}
    /\ state \in DOMAIN fsm /\ end \in {"EOB", "EOFC"}
    /\ t <= ip /\ start <= t

(* The tokens are those of the text, whatever read returns at a time and     *)
(* wherever the buffer ends in a token, a trigraph, a folded line or a       *)
(* comment; but a comment that the buffer has no room for, so that gettokens *)
(* moves what follows under it, loses the character behind that newline.     *)
AsIfWhole ==
    (phase = "done" /\ ~ dropped) => Spelled = Tokens(Joined(Replaced(Before(text))))

(* Between rows the line number counts the newlines read: those of comments  *)
(* and folded lines too.                                                    *)
Newlines(s) == Len(SelectSeq(s, LAMBDA x : x = "\n"))
LinesCounted ==
    (phase = "between" /\ ~ dropped) =>
        line + lineinc = 1 + Newlines(text) - Newlines(unread) - Newlines(SubSeq(buf, ip, Len(buf)))

(* The buffer holds what fillbuf and the moves of gettokens put into it, the  *)
(* scan stays in it, and it counts as full only on a row longer than an      *)
(* eighth of it; the other way to give up is the end of the file in a string.*)
RowsFit ==
    /\ Len(buf) <= INS /\ ip <= Len(buf) + (IF dropped THEN 2 ELSE 1)
    /\ phase = "dead" => Entry[1] = "S_EOFSTR" \/ ip - start >= INS \div 8

(* Every file is read to its end, or the preprocessor gives up.              *)
EndsReading == <>(phase \in {"done", "dead"})
===============================================================================
