-------------------------------- MODULE CppText -------------------------------
(***************************************************************************)
(* What C says of the text of a program: trigraphs are replaced, then folded *)
(* lines joined, then the longest token taken again and again, a comment     *)
(* being white space.  CppLex is shown to do the same; the modules above it  *)
(* use this one.                                                            *)
(***************************************************************************)
EXTENDS Integers, SequencesExt

Chars(string) == {SubSeq(string, i, i) : i \in 1 .. Len(string)}

C_ALPH  == Chars("abcdefghijklmnopqrstuvwxyzABCDEFGHIJKLMNOPQRSTUVWXYZ_")
C_NUM   == Chars("0123456789")
Blanks  == {" ", "\t"}

trigraphs ==
    ("=" :> "#") @@ ("(" :> "[") @@ ("/" :> "\\") @@ (")" :> "]") @@ ("'" :> "^")
        @@ ("<" :> "{") @@ ("!" :> "|") @@ (">" :> "}") @@ ("-" :> "~")

RECURSIVE Replaced(_), Joined(_)
Replaced(s) ==
    IF Len(s) < 3 THEN s
    ELSE IF s[1] = "?" /\ s[2] = "?" /\ s[3] \in DOMAIN trigraphs
    THEN << trigraphs[s[3]] >> \o Replaced(SubSeq(s, 4, Len(s)))
    ELSE << s[1] >> \o Replaced(Tail(s))
Joined(s) ==
    IF Len(s) < 2 THEN s
    ELSE IF s[1] = "\\" /\ s[2] = "\n" THEN Joined(Tail(Tail(s)))
    ELSE << s[1] >> \o Joined(Tail(s))

(* As far as a sentinel in the file.                                        *)
Before(s) ==
    LET n == SelectInSeq(s, LAMBDA x : x = "EOB") IN IF n = 0 THEN s ELSE SubSeq(s, 1, n - 1)

Punctuators ==
    {<< p >> : p \in Chars("[](),?:;{}~-+<>=!&|#%*^/.@\\")}
    \cup {<< p, p >> : p \in Chars("-+<>=&|#.")}
    \cup {<< p, "=" >> : p \in Chars("-+<>!&|%*^/")}
    \cup {<< "-", ">" >>, << ".", ".", "." >>, << "<", "<", "=" >>, << ">", ">", "=" >>}

RECURSIVE Run(_, _, _), Closing(_, _, _), InNumber(_, _), Comment(_, _), NextLine(_, _)
Run(s, k, chars) == IF k <= Len(s) /\ s[k] \in chars THEN Run(s, k + 1, chars) ELSE k
InNumber(s, k) ==
    IF k > Len(s) THEN k
    ELSE IF s[k] \in {"E", "e"} /\ k < Len(s) /\ s[k + 1] \in {"+", "-"} THEN InNumber(s, k + 2)
    ELSE IF s[k] \in (C_NUM \cup C_ALPH \cup {"."}) \ {"_"} THEN InNumber(s, k + 1)
    ELSE k
Closing(s, k, quote) ==
    IF k > Len(s) \/ s[k] \in {"\n", quote} THEN k
    ELSE Closing(s, IF s[k] = "\\" /\ k < Len(s) /\ s[k + 1] # "\n" THEN k + 2 ELSE k + 1, quote)
Comment(s, k) ==
    IF k >= Len(s) THEN Len(s) + 1
    ELSE IF s[k] = "*" /\ s[k + 1] = "/" THEN k + 2 ELSE Comment(s, k + 1)
NextLine(s, k) == IF k <= Len(s) /\ s[k] # "\n" THEN NextLine(s, k + 1) ELSE k

(* Where the token that starts at k ends.                                   *)
TokenEnd(s, k) ==
    LET at(i)     == IF i <= Len(s) THEN s[i] ELSE ""
        ended(q)  == LET n == Closing(s, q + 1, at(q)) IN IF at(n) = at(q) THEN n + 1 ELSE n
        fits(n)   == k + n - 1 <= Len(s) /\ SubSeq(s, k, k + n - 1) \in Punctuators
    IN  IF at(k) = "L" /\ at(k + 1) \in {"\"", "'"} THEN ended(k + 1)
        ELSE IF at(k) \in {"\"", "'"} THEN ended(k)
        ELSE IF at(k) \in C_ALPH THEN Run(s, k, C_ALPH \cup C_NUM)
        ELSE IF at(k) \in C_NUM THEN InNumber(s, k)
        ELSE IF at(k) = "." /\ at(k + 1) \in C_NUM THEN InNumber(s, k + 1)
        ELSE IF at(k) = "." /\ at(k + 1) = "." /\ at(k + 2) \in C_NUM THEN InNumber(s, k + 2)
        ELSE IF \E n \in 1 .. 3 : fits(n)
        THEN k + CHOOSE n \in 1 .. 3 : fits(n) /\ \A more \in n + 1 .. 3 : ~ fits(more)
        ELSE k + 1

Punctuation ==
    ("." :> "DOT") @@ ("..." :> "ELLIPS") @@ ("[" :> "SBRA") @@ ("]" :> "SKET") @@ ("(" :> "LP")
        @@ (")" :> "RP") @@ ("," :> "COMMA") @@ ("?" :> "QUEST") @@ (":" :> "COLON")
        @@ (";" :> "SEMIC") @@ ("{" :> "CBRA") @@ ("}" :> "CKET") @@ ("~" :> "TILDE")
        @@ ("-" :> "MINUS") @@ ("--" :> "MMINUS") @@ ("-=" :> "ASMINUS") @@ ("->" :> "ARROW")
        @@ ("+" :> "PLUS") @@ ("++" :> "PPLUS") @@ ("+=" :> "ASPLUS") @@ ("<" :> "LT")
        @@ ("<=" :> "LEQ") @@ ("<<" :> "LSH") @@ ("<<=" :> "ASLSH") @@ (">" :> "GT")
        @@ (">=" :> "GEQ") @@ (">>" :> "RSH") @@ (">>=" :> "ASRSH") @@ ("=" :> "ASGN")
        @@ ("==" :> "EQ") @@ ("!" :> "NOT") @@ ("!=" :> "NEQ") @@ ("&" :> "AND") @@ ("&&" :> "LAND")
        @@ ("&=" :> "ASAND") @@ ("|" :> "OR") @@ ("||" :> "LOR") @@ ("|=" :> "ASOR")
        @@ ("#" :> "SHARP") @@ ("##" :> "DSHARP") @@ ("%" :> "PCT") @@ ("%=" :> "ASPCT")
        @@ ("*" :> "STAR") @@ ("*=" :> "ASSTAR") @@ ("/" :> "SLASH") @@ ("/=" :> "ASSLASH")
        @@ ("^" :> "CIRC") @@ ("^=" :> "ASCIRC")

Spelling(t) == FoldLeft(LAMBDA x, y : x \o y, "", t)

First(t) == IF t[1] = "L" /\ Len(t) > 1 /\ t[2] \in {"\"", "'"} THEN t[2] ELSE t[1]
TypeIs(t, spelling, first) ==
    IF spelling \in DOMAIN Punctuation THEN Punctuation[spelling]
    ELSE IF first = "\"" THEN "STRING"
    ELSE IF first = "'" THEN "CCON"
    ELSE IF first \in C_ALPH THEN "NAME"
    ELSE IF first \in C_NUM \cup {"."} /\ t # << ".", "." >> THEN "NUMBER"
    ELSE "UNCLASS"
TypeOf(t) == TypeIs(t, Spelling(t), First(t))

Token(t, white) == [type |-> TypeOf(t), t |-> t, ws |-> white]

(* The spelling of the tokens, each with the white space in front of it; a   *)
(* string that its line ends is none.                                       *)
Torn(s, quote, next) ==
    /\ s[quote] \in {"\"", "'"} /\ next <= Len(s) /\ s[next] = "\n"
    /\ Closing(s, quote + 1, s[quote]) = next
RECURSIVE TokensFrom(_, _, _)
Taken(s, k, white, next) ==
    (IF Torn(s, IF k < Len(s) /\ s[k] = "L" THEN k + 1 ELSE k, next) THEN << >>
     ELSE << Token(SubSeq(s, k, next - 1), white) >>)
    \o TokensFrom(s, next, FALSE)
Begins(s, k, what) == k < Len(s) /\ SubSeq(s, k, k + 1) = what
TokensFrom(s, k, white) ==
    IF k > Len(s) THEN << [type |-> "END", t |-> << >>, ws |-> FALSE] >>
    ELSE IF s[k] = "\n" THEN << [type |-> "NL", t |-> << "\n" >>, ws |-> FALSE] >> \o TokensFrom(s, k + 1, FALSE)
    ELSE IF s[k] \in Blanks THEN TokensFrom(s, k + 1, TRUE)
    ELSE IF Begins(s, k, << "/", "*" >>) THEN TokensFrom(s, Comment(s, k + 2), TRUE)
    ELSE IF Begins(s, k, << "/", "/" >>) THEN TokensFrom(s, NextLine(s, k), TRUE)
    ELSE Taken(s, k, white, TokenEnd(s, k))

Tokens(s) == TokensFrom(s, 1, FALSE)
===============================================================================
