-------------------------------- MODULE BgLib ---------------------------------
(***************************************************************************)
(* The C library of bytecode programs (src/example/bg_lib.c, of which         *)
(* src/test/bg_lib.c is a copy): one call of one                             *)
(* function is a step.  An array is a sequence of [key, id], compared by    *)
(* key.  A character is a string of length one, a string a sequence of      *)
(* them; behind its end is NUL, and what is further away is "wild".  A      *)
(* float is a decimal of two places, its hundredths an integer: that a      *)
(* binary fraction is inexact is left out.                                  *)
(***************************************************************************)
EXTENDS Integers, SequencesExt

CONSTANTS
    Calls,    \* the calls to make: records with the function as fn
    Modulus,  \* an int is one of so many values
    Room      \* bound: characters written before a loop counts as endless

ASSUME ModulusAssumption == Modulus \in Nat /\ Modulus > 20 /\ Modulus % 2 = 0

VARIABLES
    call,    \* the call
    result   \* what it returned: nothing yet, or a sequence of length one

NUL  == "NUL"

MinInt  == - (Modulus \div 2)
Wrap(n) == ((n - MinInt) % Modulus) + MinInt

-----------------------------------------------------------------------------
(* qsort: Bentley and McIlroy's, with its switch to insertion sort when a   *)
(* partition has swapped nothing.  An element is named by its index, an      *)
(* array of n elements begins at a.                                         *)

cmp(s, i, j)     == s[i].key - s[j].key
Swapped(s, i, j) == [s EXCEPT ![i] = s[j], ![j] = s[i]]

RECURSIVE Sink(_, _, _)
Sink(s, a, pl) ==
    IF pl > a /\ cmp(s, pl - 1, pl) > 0
    THEN Sink(Swapped(s, pl, pl - 1), a, pl - 1)
    ELSE s

InsertionSort(s, a, n) ==
    FoldLeft(LAMBDA t, pm : Sink(t, a, pm), s, [i \in 1 .. n - 1 |-> a + i])

med3(s, a, b, c) ==
    IF cmp(s, a, b) < 0
    THEN IF cmp(s, b, c) < 0 THEN b ELSE IF cmp(s, a, c) < 0 THEN c ELSE a
    ELSE IF cmp(s, b, c) > 0 THEN b ELSE IF cmp(s, a, c) < 0 THEN a ELSE c

(* The element the array is partitioned by.                                 *)
Pivot(s, a, n) ==
    LET middle == a + n \div 2
        last   == a + n - 1
        d      == n \div 8
    IN  IF n <= 7 THEN middle
        ELSE IF n <= 40 THEN med3(s, a, middle, last)
        ELSE med3(s, med3(s, a, a + d, a + 2 * d),
                     med3(s, middle - d, middle, middle + d),
                     med3(s, last - 2 * d, last - d, last))

(* The scan from the left keeps what equals the pivot below pa, the one     *)
(* from the right above pd.                                                 *)
RECURSIVE FromLeft(_), FromRight(_), Partition(_)
FromLeft(p) ==
    IF p.pb > p.pc \/ cmp(p.s, p.pb, p.a) > 0 THEN p
    ELSE FromLeft(IF cmp(p.s, p.pb, p.a) = 0
                  THEN [p EXCEPT !.s = Swapped(@, p.pa, p.pb), !.pa = @ + 1,
                                 !.pb = @ + 1, !.swap_cnt = 1]
                  ELSE [p EXCEPT !.pb = @ + 1])
FromRight(p) ==
    IF p.pb > p.pc \/ cmp(p.s, p.pc, p.a) < 0 THEN p
    ELSE FromRight(IF cmp(p.s, p.pc, p.a) = 0
                   THEN [p EXCEPT !.s = Swapped(@, p.pc, p.pd), !.pd = @ - 1,
                                  !.pc = @ - 1, !.swap_cnt = 1]
                   ELSE [p EXCEPT !.pc = @ - 1])
Partition(p) ==
    LET q == FromRight(FromLeft(p))
    IN  IF q.pb > q.pc THEN q
        ELSE Partition([q EXCEPT !.s = Swapped(@, q.pb, q.pc), !.pb = @ + 1,
                                 !.pc = @ - 1, !.swap_cnt = 1])

(* Mutant of vecswap: the blocks overlap by one.                            *)
vecswapShort(s, i, j, n) ==
    FoldLeft(LAMBDA t, k : Swapped(t, i + k - 1, j + k - 1), s, [k \in 1 .. n - 1 |-> k])

vecswap(s, i, j, n) ==
    FoldLeft(LAMBDA t, k : Swapped(t, i + k - 1, j + k - 1), s, [k \in 1 .. n |-> k])

Least(x, y) == IF x < y THEN x ELSE y

RECURSIVE qsort(_, _, _)
qsort(s, a, n) ==
    IF n < 7 THEN InsertionSort(s, a, n)
    ELSE LET p  == Partition([s |-> Swapped(s, a, Pivot(s, a, n)), a |-> a,
                              pa |-> a + 1, pb |-> a + 1, pc |-> a + n - 1,
                              pd |-> a + n - 1, swap_cnt |-> 0])
             pn == a + n
             r  == Least(p.pa - a, p.pb - p.pa)
             q  == Least(p.pd - p.pc, pn - p.pd - 1)
             t  == vecswap(vecswap(p.s, a, p.pb - r, r), p.pb, pn - q, q)
             below == p.pb - p.pa
             above == p.pd - p.pc
             u  == IF below > 1 THEN qsort(t, a, below) ELSE t
         IN  IF p.swap_cnt = 0 THEN InsertionSort(p.s, a, n)
             ELSE IF above > 1 THEN qsort(u, pn - above, above) ELSE u

-----------------------------------------------------------------------------
(* Memory and strings.                                                      *)

memmove(mem, dest, src, count) ==
    FoldLeft(LAMBDA m, i : [m EXCEPT ![dest + i] = m[src + i]], mem,
             [k \in 1 .. count |-> IF dest > src THEN count - k ELSE k - 1])

Char(string, k) ==
    IF k <= Len(string) THEN string[k] ELSE IF k = Len(string) + 1 THEN NUL ELSE "wild"

(* The first place from k on where string goes on with all of strCharSet, 0  *)
(* for none; at the end of the string there is no place to look at.         *)
RECURSIVE Matched(_, _, _), strstr(_, _, _)

Matched(string, k, strCharSet) ==
    IF strCharSet = << >> \/ Char(string, k) # Char(strCharSet, 1) THEN 0
    ELSE 1 + Matched(string, k + 1, Tail(strCharSet))
strstr(string, k, strCharSet) ==
    IF Char(string, k) = NUL THEN 0
    ELSE IF Matched(string, k, strCharSet) = Len(strCharSet) THEN k
    ELSE strstr(string, k + 1, strCharSet)

DigitValue ==
    ("0" :> 0) @@ ("1" :> 1) @@ ("2" :> 2) @@ ("3" :> 3) @@ ("4" :> 4) @@ ("5" :> 5)
        @@ ("6" :> 6) @@ ("7" :> 7) @@ ("8" :> 8) @@ ("9" :> 9)
IsDigit(c) == c \in DOMAIN DigitValue
Digit(n)   == CHOOSE c \in DOMAIN DigitValue : DigitValue[c] = n

(* Where a number starts behind blanks and a sign, and where its digits end.*)
RECURSIVE SkipBlanks(_, _), SkipDigits(_, _)
SkipBlanks(string, k) == IF Char(string, k) = " " THEN SkipBlanks(string, k + 1) ELSE k
SkipDigits(string, k) == IF IsDigit(Char(string, k)) THEN SkipDigits(string, k + 1) ELSE k
Sign(string, k)   == IF Char(string, k) = "-" THEN -1 ELSE 1
Behind(string, k) == IF Char(string, k) \in {"+", "-"} THEN k + 1 ELSE k

Decimal(string, from, to) ==
    FoldLeft(LAMBDA value, c : value * 10 + DigitValue[c], 0, SubSeq(string, from, to - 1))
Number(string, from, to) ==
    FoldLeft(LAMBDA value, c : Wrap(value * 10 + DigitValue[c]), 0,
             SubSeq(string, from, to - 1))

(* Mutant of _atoi: the character that ends the number is left.             *)
_atoiLeaving(string, k) ==
    LET first  == SkipBlanks(string, k)
        digits == Behind(string, first)
        end    == SkipDigits(string, digits)
    IN  IF Char(string, first) = NUL THEN [value |-> 0, next |-> k]
        ELSE [value |-> Wrap(Number(string, digits, end) * Sign(string, first)),
              next  |-> end]

(* _atoi(&string) from place k; atoi is the same from 1.  The character     *)
(* that ends the number is consumed too; blanks alone leave k where it was. *)
_atoi(string, k) ==
    LET first  == SkipBlanks(string, k)
        digits == Behind(string, first)
        end    == SkipDigits(string, digits)
    IN  IF Char(string, first) = NUL THEN [value |-> 0, next |-> k]
        ELSE [value |-> Wrap(Number(string, digits, end) * Sign(string, first)),
              next  |-> end + 1]

(* The hundredths of the fraction behind the point.                         *)
Fraction(string, k) ==
    LET end == SkipDigits(string, k)
    IN  [value |-> (IF end > k THEN 10 * DigitValue[string[k]] ELSE 0)
                   + (IF end > k + 1 THEN DigitValue[string[k + 1]] ELSE 0),
         next  |-> end + 1]

(* Whole digits, and the fraction if a point ends them.                     *)
Mixed(string, digits, sign) ==
    LET end      == SkipDigits(string, digits)
        whole    == 100 * Decimal(string, digits, end)
        fraction == Fraction(string, end + 1)
    IN  IF Char(string, end) = "."
        THEN [value |-> sign * (whole + fraction.value), next |-> fraction.next]
        ELSE [value |-> sign * whole, next |-> end + 1]

atof(string) ==
    LET first  == SkipBlanks(string, 1)
        digits == Behind(string, first)
    IN  IF Char(string, first) = NUL THEN 0
        ELSE IF Char(string, digits) = "."
        THEN Sign(string, first) * Fraction(string, digits + 1).value
        ELSE Mixed(string, digits, Sign(string, first)).value

(* _atof tests c for the point where nothing was read into it.              *)
_atof(string, k) ==
    LET first  == SkipBlanks(string, k)
        digits == Behind(string, first)
    IN  IF Char(string, first) = NUL THEN [value |-> 0, next |-> first]
        ELSE IF Char(string, digits) = "." THEN [value |-> 0, next |-> digits]
        ELSE Mixed(string, digits, Sign(string, first))

(* sscanf stores what it reads and returns 0.  Reading goes wild when a      *)
(* conversion starts behind the terminator.                                 *)
RECURSIVE sscanf(_, _, _)
sscanf(string, k, fmt) ==
    IF fmt = << >> THEN [stored |-> << >>, wild |-> FALSE]
    ELSE IF Head(fmt) # "%" THEN sscanf(string, k, Tail(fmt))
    ELSE IF k > Len(string) + 1 THEN [stored |-> << >>, wild |-> TRUE]
    ELSE LET one  == IF fmt[2] = "f" THEN _atof(string, k) ELSE _atoi(string, k)
             rest == sscanf(string, one.next, Tail(Tail(fmt)))
         IN  [rest EXCEPT !.stored = << one.value >> \o @]

-----------------------------------------------------------------------------
(* vsprintf.  A format is a string, the arguments a sequence.               *)

(* The digits of an int, least significant first, as / and % round towards  *)
(* zero; a negative digit, which only MinInt has, is no digit character.     *)
RECURSIVE Digits(_)
Digits(val) ==
    LET digit    == IF val >= 0 THEN val % 10 ELSE - ((- val) % 10)
        quotient == IF val >= 0 THEN val \div 10 ELSE - ((- val) \div 10)
    IN  << IF digit >= 0 THEN Digit(digit) ELSE "?" >>
            \o (IF quotient = 0 THEN << >> ELSE Digits(quotient))

Blanks(n, c) == [k \in 1 .. n |-> c]

(* Mutant of AddInt: the sign is not counted in the width.                  *)
AddIntSignApart(val, width, flags) ==
    LET text == Digits(Wrap(IF val < 0 THEN - val ELSE val))
        pad  == IF "ZEROPAD" \in flags THEN "0" ELSE " "
        left == width - Len(text)
        sign == IF val < 0 THEN << "-" >> ELSE << >>
    IN  IF "LADJUST" \notin flags THEN Blanks(left, pad) \o sign \o Reverse(text)
        ELSE sign \o Reverse(text) \o Blanks(IF left >= 0 THEN left ELSE Room, pad)

(* Left adjusted, a number as wide as its field or wider: the loop tests     *)
(* width for zero, and runs on where it starts below.                       *)
AddInt(val, width, flags) ==
    LET text == Digits(Wrap(IF val < 0 THEN - val ELSE val))
                \o (IF val < 0 THEN << "-" >> ELSE << >>)
        pad  == IF "ZEROPAD" \in flags THEN "0" ELSE " "
        left == width - Len(text)
    IN  IF "LADJUST" \notin flags THEN Blanks(left, pad) \o Reverse(text)
        ELSE Reverse(text) \o Blanks(IF left >= 0 THEN left ELSE Room, pad)

AddFloat(fval, width, prec) ==
    LET positive == IF fval < 0 THEN - fval ELSE fval
        text     == Digits(positive \div 100) \o (IF fval < 0 THEN << "-" >> ELSE << >>)
        places   == IF prec < 0 THEN 6 ELSE prec
        place(k) == CASE k = 1 -> (positive \div 10) % 10
                      [] k = 2 -> positive % 10
                      [] OTHER -> 0
    IN  Blanks(width - Len(text), " ") \o Reverse(text)
        \o (IF places = 0 THEN << >>
            ELSE << "." >> \o [k \in 1 .. places |-> Digit(place(k))])

AddString(string, width, prec) ==
    LET size == IF prec < 0 THEN Len(string) ELSE Least(prec, Len(string))
    IN  SubSeq(string, 1, size) \o Blanks(width - size, " ")

(* A conversion behind its %: flags, width and precision, in any order, up   *)
(* to the character that says what to print.                                *)
RECURSIVE Conversion(_, _, _)
Conversion(fmt, k, conv) ==
    LET ch  == Char(fmt, k)
        end == SkipDigits(fmt, IF ch = "." THEN k + 1 ELSE k)
    IN  CASE ch = "-" -> Conversion(fmt, k + 1, [conv EXCEPT !.flags = @ \cup {"LADJUST"}])
          [] ch = "0" -> Conversion(fmt, k + 1, [conv EXCEPT !.flags = @ \cup {"ZEROPAD"}])
          [] ch = "." -> Conversion(fmt, end, [conv EXCEPT !.prec = Number(fmt, k + 1, end)])
          [] IsDigit(ch) /\ ch # "0" ->
                 Conversion(fmt, end, [conv EXCEPT !.width = Number(fmt, k, end)])
          [] OTHER -> [conv EXCEPT !.ch = ch, !.next = k + 1]

Fresh == [flags |-> {}, width |-> 0, prec |-> -1, ch |-> NUL, next |-> 0]

(* The text and the number of arguments used.  A format that ends in the     *)
(* middle of a conversion is read past its terminator.                      *)
RECURSIVE vsprintf(_, _, _)
vsprintf(fmt, k, args) ==
    IF Char(fmt, k) = NUL THEN [text |-> << >>, used |-> 0, wild |-> FALSE]
    ELSE IF fmt[k] # "%"
    THEN LET rest == vsprintf(fmt, k + 1, args)
         IN  [rest EXCEPT !.text = << fmt[k] >> \o @]
    ELSE LET conv  == Conversion(fmt, k + 1, Fresh)
             plain == conv.ch = "%"
         IN  IF conv.ch = NUL \/ (args = << >> /\ ~ plain)
             THEN [text |-> << >>, used |-> 0, wild |-> TRUE]
             ELSE LET out == CASE plain -> << "%" >>
                               [] conv.ch \in {"d", "i"} ->
                                      AddInt(args[1], conv.width, conv.flags)
                               [] conv.ch = "f" -> AddFloat(args[1], conv.width, conv.prec)
                               [] conv.ch = "s" -> AddString(args[1], conv.width, conv.prec)
                               [] OTHER -> << args[1] >>
                      n    == IF plain THEN 0 ELSE 1
                      rest == vsprintf(fmt, conv.next, SubSeq(args, n + 1, Len(args)))
                  IN  [rest EXCEPT !.text = out \o @, !.used = @ + n]

-----------------------------------------------------------------------------
(* The calls.                                                               *)

vars == << call, result >>

Init == call \in Calls /\ result = << >>

Does(fn) == result = << >> /\ call.fn = fn /\ UNCHANGED call

Qsort   == Does("qsort") /\ result' = << qsort(call.array, 1, Len(call.array)) >>
Memmove == Does("memmove") /\ result' = << memmove(call.mem, call.dest, call.src, call.count) >>
Strstr  == Does("strstr") /\ result' = << strstr(call.string, 1, call.part) >>
Sscanf  == Does("sscanf") /\ result' = << sscanf(call.string, 1, call.fmt) >>
Atof    == Does("atof") /\ result' = << atof(call.string) >>
Sprintf == Does("vsprintf") /\ result' = << vsprintf(call.fmt, 1, call.args) >>

Next == Qsort \/ Memmove \/ Strstr \/ Sscanf \/ Atof \/ Sprintf
Spec == Init /\ [][Next]_vars

Done(fn) == call.fn = fn /\ result # << >>
out      == result[1]

(* qsort returns the elements it was given in the order of cmp, however it   *)
(* divides them.                                                            *)
QsortSorts ==
    Done("qsort") =>
        /\ ToBag(out) = ToBag(call.array)
        /\ \A i \in 1 .. Len(out) - 1 : out[i].key <= out[i + 1].key

(* memmove copies overlapping regions as if all were read before any is      *)
(* written.                                                                 *)
MemmoveMoves ==
    Done("memmove") =>
        out = [x \in DOMAIN call.mem |->
                     IF x \in call.dest .. call.dest + call.count - 1
                     THEN call.mem[call.src + x - call.dest] ELSE call.mem[x]]

(* strstr finds the first occurrence, but the empty string in nothing.      *)
StrstrFinds ==
    Done("strstr") =>
        LET at(k) == \A i \in 1 .. Len(call.part) : Char(call.string, k + i - 1) = call.part[i]
        IN  IF call.string # << >> /\ \E k \in 1 .. Len(call.string) : at(k)
            THEN out > 0 /\ at(out) /\ \A k \in 1 .. out - 1 : ~ at(k)
            ELSE out = 0

(* An int printed by vsprintf and read back by sscanf is the same, in every  *)
(* width and with every flag, but for the least int and for a zero padded    *)
(* or left adjusted field: zeros are put in front of the sign and behind     *)
(* the number, and a number too wide for a left adjusted field never ends.   *)
IntRoundTrip ==
    (Done("vsprintf") /\ call.fmt[Len(call.fmt)] = "d" /\ Len(call.args) = 1
        /\ call.fmt[1] = "%") =>
        LET conv  == Conversion(call.fmt, 2, Fresh)
            value == call.args[1]
            wide  == Len(Digits(IF value < 0 THEN - value ELSE value))
                     + (IF value < 0 THEN 1 ELSE 0)
            left  == "LADJUST" \in conv.flags
            zeros == "ZEROPAD" \in conv.flags /\ conv.width > wide
            right == /\ sscanf(out.text, 1, << "%", "d" >>).stored = << value >>
                     /\ Len(out.text) = (IF conv.width > wide THEN conv.width ELSE wide)
        IN  right <=> /\ value # MinInt
                      /\ left => conv.width >= wide
                      /\ zeros => value >= 0 /\ (left => value = 0)

(* vsprintf takes one argument for every conversion but %%.                 *)
ArgumentsUsed ==
    (Done("vsprintf") /\ ~ out.wild) => out.used = Len(call.args)

(* atof and _atof read the same number, unless it starts with the point: of  *)
(* that _atof reads nothing.                                                *)
AtofAgree ==
    Done("atof") =>
        LET digits == Behind(call.string, SkipBlanks(call.string, 1))
            other  == _atof(call.string, 1)
        IN  IF Char(call.string, digits) = "." THEN other.value = 0 /\ other.next = digits
            ELSE other.value = out

(* sscanf stores the numbers of a text in order; asked for one more it      *)
(* reads behind the end of the text, the terminator having been consumed.   *)
ScanEnds ==
    Done("sscanf") =>
        LET wanted == Len(call.fmt) \div 2
            there  == Len(call.numbers)
        IN  /\ out.stored = SubSeq(call.numbers, 1, Least(wanted, there))
            /\ out.wild <=> wanted > there
=============================================================================
