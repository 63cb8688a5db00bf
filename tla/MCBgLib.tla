------------------------------- MODULE MCBgLib --------------------------------
(***************************************************************************)
(* Calls of bg_lib for TLC.                                                 *)
(***************************************************************************)
EXTENDS BgLib

Array(keys) == [k \in DOMAIN keys |-> [key |-> keys[k], id |-> k]]

(* All arrays below the sizes at which the choice of the pivot changes, and  *)
(* long ones, in order, reversed, of few keys and of many.                  *)
Small  == UNION {[1 .. n -> 1 .. 3] : n \in 0 .. 6} \cup [1 .. 9 -> 1 .. 2]
          \cup {[k \in 1 .. 8 |-> (k * a) % m] : a \in 1 .. 7, m \in {3, 5, 11}}
Long   == {[k \in 1 .. n |-> (a * k * k + b * k) % m] :
              n \in {7, 8, 23, 40, 41, 57}, a \in 0 .. 2, b \in {-1, 1, 5},
              m \in {2, 7, 61}}
Arrays == {Array(keys) : keys \in Small \cup Long}

Moves ==
    {[fn |-> "memmove", mem |-> [x \in 0 .. 5 |-> x], dest |-> d, src |-> s, count |-> n] :
        d \in 0 .. 2, s \in 0 .. 2, n \in 0 .. 3}

AB == UNION {[1 .. n -> {"a", "b"}] : n \in 0 .. 3}
Searches == {[fn |-> "strstr", string |-> s, part |-> p] :
                s \in UNION {[1 .. n -> {"a", "b"}] : n \in 0 .. 4}, p \in AB}

Formats ==
    {<< "%" >> \o flags \o width \o << "d" >> :
        flags \in {<< >>, << "-" >>, << "0" >>, << "-", "0" >>, << "0", "-" >>},
        width \in {<< >>, << "1" >>, << "3" >>, << "1", "0" >>, << "4", ".", "2" >>}}
Ints   == {MinInt, MinInt + 1, -10, -9, -1, 0, 1, 7, 99, 100, 255}

Prints ==
    {[fn |-> "vsprintf", fmt |-> f, args |-> << n >>] : f \in Formats, n \in Ints}
    \cup {[fn |-> "vsprintf", fmt |-> f, args |-> << n, << "x", "y", "z" >>, 250 >>] :
             n \in {5, -5},
             f \in {<< "%", "i", ",", "%", "%", "%", "5", "s", "%", "f" >>,
                    << "%", "-", "d", "%", ".", "2", "s", "%", "6", ".", "1", "f" >>,
                    << "%", "0", "4", "d", "%", "s", "%", ".", "0", "f", "\n" >>}}
    \cup {[fn |-> "vsprintf", fmt |-> f, args |-> << "x" >>] :
             f \in {<< "%", "c", "!" >>, << "%", "q" >>, << "%", "3" >>, << "a", "%" >>}}

Text(numbers) ==
    FlattenSeq([k \in DOMAIN numbers |->
        (IF k > 1 THEN << "," >> ELSE << " " >>) \o AddInt(numbers[k], 0, {})])
Scans ==
    {[fn |-> "sscanf", string |-> Text(numbers), numbers |-> numbers,
      fmt |-> FlattenSeq([k \in 1 .. wanted |-> << "%", "d" >>])] :
        numbers \in UNION {[1 .. n -> {-12, 0, 5}] : n \in 1 .. 3}, wanted \in 1 .. 3}

Floats ==
    {[fn |-> "atof", string |-> s] :
        s \in UNION {[1 .. n -> {" ", "-", "+", ".", "1", "x"}] : n \in 0 .. 4}}

MCCalls ==
    {[fn |-> "qsort", array |-> a] : a \in Arrays}
    \cup Moves \cup Searches \cup Prints \cup Scans \cup Floats

(* What qsort, memmove and strstr give back is what C says.                   *)
SortsMovesFinds == QsortSorts /\ MemmoveMoves /\ StrstrFinds

(* What is printed of a number reads back as it, from the right arguments;    *)
(* the readers of numbers agree, and stop at the end of the text.            *)
NumbersKept == IntRoundTrip /\ ArgumentsUsed /\ AtofAgree /\ ScanEnds
===============================================================================
