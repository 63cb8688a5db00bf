------------------------------ MODULE MCCppLex -------------------------------
(* What is asked of the scanner.                                            *)
EXTENDS CppLex

(* What the buffer does is not seen in the tokens and the line numbers, but   *)
(* for the lines that are too long for it.                                   *)
ReadsAsWhole == AsIfWhole /\ LinesCounted
===============================================================================
