------------------------------- MODULE MCDriver -------------------------------
(* Command lines for TLC: one to three files, and the options that disagree.  *)
EXTENDS Driver

Name(base, suf) == [dir |-> "", base |-> base, suffix |-> suf]
File(base, suf) == [kind |-> "file", name |-> Name(base, suf)]
Opt(letter)     == [kind |-> "option", opt |-> letter, to |-> "", sub |-> letter, text |-> letter]
To(part, s)     == [kind |-> "option", opt |-> "W", to |-> part, sub |-> s, text |-> s]
Out == [kind |-> "-o"]
Target == [kind |-> "-target"]

Lines ==
    {<< File("a", ".c"), File("b", ".c"), Opt("D"), [Opt("t") EXCEPT !.sub = "tempdir"], Opt("t") >>, << File("a", ".c"), File("a", ".c"), File("a", ".i") >>,
     << Out, File("x", ".asm"), File("a", ".c"), Opt("g") >>, << Out, File("x", ".asm"), File("a", ".c"), File("b", ".c") >>,
     << File("a", ".c"), Out, File("b", ".c") >>, << File("a", ".c"), Out >>, << File("a", ".i"), File("x", ".asm"), File("x", ".o"), File("x", ".o") >>,
     << Opt("E"), File("a", ".c"), File("a", ".i"), File("x", "") >>, << Opt("v"), Opt("v"), File("a", ".c"), File("x", "") >>,
     << Target, File("x", ""), To("o", "lccdir"), To("p", "q"), To("f", "q"), File("a", ".c"), Opt("N") >>,
     << Target, Opt("l"), To("a", "q"), To("l", "q"), To("o", "lcppdir"), To("o", "lrccdir"), To("o", "?"), Opt("S"), Opt("c"), File("b", ".c") >>,
     << Opt("p"), [Opt("B") EXCEPT !.text = ""], Opt("B"), Opt("O"), File("a", ".c") >>}
Files == {{Name("a", ".c"), Name("b", ".c"), Name("a", ".i"), Name("x", ".asm"), Name("x", ".o"), Name("x", "")},
          {Name("b", ".c"), Name("x", ".asm")}}
===============================================================================
