---------------------------- MODULE MCTemplates -----------------------------
(* Templates for TLC: a page that extends a base, a second page, a menu     *)
(* that includes an item; the same with files of one content, with contents *)
(* that cannot be compiled, and a page that extends one that includes.      *)
EXTENDS Templates

Content(text, include, extends, blocks) ==
    [text |-> text, include |-> include, extends |-> extends, blocks |-> blocks]

Plain(text) == Content(text, None, None, {})
Base(text) == Content(text, None, None, {"title", "main"})
Including(text, n) == Content(text, n, None, {})
Extending(text, n, blocks) == Content(text, None, n, blocks)

Write(n, content) == [name |-> n, content |-> content]

Chain == [a |-> Including("a1", "b"), b |-> Including("b1", "c"), c |-> Plain("c1")]
Family == [a |-> Base("a1"), b |-> Extending("b1", "a", {"main"}),
           c |-> Extending("c1", "a", {"title"})]
Deep == [a |-> Base("a1"), b |-> Extending("b1", "a", {"main"}),
         c |-> Extending("c1", "b", {"main", "title"})]
Frame == [a |-> Content("a1", "c", None, {"main"}),
          b |-> Extending("b1", "a", {"main", "title"}), c |-> Content("c1", None, None, {"title"})]
Twins == [a |-> Including("a1", "b"), b |-> Plain("b1"), c |-> Plain("b1")]

Faults == {Plain("tag"), Plain("code"), Including("b3", "missing"), Including("b3", "b"),
           Including("b3", "a")}

AllWorlds ==
    {[files |-> Chain, edits |-> {Write("a", Including("a2", "c")), Write("b", Including("b2", "c")),
                                  Write("c", Plain("c2")), Write("b", Plain("b3"))}],
     [files |-> Family, edits |-> {Write("a", Base("a2")), Write("c", Plain("c2")),
                                   Write("b", Extending("b2", "a", {"title"}))}],
     [files |-> Deep, edits |-> {Write("a", Base("a2")), Write("b", Base("b2")),
                                 Write("c", Extending("c2", "a", {"main"}))}],
     [files |-> Twins, edits |-> {Write("b", Plain("b2")), Write("c", Plain("c2")),
                                  Write("a", Including("a2", "c"))}],
     [files |-> Frame, edits |-> {Write("a", Base("a2")), Write("c", Base("c2")),
                                  Write("b", Extending("b2", "a", {"title"})),
                                  Write("b", Extending("code", "a", {"title"}))}]}
    \cup {[files |-> Chain, edits |-> {Write("b", content), Write("b", Plain("b2")),
                                      Write("c", Plain("c2"))}] : content \in Faults}

AllWalks == {<<"a", "b", "c">>, <<"c", "b", "a">>, <<"b", "a", "c">>}
=============================================================================
