------------------------------ MODULE MCConvert ------------------------------
(***************************************************************************)
(* Convert on all texts typed from a few characters each: the characters a *)
(* pass looks at, next to those that make it hold back.                    *)
(***************************************************************************)
EXTENDS Convert

Base == [punctuation |-> TRUE, colon |-> TRUE, dunhao |-> TRUE, range |-> TRUE,
         range_en_dash |-> FALSE, ellipsis |-> TRUE, quotes |-> TRUE, spacing |-> TRUE,
         policy |-> "require"]
Stripping == [Base EXCEPT !.policy = "strip", !.range_en_dash = TRUE, !.colon = FALSE]
MarksOff == [Base EXCEPT !.quotes = FALSE, !.spacing = FALSE]

\* convert runs three rounds in the widest fix mode; a linter run is one round, here run
\* up to three times in the narrowest.
Sheet(pieces, max, cfg, mode) ==
    [pieces |-> pieces, max |-> max, cfg |-> cfg, mode |-> mode, rounds |-> 3]
Chars(set) == {<<c>>: c \in set}
Converted(set, max) == Sheet(Chars(set), max, Base, 3)
Linted(set, max, cfg) == Sheet(Chars(set), max, cfg, 1)

MCSheets ==
    { Converted({"han", "a", "(", ")", "xparen"}, 5),
      Converted({"han", "1", "FC", ",", "!", "code", " "}, 4),
      Converted({"han", "A", "FD", "EL", ".", "FP", "~"}, 4),
      Converted({"han", "od", "cd", "L1", "R1"}, 5),
      Converted({"han", "a", "os", "cs", "dq", "xquote"}, 4),
      Converted({"han", "I", "A", " ", "-"}, 5),
      Converted({"zi", "han"}, 6),
      Linted({"han", "1", " ", "xspace", "FP"}, 4, Stripping),
      Linted({"han", "L1", "R1", "L2", "od"}, 4, MarksOff),
      Sheet({<<"od", "han">>, <<"han", "cd">>, <<"od">>, <<"cd">>, <<"nl", "nl">>}, 7, Base, 3) }

\* One sheet each for what the comments say and the code does not do.
NestedSheets ==
    {Sheet({<<"han">>, <<"od", "han">>, <<"a", "od", "1", "cd">>, <<"cd">>}, 8, Base, 3)}
HalfSheets == {Converted({"han", "1", "os", "cs", ","}, 5)}
DirectionSheets ==
    {Sheet({<<"cd", "a", " ", "a", "cd">>, <<"od", "han", "od">>, <<"cd", "han", "cd">>}, 11, Base, 3)}
FarSheets == {Converted({"han", "(", ")"}, 7)}
=============================================================================
