----------------------------- MODULE SpacingPass -----------------------------
(* Spaces between Chinese and Latin, repeated marks and full-width digits              *)
(* (engine/scan/spacing.rs), repeated words (repetition.rs) and acronyms with spaces   *)
(* in them (acronym.rs).                                                               *)
EXTENDS Prose

Space == <<" ">>

IsBoundary(left, right) ==
    \/ left \in Ideographs /\ right \in Alnum
    \/ left \in Alnum /\ right \in Ideographs
CanOpenBoundary(c) == c \in Ideographs \cup Alnum

\* The first character from an offset on that is not a space.
NextSolid(t, i) == Min({Len(t)} \cup {j \in i..(Len(t) - 1): At(t, j) # " "})

MissingSpace(t, i) ==
    IF IsBoundary(At(t, i), At(t, i + 1)) THEN <<PunctIssue(i + 1, 0, Space, 1)>> ELSE <<>>

\* The span up to the next character must be free of excluded text, that character too.
StoredSpace(t, i) ==
    LET next == NextSolid(t, i + 1)
    IN  IF /\ At(t, i + 1) = " " /\ CanOpenBoundary(At(t, i)) /\ next < Len(t)
           /\ ~IsExcluded(t, i + 1, next + 1) /\ IsBoundary(At(t, i), At(t, next))
        THEN <<PunctIssue(i + 1, next - i - 1, <<>>, 1)>> ELSE <<>>

SpaceBeforeMark(t, i) ==
    LET next == NextSolid(t, i + 1)
    IN  IF /\ At(t, i) = " " /\ At(t, i - 1) # " " /\ CanOpenBoundary(At(t, i - 1))
           /\ At(t, next) \in FullWidth
        THEN <<PunctIssue(i, next - i, <<>>, 1)>> ELSE <<>>

SpaceAfterMark(t, i) ==
    LET next == NextSolid(t, i + 1)
    IN  IF At(t, i) \in FullWidth /\ At(t, i + 1) = " " /\ CanOpenBoundary(At(t, next))
        THEN <<PunctIssue(i + 1, next - i - 1, <<>>, 1)>> ELSE <<>>

\* How many times the mark at i repeats the ones before it; excluded ones do not count.
SameMarkRun(t, i) ==
    Cardinality({j \in 1..i: \A k \in j..i: ~IsMasked(t, k) /\ At(t, k) = At(t, i) /\ At(t, k - 1) = At(t, i)})

\* A bug the property would show: an ellipsis or a dash may not be doubled.
RepeatLimitOne(c) == 1

RepeatLimit(c) == IF c \in {"EL", "DASH"} THEN 2 ELSE 1

\* A repeated mark is looked at no further, a full-width digit neither.
CheckChar(t, i, cfg) ==
    LET repeats == IF At(t, i) \in FullWidth THEN SameMarkRun(t, i) ELSE 0
    IN  IF At(t, i) = "FD" THEN <<PunctIssue(i, 1, <<"1">>, 2)>>
        ELSE IF repeats > 0
        THEN IF repeats >= RepeatLimit(At(t, i)) THEN <<PunctIssue(i, 1, <<>>, 2)>> ELSE <<>>
        ELSE IF i + 1 = Len(t) \/ IsMasked(t, i + 1) THEN <<>>
        ELSE (IF cfg.policy = "require" THEN MissingSpace(t, i) ELSE StoredSpace(t, i))
                 \o SpaceBeforeMark(t, i) \o SpaceAfterMark(t, i)

ScanSpacing(t, cfg) ==
    FlattenSeq([k \in 1..Len(t) |-> IF IsMasked(t, k - 1) THEN <<>> ELSE CheckChar(t, k - 1, cfg)])

----------------------------------------------------------------------------
(* Repetitions *)

Repeats(t, i, unit) ==
    /\ i + 2 * unit <= Len(t)
    /\ \A k \in 0..(unit - 1): At(t, i + k) \in Ideographs /\ At(t, i + k) = At(t, i + unit + k)
    /\ unit = 1 => ~(At(t, i - 1) \in Ideographs /\ At(t, i + 2) \in Ideographs)

\* The longest unit wins. Short units are only reported; "zi" stands for the words that
\* are said twice and not reported.
CjkRepetitionStep(t, state, i) ==
    LET units == {u \in 1..3: Repeats(t, i, u)}
        unit == Max(units)
        next == i + 2 * unit
        whitelisted == unit = 1 /\ At(t, i) = "zi"
        suggestions == IF unit = 3 THEN <<Copied(t, i, i + 3)>> ELSE <<>>
    IN  IF i < state.next \/ units = {} THEN state
        ELSE [next |-> next,
              found |-> IF IsExcluded(t, i, next) \/ whitelisted THEN state.found
                        ELSE Append(state.found, RepetitionIssue(i, next, suggestions))]

ScanCjkDuplicates(t) ==
    FoldLeft(LAMBDA state, i: CjkRepetitionStep(t, state, i), [next |-> 0, found |-> <<>>],
             [k \in 1..Len(t) |-> k - 1]).found

Folded(c) == CASE c = "A" -> "a" [] OTHER -> c
SkipSpaces(t, i) == Min({Len(t)} \cup {j \in i..(Len(t) - 1): At(t, j) # " "})

\* Spaces and at most one line end between the two words; Len(t) + 1 when there is none.
SeparatorEnd(t, i) ==
    LET blank == SkipSpaces(t, i)
        broken == At(t, blank) = "nl"
        next == SkipSpaces(t, IF broken THEN blank + 1 ELSE blank)
    IN  IF (next = i) \/ At(t, next) = "nl" THEN Len(t) + 1 ELSE next

\* Where the word at i ends, and where the second copy of it starts.
WordEnd(t, i) == Min({Len(t)} \cup {j \in i..(Len(t) - 1): At(t, j) \notin Alnum})
LatinStep(t, state, i) ==
    LET end == WordEnd(t, i)
        second == SeparatorEnd(t, end)
        stop == second + end - i
        same == /\ end - i >= 3 /\ stop <= Len(t)
                /\ \A k \in 0..(end - i - 1): Folded(At(t, i + k)) = Folded(At(t, second + k))
                /\ At(t, stop) \notin Alnum \cup Ideographs \cup {"FD"}
    IN  IF i < state.next \/ At(t, i) \notin Alnum THEN state
        ELSE IF same
        THEN [next |-> stop,
              found |-> IF IsExcluded(t, i, stop) THEN state.found
                        ELSE Append(state.found, RepetitionIssue(i, stop, <<Copied(t, i, end)>>))]
        ELSE [state EXCEPT !.next = end]

ScanLatinDuplicates(t) ==
    FoldLeft(LAMBDA state, i: LatinStep(t, state, i), [next |-> 0, found |-> <<>>],
             [k \in 1..Len(t) |-> k - 1]).found

ScanRepetition(t) == ScanCjkDuplicates(t) \o ScanLatinDuplicates(t)

----------------------------------------------------------------------------
(* Acronyms: single capitals with one space between them *)

IsolatedUpper(t, i) == At(t, i) \in Upper /\ At(t, i - 1) \notin Letters /\ At(t, i + 1) \notin Letters
Continues(t, i) == At(t, i + 1) = " " /\ IsolatedUpper(t, i + 2)
KnownTwoLetter == {<<"A", "I">>}

\* The letters of the acronym whose first letter is at i.
LettersAt(t, i) ==
    LET more == {n \in 1..Len(t): \A k \in 0..(n - 1): Continues(t, i + 2 * k)}
    IN  [k \in 1..(Max({0} \cup more) + 1) |-> At(t, i + 2 * (k - 1))]
AcronymEnd(t, i) == i + 2 * Len(LettersAt(t, i)) - 1
IsAcronym(t, i) ==
    /\ IsolatedUpper(t, i)
    /\ ~(IsolatedUpper(t, i - 2) /\ At(t, i - 1) = " ")
    /\ Len(LettersAt(t, i)) >= 2
    /\ Len(LettersAt(t, i)) = 2 => LettersAt(t, i) \in KnownTwoLetter
    /\ ~IsExcluded(t, i, AcronymEnd(t, i))

ScanSpacedAcronyms(t) ==
    EachAt(t, {i \in 0..(Len(t) - 1): IsAcronym(t, i)},
           LAMBDA i: RepetitionIssue(i, AcronymEnd(t, i), <<LettersAt(t, i)>>))
=============================================================================
