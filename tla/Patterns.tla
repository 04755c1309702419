------------------------------ MODULE Patterns ------------------------------
(* The stretches of a text that are left out of a scan for what they look like: an     *)
(* address, a path, a name after an at-sign, a term that is only spoken of             *)
(* (excluded.rs). Each pass is a regular expression: its matches are ranges of         *)
(* characters, counted from 1, and the ranges are in bytes.                            *)
EXTENDS Normalize, Ranges
LOCAL INSTANCE SequencesExt
LOCAL INSTANCE FiniteSetsExt

AsciiWord == {"a", "e", "x"}
Gaps == {" ", "newline", "open", "close"}
TermStops == {"open", "close", "stop", "newline"}
MaxTerm == 12
Backtrack == 50

\* A stretch without a gap, of one character at least.
Solid(t, i, j) == i <= j /\ j <= Len(t) /\ \A k \in i..j: t[k] \notin Gaps
SolidEnd(t, i) == Max({j \in i..Len(t): Solid(t, i, j)})
WordFrom(t, i) == Max({i - 1} \cup {j \in i..Len(t): \A k \in i..j: t[k] \in AsciiWord})

InBytes(t, match) ==
    [start |-> Offsets(t)[match.first - 1], end |-> Offsets(t)[match.last]]
Add(t, ranges, match) == Append(ranges, InBytes(t, match))

\* The matches of an expression, from left to right, none inside another; at[i] are those
\* that start at i.
FindIter(at) ==
    LET Next(found, i) ==
            IF at[i] = {} \/ (found # <<>> /\ i <= Last(found).last) THEN found
            ELSE Append(found, CHOOSE match \in at[i]: TRUE)
    IN  FoldLeftDomain(Next, <<>>, at)

SchemeAt(t, i) ==
    i + 2 <= Len(t) /\ t[i] = ":" /\ t[i + 1] = "/" /\ t[i + 2] = "/"
\* Every match that starts at a place, the place being where the scheme starts.
UrlAt(t, i) ==
    LET colon == WordFrom(t, i) + 1
    IN  IF SchemeAt(t, colon) /\ Solid(t, colon + 3, colon + 3)
        THEN {[first |-> i, last |-> SolidEnd(t, colon + 3)]} ELSE {}
PathAt(t, i) ==
    IF t[i] = "/" /\ Solid(t, i + 1, i + 1)
    THEN {[first |-> i, last |-> SolidEnd(t, i + 1)]} ELSE {}
MentionAt(t, i) ==
    IF t[i] = "@" /\ WordFrom(t, i + 1) > i
    THEN {[first |-> i, last |-> WordFrom(t, i + 1)]} ELSE {}
TermAt(t, i) ==
    {[first |-> i + 1, last |-> j - 2]: j \in
        {k \in (i + 3)..Min({Len(t), i + MaxTerm + 2}):
            /\ t[i] = "open" /\ t[k - 1] = "close" /\ t[k] = "label"
            /\ \A n \in (i + 1)..(k - 2): t[n] \notin TermStops}}

\* is_url_suffix: an address that reaches up to the path.
UrlReaches(t, i) ==
    \E k \in 1..(i - 1):
        /\ Offsets(t)[k - 1] >= Offsets(t)[i - 1] - Backtrack \/ Offsets(t)[i - 1] < Backtrack
        /\ SchemeAt(t, k) /\ Solid(t, k + 3, i - 1)

\* A bug the property would show: a path that holds an address is dropped for it.
AddPathKeeping(t, ranges, match) ==
    LET new == InBytes(t, match)
    IN  IF UrlReaches(t, match.first) \/ FoundByScan(new, ranges) THEN ranges
        ELSE Add(t, ranges, match)

\* The first range the path overlaps gives way when the path contains it.
AddPath(t, ranges, match) ==
    LET new == InBytes(t, match)
        hit == {k \in DOMAIN ranges: Overlap(new, ranges[k])}
        Takes(old) == new.start <= old.start /\ old.end <= new.end
    IN  IF UrlReaches(t, match.first) THEN ranges
        ELSE IF hit = {} THEN Add(t, ranges, match)
        ELSE IF Takes(ranges[Min(hit)]) THEN [ranges EXCEPT ![Min(hit)] = new]
        ELSE ranges

AddApart(t, ranges, match) ==
    IF FoundByScan(InBytes(t, match), ranges) THEN ranges ELSE Add(t, ranges, match)

\* The addresses, then the paths, the names and the terms.
BuildExcludedRanges(t) ==
    LET urls == FoldLeft(LAMBDA r, match: Add(t, r, match),
                         <<>>, FindIter([i \in DOMAIN t |-> UrlAt(t, i)]))
        paths == FoldLeft(LAMBDA r, match: AddPath(t, r, match),
                          urls, FindIter([i \in DOMAIN t |-> PathAt(t, i)]))
        mentions == FoldLeft(LAMBDA r, match: AddApart(t, r, match),
                             paths, FindIter([i \in DOMAIN t |-> MentionAt(t, i)]))
    IN  MergeRanges(FoldLeft(LAMBDA r, match: Add(t, r, match),
                             mentions, FindIter([i \in DOMAIN t |-> TermAt(t, i)])))
=============================================================================
