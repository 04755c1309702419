----------------------------- MODULE Suppression -----------------------------
(* The comments that switch the checks off (suppression.rs). A mark is a "zhtw:" in a  *)
(* line: the comment opener before it, what stands before that, and the word after it, *)
(* to its end. A line is a range with the sequence of its marks.                       *)
EXTENDS Naturals, Sequences
LOCAL INSTANCE SequencesExt

NextLine == {"disable-next-line", "ignore-next-line", "disable-next", "ignore-next"}
BlockStart == {"disable-block", "ignore-block"}
BlockEnd == {"end-disable", "end-ignore", "enable"}
OwnLine == {"disable-line", "ignore-line", "disable", "ignore"}
Keywords == NextLine \cup BlockStart \cup BlockEnd \cup OwnLine

\* A slash after a letter, a colon or a slash belongs to an address, and a hash is a
\* comment at the start of a word only, in formats that have such comments.
OpensComment(mark, hash) ==
    \/ mark.opener = "<!--"
    \/ mark.opener = "//" /\ mark.before \notin {"letter", "colon", "slash"}
    \/ mark.opener = "#" /\ hash /\ mark.before \in {"start", "space"}

\* marker_of: the first mark of the line that is one. The whole word has to be known.
MarkerOf(marks, hash) ==
    LET markers == SelectSeq(marks, LAMBDA mark: OpensComment(mark, hash)
                                                   /\ mark.word \in Keywords)
    IN  IF markers = <<>> THEN "none" ELSE markers[1].word

Suppress(so_far, from, to) ==
    [so_far EXCEPT !.ranges = Append(@, [start |-> from, end |-> to])]

\* A bug the property would show: inside a block the other marks still mean something.
FollowEverywhere(so_far, word, k, lines) ==
    CASE so_far.block # <<>> /\ word \in BlockEnd ->
            [Suppress(so_far, so_far.block[1], lines[k].end) EXCEPT !.block = <<>>]
      [] word \in BlockStart -> [so_far EXCEPT !.block = <<lines[k].start>>]
      [] word \in OwnLine -> Suppress(so_far, lines[k].start, lines[k].end)
      [] word \in NextLine /\ k < Len(lines) ->
            Suppress(so_far, lines[k].end, lines[k + 1].end)
      [] OTHER -> so_far

\* Inside a block only the closing mark means anything.
Follow(so_far, word, k, lines) ==
    IF so_far.block # <<>>
    THEN IF word \in BlockEnd
         THEN [Suppress(so_far, so_far.block[1], lines[k].end) EXCEPT !.block = <<>>]
         ELSE so_far
    ELSE CASE word \in BlockStart -> [so_far EXCEPT !.block = <<lines[k].start>>]
           [] word \in OwnLine -> Suppress(so_far, lines[k].start, lines[k].end)
           [] word \in NextLine /\ k < Len(lines) ->
                Suppress(so_far, lines[k].end, lines[k + 1].end)
           [] OTHER -> so_far

\* A block that is never closed reaches to the end.
BuildSuppressionRanges(lines, hash) ==
    LET end == FoldLeftDomain(LAMBDA so_far, k:
                    Follow(so_far, MarkerOf(lines[k].marks, hash), k, lines),
                  [block |-> <<>>, ranges |-> <<>>], lines)
    IN  IF end.block = <<>> THEN end.ranges
        ELSE Suppress(end, end.block[1], lines[Len(lines)].end).ranges
=============================================================================
