------------------------------- MODULE Ranges -------------------------------
(* Half-open ranges of offsets: how many become few (merge_ranges_pub), and how a span *)
(* is looked up among them (is_excluded).                                              *)
EXTENDS Integers, Sequences, SequencesExt, FiniteSetsExt

Span(offset, length) == [start |-> offset, end |-> offset + length]
Overlap(a, b) == a.start < b.end /\ b.start < a.end

\* merge_ranges_pub: sorted by start, overlapping or touching ranges become one.
MergeRanges(ranges) ==
    LET Join(merged, range) ==
            IF merged # <<>> /\ range.start <= Last(merged).end
            THEN Append(Front(merged), [start |-> Last(merged).start,
                                        end |-> Max({Last(merged).end, range.end})])
            ELSE Append(merged, range)
    IN  FoldLeft(Join, <<>>, SortSeq(ranges, LAMBDA a, b: a.start < b.start))

\* A short list is searched from end to end, a long one by halving. The latter looks at
\* the last range that starts before the end of the span, and at no other.
ShortList == 10
FoundByScan(span, ranges) == \E k \in DOMAIN ranges: Overlap(span, ranges[k])
FoundByHalving(span, ranges) ==
    LET idx == Len(SelectSeq(ranges, LAMBDA range: range.start < span.end))
    IN  idx > 0 /\ span.start < ranges[idx].end
SpanIsExcluded(span, ranges) ==
    /\ span.start < span.end
    /\ IF Len(ranges) <= ShortList
       THEN FoundByScan(span, ranges) ELSE FoundByHalving(span, ranges)
=============================================================================
