------------------------------- MODULE Markup -------------------------------
(* What of a document a scan looks at, and where what it finds is reported. A document *)
(* is typed token by token; after each token it is a document the program may be given *)
(* (Scanner::scan_nfc_with_content_type).                                              *)
(*                                                                                     *)
(* A scene says what may be typed and how the file is read. Every token is a piece of  *)
(* characters. Those of a "plain text" follow each other; those of the other content   *)
(* types are lines and parts of lines, and a line ends where the next one begins.      *)
EXTENDS LangScopes, SequencesExt, FiniteSetsExt, Functions, Ranges, Suppression, Markdown,
        Patterns

CONSTANTS
    Scenes,   \* [tokens, max, type, opts]
    TagOf,    \* the tags among the tokens
    MarkOf,   \* the suppression comments among them
    PieceOf   \* the characters of a piece

VARIABLES scene, document
vars == <<scene, document, scopeVars>>

MarkdownTypes == {"markdown", "markdown scan code"}

\* The same function, each value computed once.
Table(f) == <<>> @@ f

TagTokens == DOMAIN TagOf
MarkTokens == DOMAIN MarkOf

\* A mark says what Markdown takes it for, a line with a term that is spoken of is text.
KindOf(token) ==
    CASE token \in TagTokens -> "tag"
      [] token \in MarkTokens -> MarkOf[token].kind
      [] token = "term" -> "text"
      [] OTHER -> token
KindsOf(tokens) == Table([k \in DOMAIN tokens |-> KindOf(tokens[k])])

\* The end of a line belongs to its last token.
Written(k, kinds) ==
    IF scene.type # "plain text" /\ k < Len(document) /\ ~Continues(kinds, k + 1)
    THEN Append(PieceOf[document[k]], "newline") ELSE PieceOf[document[k]]
Characters ==
    LET kinds == KindsOf(document)
    IN  FlattenSeq([k \in DOMAIN document |-> Written(k, kinds)])
\* Where token k + 1 starts in the text, in bytes.
TokenStarts ==
    LET kinds == KindsOf(document)
        lengths == Table([k \in DOMAIN document |-> Length(Written(k, kinds))])
        off[k \in 0..Len(document)] == IF k = 0 THEN 0 ELSE off[k - 1] + lengths[k]
    IN  Table(off)

----------------------------------------------------------------------------
(* build_exclusions_for_content_type_with_options *)

MarksOf(tokens) ==
    LET marks == SelectSeq(tokens, LAMBDA token: token \in MarkTokens)
    IN  [i \in DOMAIN marks |-> MarkOf[marks[i]]]
LinesOf(tokens) ==
    LET typed == KindsOf(tokens)
        starts == SelectSeq([k \in DOMAIN tokens |-> k], LAMBDA k: ~Continues(typed, k))
        LastOf(n) == IF n = Len(starts) THEN Len(tokens) ELSE starts[n + 1] - 1
    IN  [n \in DOMAIN starts |->
            [start |-> starts[n] - 1, end |-> LastOf(n),
             marks |-> MarksOf(SubSeq(tokens, starts[n], LastOf(n)))]]

\* A hash starts a heading in Markdown.
HashComments(type) == type \notin MarkdownTypes

MdOptions(type, opts) ==
    IF type = "markdown scan code" THEN [opts EXCEPT !.scan_code_blocks = TRUE] ELSE opts

Structural(kinds) ==
    CASE scene.type \in MarkdownTypes ->
            BuildMarkdown(kinds, MdOptions(scene.type, scene.opts)) \o SetToSeq(Finish(at))
      [] scene.type = "yaml" -> BuildYaml(kinds)
      [] OTHER -> <<>>
WholeLines(kinds) ==
    BuildSuppressionRanges(LinesOf(document), HashComments(scene.type))
    \o (IF scene.type \in MarkdownTypes THEN CollectFrontmatter(kinds, {"dashes"}) ELSE <<>>)

\* Ranges of tokens become ranges of bytes, with or without the end of their last line.
OfLines(spans, starts) ==
    [n \in DOMAIN spans |->
        [start |-> starts[spans[n].start], end |-> starts[spans[n].end]]]
WithinLines(spans, starts) ==
    [n \in DOMAIN spans |->
        [start |-> starts[spans[n].start],
         end |-> starts[spans[n].end - 1] + Length(PieceOf[document[spans[n].end]])]]

MarkedRanges(kinds, starts) ==
    WithinLines(Structural(kinds), starts) \o OfLines(WholeLines(kinds), starts)

\* What looks like an address is left out of a document of any type.
Excluded(t, kinds, starts) ==
    MergeRanges(BuildExcludedRanges(t) \o MarkedRanges(kinds, starts))

----------------------------------------------------------------------------
(* scan_nfc_with_content_type *)

Info == 0
Error == 2

\* A finding is a "zi".
FindZi(t, excluded) ==
    LET offsets == Table(Offsets(t))
        at_zi == SelectSeq([i \in DOMAIN t |-> i],
                           LAMBDA i: /\ t[i] = "zi"
                                     /\ ~SpanIsExcluded(Span(offsets[i - 1], 3), excluded))
    IN  [k \in DOMAIN at_zi |-> offsets[at_zi[k] - 1]]

\* In Markdown it is two, of the lowest severity, the first one pinned to it by the
\* ruleset.
Findings(t, excluded) ==
    LET offsets == FindZi(t, excluded)
        Found(offset, pinned) ==
            [offset |-> offset, severity |-> Info, pinned |-> pinned,
             order |-> IF pinned THEN 1 ELSE 2]
    IN  FlattenSeq([i \in DOMAIN offsets |->
                        <<Found(offsets[i], TRUE), Found(offsets[i], FALSE)>>])

BoostHeadingSeverity(issues, headings) ==
    LET Inside(issue) == \E h \in DOMAIN headings:
                            headings[h].start <= issue.offset /\ issue.offset + 3 <= headings[h].end
    IN  [k \in DOMAIN issues |->
            IF issues[k].pinned \/ ~Inside(issues[k]) THEN issues[k]
            ELSE [issues[k] EXCEPT !.severity = IF @ = Error THEN Error ELSE @ + 1]]

Precedes(a, b) ==
    \/ a.offset < b.offset
    \/ a.offset = b.offset /\ a.severity > b.severity
    \/ a.offset = b.offset /\ a.severity = b.severity /\ a.order < b.order

Headings(kinds) == WithinLines(ExtractHeadings(kinds), TokenStarts)

\* A bug the property would show: the boost leaves the order as it was.
FinishUnsorted(issues, kinds) ==
    IF scene.opts.heading_severity_boost
    THEN BoostHeadingSeverity(issues, Headings(kinds)) ELSE issues

FinishMarkdown(issues, kinds) ==
    LET boosted == BoostHeadingSeverity(issues, Headings(kinds))
    IN  IF ~scene.opts.heading_severity_boost \/ boosted = issues THEN issues
        ELSE SortSeq(boosted, Precedes)

Reported(t, kinds, excluded) == FinishMarkdown(Findings(t, excluded), kinds)

\* The ranges of the caller are offsets of the text as written, all others of its composed
\* form, and what is found is reported as written.
CallerRanges(norm, t, caller) ==
    MapRangeForward(norm.map, [start |-> caller.start, end |-> Min({caller.end, Length(t)})])
ScanNfc(t, norm, built, caller) ==
    LET excluded == MergeRanges(built \o CallerRanges(norm, t, caller))
        found == FindZi(norm.text, excluded)
        starts == [k \in DOMAIN found |-> MapOffset(norm.map, found[k])]
        places == FillLineCol(t, starts)
    IN  [k \in DOMAIN found |->
            [start |-> starts[k], end |-> MapOffset(norm.map, found[k] + 3),
             line |-> places[k].line, col |-> places[k].col]]

----------------------------------------------------------------------------
(* Typing *)

\* What continues a line needs one.
CanFollow(token) ==
    KindOf(token) \in {"quotemark", "code", "tag", "tail"} =>
        /\ document # <<>>
        /\ KindOf(Last(document)) \in Prose \cup {"quote", "quote quote"}

\* The parser reports no tag inside a fence, and only Markdown is parsed.
IsHtml(token) ==
    token \in TagTokens /\ scene.type \in MarkdownTypes /\ ~InFence(KindsOf(document))

Type(token) ==
    /\ Len(document) < scene.max
    /\ scene.type # "plain text" => CanFollow(token)
    /\ document' = Append(document, token)
    /\ IF IsHtml(token) THEN Apply(TagOf[token]) ELSE Text
    /\ UNCHANGED scene

Init == scene \in Scenes /\ document = <<>> /\ ScopesInit
Next == \E token \in scene.tokens: Type(token)
Spec == Init /\ [][Next]_vars

----------------------------------------------------------------------------
(* Properties. What one computes of a document is bound by a quantifier, once.         *)

\* A fence opens a block and the next one closes it. A quote goes on until something that
\* cannot continue its paragraph.
Fenced(kinds, k) ==
    kinds[k] = "fence" \/ Cardinality({j \in 1..(k - 1): kinds[j] = "fence"}) % 2 = 1
EndsQuote == {"blank", "dashes", "heading", "fence", "html"}
Quoted(kinds, k) ==
    \E j \in 1..k: /\ kinds[j] \in {"quote", "quote quote"} /\ ~Fenced(kinds, j)
                   /\ \A i \in (j + 1)..k: kinds[i] \notin EndsQuote
InFrontmatter(kinds, k) ==
    kinds[1] = "dashes" /\ \E d \in 2..Len(kinds):
        kinds[d] = "dashes" /\ k <= d /\ \A j \in 2..(d - 1): kinds[j] # "dashes"

\* A line is silenced by a word of its own, by the line before it, or by a block that was
\* opened and not closed before it.
Silenced(words, n) ==
    \/ words[n] \in OwnLine
    \/ n > 1 /\ words[n - 1] \in NextLine
    \/ \E b \in 1..n: /\ words[b] \in BlockStart
                      /\ \A c \in (b + 1)..(n - 1): words[c] \notin BlockEnd
SilencedTokens ==
    LET lines == LinesOf(document)
        words == [n \in DOMAIN lines |-> MarkerOf(lines[n].marks, HashComments(scene.type))]
    IN  UNION {(lines[n].start + 1)..lines[n].end:
                 n \in {n \in DOMAIN lines: Silenced(words, n)}}

MaskedInMarkdown(kinds, k) ==
    \/ kinds[LineStart(kinds, k)] = "container"
    \/ InFrontmatter(kinds, k) /\ kinds[k] \in {"dashes", "key", "quotemark"}
    \/ Fenced(kinds, k) /\ scene.type = "markdown"
    \/ ~Fenced(kinds, k) /\ kinds[k] \in {"code", "tag", "html"}
    \/ Quoted(kinds, k) /\ scene.opts.exempt_blockquotes
    \/ k - 1 \in Covered
Masked(kinds, k) ==
    \/ scene.type \in MarkdownTypes /\ MaskedInMarkdown(kinds, k)
    \/ scene.type = "yaml" /\ kinds[k] = "key"

\* The addresses, paths, names and mentioned terms of a text.
InAddress(t, k) ==
    \/ \E i \in 1..k: t[i] = "/" /\ i < Len(t) /\ Solid(t, i, i + 1) /\ Solid(t, i, k)
    \/ \E i \in k..Len(t): /\ SchemeAt(t, i) /\ Solid(t, i, i + 3)
                           /\ \A j \in k..(i - 1): t[j] \in AsciiWord
InTerm(t, k) ==
    \E i \in 1..(k - 1):
        t[i] = "open" /\ \E j \in (k + 1)..(Len(t) - 1):
            /\ t[j] = "close" /\ t[j + 1] = "label" /\ j - i <= MaxTerm + 1
            /\ \A n \in (i + 1)..(j - 1): t[n] \notin TermStops

TokenAt(starts, offset) ==
    CHOOSE k \in DOMAIN document: starts[k - 1] <= offset /\ offset < starts[k]

\* What is excluded is what the document says, character by character: fences, code,
\* quotes when the user exempts them, the structure of the front matter, the lines of
\* containers, tags and foreign text, the lines that comments silence; and what looks like
\* an address or a term that is only spoken of, wherever it stands. Through the folds over
\* parser events, lines and patterns, their merging and either way of looking a span up
\* (mod.rs:769-798, markdown.rs, suppression.rs, excluded.rs).
MaskedAsMarked ==
    scene.type # "plain text" =>
    \A t \in {Characters}, starts \in {TokenStarts}, kinds \in {KindsOf(document)}:
    \A offsets \in {Table(Offsets(t))}, excluded \in {Excluded(t, kinds, starts)}:
        LET tokens == {k \in DOMAIN document: Masked(kinds, k)} \cup SilencedTokens
            printed == {c \in DOMAIN t: t[c] # "newline"}
            masked == {c \in DOMAIN t:
                         LET k == TokenAt(starts, offsets[c - 1])
                         IN  \/ k \in tokens /\ (c \in printed \/ kinds[k] = "blank")
                             \/ InAddress(t, c) \/ InTerm(t, c)}
        IN  \A i, j \in printed:
                i <= j => LET span == [start |-> offsets[i - 1], end |-> offsets[j]]
                              meets == masked \cap i..j # {}
                          IN  /\ FoundByScan(span, excluded) = meets
                              /\ FoundByHalving(span, excluded) = meets

Underlined(kinds, k) ==
    /\ ~Quoted(kinds, k) /\ ~Fenced(kinds, k)
    /\ \E d \in (k + 1)..Len(kinds):
          kinds[d] = "dashes" /\ \A j \in k..(d - 1): kinds[j] \in Prose
IsHeading(kinds, k) ==
    /\ ~Fenced(kinds, k) /\ ~InFrontmatter(kinds, k)
    /\ kinds[k] = "heading" \/ Underlined(kinds, k)
\* A heading starts a section, and so does a line of dashes that underlines nothing.
StartsSection(kinds, k) ==
    \/ IsHeading(kinds, k) /\ (k = 1 \/ kinds[k] = "heading" \/ ~Underlined(kinds, k - 1))
    \/ /\ kinds[k] = "dashes" /\ ~Fenced(kinds, k) /\ ~InFrontmatter(kinds, k)
       /\ k = 1 \/ ~Underlined(kinds, k - 1)

IsInOrder(issues) == \A n \in 1..(Len(issues) - 1): Precedes(issues[n], issues[n + 1])

\* The text of a heading is reported one step more severe, unless the ruleset pins it or
\* the configuration says otherwise, and no text of the front matter is, though the parser
\* takes the end of the front matter for a heading. What is reported is in order, by offset
\* and then by severity, after the boost too, and a section starts at every heading outside
\* quotes (mod.rs:545-576, 1280-1312, markdown.rs:54-102, 348-399).
HeadingsStandOut ==
    scene.type \in MarkdownTypes =>
    \A t \in {Characters}, starts \in {TokenStarts}, kinds \in {KindsOf(document)}:
    \A excluded \in {Excluded(t, kinds, starts)}:
    \A reported \in {Reported(t, kinds, excluded)}:
        LET Expected(issue) ==
                IF /\ IsHeading(kinds, TokenAt(starts, issue.offset))
                   /\ ~issue.pinned /\ scene.opts.heading_severity_boost
                THEN Info + 1 ELSE Info
        IN  /\ \A issue \in ToSet(reported): issue.severity = Expected(issue)
            /\ IsInOrder(reported)
            /\ BlockBoundaryStarts(kinds) =
                  {k - 1: k \in {k \in DOMAIN kinds: StartsSection(kinds, k)}}

\* Where a text may be cut: what is on either side composes on its own, and no mark is
\* parted from its base. Which of several marks a byte comes from the map does not say.
Cuts(t) ==
    {i \in 0..Len(t):
        /\ i = Len(t) \/ t[i + 1] \notin Marks
        /\ Nfc(SubSeq(t, 1, i)) \o Nfc(SubSeq(t, i + 1, Len(t))) = Nfc(t)}
ComposedLength(t, i) == Length(Nfc(SubSeq(t, 1, i)))
PlaceOf(t, i) ==
    LET breaks == {j \in 1..i: t[j] = "newline"}
        first == Max({0} \cup breaks)
    IN  [line |-> Cardinality(breaks) + 1,
         col |-> 1 + FoldLeft(LAMBDA n, c: n + Utf16(c), 0, SubSeq(t, first + 1, i))]

\* A range of the caller that is not empty reaches some text, from one cut to another it
\* reaches that text and no more, and an offset at a cut comes back where it was
\* (normalize.rs:40-281).
SpansComeBack ==
    scene.type = "plain text" =>
    \A t \in {Characters}: \A norm \in {NormalizeNfc(t)}:
        LET Forward(i, j) ==
                MapRangeForward(norm.map, [start |-> Offsets(t)[i], end |-> Offsets(t)[j]])
        IN  /\ norm.text = Nfc(t)
            /\ \A i \in Cuts(t): MapOffset(norm.map, ComposedLength(t, i)) = Offsets(t)[i]
            /\ \A i, j \in 0..Len(t): i < j => Forward(i, j) # <<>>
            /\ \A i, j \in Cuts(t):
                  i < j => Forward(i, j) = <<[start |-> ComposedLength(t, i),
                                              end |-> ComposedLength(t, j)]>>

\* Every term is reported where it was written, with its line and its column, unless it is
\* part of an address, is only spoken of, or is in a range the caller excluded: through
\* composition, four passes of patterns and the way back
\* (mod.rs:1216-1278, excluded.rs:70-200, lineindex.rs:42-91).
ReportsWhatIsWritten ==
    scene.type = "plain text" =>
    \A t \in {Characters}: \A composed \in {Nfc(t)}, norm \in {NormalizeNfc(t)}:
    \A built \in {BuildExcludedRanges(norm.text)}:
        LET zi == {i \in DOMAIN t: t[i] = "zi"}
            Twin(i) == CHOOSE k \in DOMAIN composed:
                          /\ composed[k] = "zi"
                          /\ Cardinality({j \in 1..k: composed[j] = "zi"})
                               = Cardinality({j \in 1..i: t[j] = "zi"})
            Plain(i) == ~InAddress(composed, Twin(i)) /\ ~InTerm(composed, Twin(i))
            callers == {[start |-> Offsets(t)[i], end |-> Offsets(t)[j]]:
                          i \in 0..Len(t), j \in 0..Len(t)}
        IN  \A caller \in callers:
              ToSet(ScanNfc(t, norm, built, caller)) =
                {[start |-> Offsets(t)[i - 1], end |-> Offsets(t)[i],
                  line |-> PlaceOf(t, i - 1).line, col |-> PlaceOf(t, i - 1).col]:
                    i \in {i \in zi: /\ Plain(i)
                                     /\ ~Overlap(caller, Span(Offsets(t)[i - 1], 3))
                                          \/ caller.start >= caller.end}}

----------------------------------------------------------------------------
(* What a comment says, and the code does not do *)

\* "The same word outside the marked runs is" reported (docs/cli.md:304), and the text
\* behind a span that was closed is not excluded (tests/unit/engine/markdown/tests.rs:358):
\* prose in which there is no slash is left out only for what the document marks.
UnmarkedIsScanned ==
    scene.type \in MarkdownTypes =>
        LET starts == TokenStarts
            kinds == KindsOf(document)
            excluded == Excluded(Characters, kinds, starts)
        IN  \A k \in DOMAIN document:
                ~Masked(kinds, k) /\ k \notin SilencedTokens /\ document[k] = "tail" =>
                    ~SpanIsExcluded([start |-> starts[k - 1], end |-> starts[k]], excluded)

\* Foreign text that was closed is over, however deep its elements are nested: past the
\* cap "the text under it stays scanned: the direction that lints too much"
\* (html_lang.rs:125-128).
ClosedMeansScanned ==
    LET Count(token, k) == Cardinality({j \in 1..k: document[j] = token})
        Closed(opener, closer) ==
            /\ \A k \in DOMAIN document: Count(closer, k) <= Count(opener, k)
            /\ Count(closer, Len(document)) = Count(opener, Len(document))
    IN  Closed("<div en>", "</div>") /\ Closed("<ul>", "</ul>") => pending = {}
=============================================================================
