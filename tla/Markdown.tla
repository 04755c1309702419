------------------------------ MODULE Markdown ------------------------------
(* What markdown.rs leaves out of a scan of Markdown or YAML, and where it finds the   *)
(* headings. A document is a sequence of the kinds of its tokens, token k is the range *)
(* from k - 1 to k. Most tokens are lines; a tag, an inline code span, a quotation     *)
(* mark and a comment at the end of a line ("tail") continue the line before them, and *)
(* so does the text of a key.                                                          *)
(*                                                                                     *)
(* pulldown-cmark is not in the repository. Events is what it reports of these tokens. *)
EXTENDS Naturals, Sequences
LOCAL INSTANCE SequencesExt
LOCAL INSTANCE FiniteSetsExt

Prose == {"text", "key", "container", "quotemark", "code", "tag", "tail"}
Kinds == Prose \cup {"blank", "dashes", "fence", "heading", "quote", "quote quote", "html"}
QuoteDepth(kind) == IF kind = "quote quote" THEN 2 ELSE 1

Continues(kinds, k) ==
    /\ k > 1
    /\ \/ kinds[k] \in {"quotemark", "code", "tag", "tail"}
       \/ kinds[k] = "text" /\ kinds[k - 1] \in {"key", "quotemark"}
LineStart(kinds, k) == Max({j \in 1..k: ~Continues(kinds, j)})

----------------------------------------------------------------------------
(* pulldown-cmark *)

Event(kind, from, to) == [kind |-> kind, start |-> from, end |-> to]
EventOf(kind, k) ==
    Event(CASE kind = "code" -> "code" [] kind \in {"tag", "html"} -> "html" [] OTHER -> "text",
          k - 1, k)

\* A paragraph is reported when it is over, since a line of dashes makes it a heading.
ClosePara(p) == [p EXCEPT !.events = @ \o p.para, !.para = <<>>]
CloseQuotes(p, k) ==
    [ClosePara(p) EXCEPT
        !.events = @ \o [i \in DOMAIN p.quotes |->
                            Event("end quote", p.quotes[Len(p.quotes) - i + 1], k - 1)],
        !.quotes = <<>>]
Heading(p, inlines) ==
    [p EXCEPT !.para = <<>>,
              !.events = @ \o <<Event("start heading", inlines[1].start, Last(inlines).end)>>
                           \o inlines
                           \o <<Event("end heading", inlines[1].start, Last(inlines).end)>>]

\* A line of a shallower quote continues the paragraph of a deeper one.
OpenQuotes(p, k, depth) ==
    LET more == [i \in 1..(depth - Len(p.quotes)) |-> Event("start quote", k - 1, k)]
    IN  IF more = <<>> THEN p
        ELSE [ClosePara(p) EXCEPT !.events = @ \o more,
                                  !.quotes = @ \o [i \in DOMAIN more |-> k - 1]]
AddInline(p, kind, k) == [p EXCEPT !.para = Append(@, EventOf(kind, k))]

ReadToken(p, kind, k) ==
    IF p.fence # <<>>
    THEN IF kind = "fence"
         THEN [p EXCEPT !.fence = <<>>, !.events = Append(@, Event("end code", p.fence[1], k))]
         ELSE p
    ELSE
    CASE kind \in Prose -> AddInline(p, kind, k)
      [] kind \in {"quote", "quote quote"} ->
            AddInline(OpenQuotes(p, k, QuoteDepth(kind)), kind, k)
      [] kind = "dashes" /\ p.para # <<>> /\ p.quotes = <<>> -> Heading(p, p.para)
      [] OTHER ->
            LET closed == CloseQuotes(p, k)
            IN  CASE kind = "fence" ->
                        [closed EXCEPT !.fence = <<k - 1>>,
                                       !.events = Append(@, Event("start code", k - 1, k))]
                  [] kind = "heading" -> Heading(closed, <<EventOf(kind, k)>>)
                  [] kind = "dashes" ->
                        [closed EXCEPT !.events = Append(@, Event("rule", k - 1, k))]
                  [] kind = "html" -> [closed EXCEPT !.events = Append(@, EventOf(kind, k))]
                  [] OTHER -> closed

Parsed(kinds) ==
    LET p[k \in 0..Len(kinds)] ==
            IF k = 0 THEN [events |-> <<>>, fence |-> <<>>, quotes |-> <<>>, para |-> <<>>]
            ELSE ReadToken(p[k - 1], kinds[k], k)
    IN  p[Len(kinds)]
InFence(kinds) == Parsed(kinds).fence # <<>>
Events(kinds) ==
    LET p == Parsed(kinds)
    IN  IF p.fence # <<>>
        THEN Append(p.events, Event("end code", p.fence[1], Len(kinds)))
        ELSE CloseQuotes(p, Len(kinds) + 1).events

----------------------------------------------------------------------------
(* build_markdown_excluded_ranges_with_options *)

Token(k) == [start |-> k - 1, end |-> k]
TokensWhere(kinds, Chosen(_)) ==
    LET at == SelectSeq([k \in DOMAIN kinds |-> k], Chosen)
    IN  [i \in DOMAIN at |-> Token(at[i])]
TokensOf(kinds, chosen) == TokensWhere(kinds, LAMBDA k: kinds[k] \in chosen)

\* detect_frontmatter: the offset past the closing dashes, 0 without front matter.
DetectFrontmatter(kinds) ==
    LET closing == {k \in 2..Len(kinds): kinds[k] = "dashes"}
    IN  IF kinds # <<>> /\ kinds[1] = "dashes" /\ closing # {} THEN Min(closing) ELSE 0

\* The dashes, the keys and the quotation marks, not the values. The dashes are excluded
\* with the end of their line.
CollectFrontmatter(kinds, chosen) ==
    TokensOf(SubSeq(kinds, 1, DetectFrontmatter(kinds)), chosen)

\* All of a line that begins a container.
CollectContainerFences(kinds) ==
    TokensWhere(kinds, LAMBDA k: kinds[LineStart(kinds, k)] = "container")

BuildYaml(kinds) == TokensOf(kinds, {"key"})

PushRange(f, from, to) == [f EXCEPT !.ranges = Append(@, [start |-> from, end |-> to])]

\* The tags go to LangScopes too, which is fed as they are typed.
Take(f, event, opts) ==
    CASE event.kind = "start code" /\ ~opts.scan_code_blocks -> [f EXCEPT !.code = <<event.start>>]
      [] event.kind = "end code" /\ f.code # <<>> ->
            [PushRange(f, f.code[1], event.end) EXCEPT !.code = <<>>]
      [] event.kind = "start quote" /\ opts.exempt_blockquotes ->
            [f EXCEPT !.depth = @ + 1, !.quote = IF f.depth = 0 THEN event.start ELSE @]
      [] event.kind = "end quote" /\ opts.exempt_blockquotes ->
            LET out == [f EXCEPT !.depth = IF @ = 0 THEN 0 ELSE @ - 1]
            IN  IF out.depth = 0 THEN PushRange(out, f.quote, event.end) ELSE out
      [] event.kind \in {"code", "html"} -> PushRange(f, event.start, event.end)
      [] OTHER -> f

BuildMarkdown(kinds, opts) ==
    CollectFrontmatter(kinds, {"key", "quotemark"}) \o CollectContainerFences(kinds)
    \o FoldLeft(LAMBDA f, event: Take(f, event, opts),
                [code |-> <<>>, depth |-> 0, quote |-> 0, ranges |-> <<>>],
                Events(kinds)).ranges

----------------------------------------------------------------------------
(* extract_heading_ranges, block_boundary_starts *)

\* From the first inline event to the last. A heading made of the front matter's last
\* line and its closing dashes is none.
TakeHeading(h, event, frontmatter) ==
    CASE event.kind = "start heading" -> [h EXCEPT !.in = TRUE, !.inline = <<>>]
      [] event.kind = "end heading" /\ h.in ->
            [h EXCEPT !.in = FALSE,
                      !.ranges = IF h.inline # <<>> /\ h.inline[1] >= frontmatter
                                 THEN Append(@, [start |-> h.inline[1], end |-> h.inline[2]])
                                 ELSE @]
      [] event.kind \in {"text", "code", "html"} /\ h.in ->
            [h EXCEPT !.inline = <<IF @ = <<>> THEN event.start ELSE @[1], event.end>>]
      [] OTHER -> h

ExtractHeadings(kinds) ==
    LET frontmatter == DetectFrontmatter(kinds)
    IN  FoldLeft(LAMBDA h, event: TakeHeading(h, event, frontmatter),
                 [in |-> FALSE, inline |-> <<>>, ranges |-> <<>>], Events(kinds)).ranges

BlockBoundaryStarts(kinds) ==
    LET Count(b, event) ==
            CASE event.kind = "start quote" -> [b EXCEPT !.depth = @ + 1]
              [] event.kind = "end quote" -> [b EXCEPT !.depth = IF @ = 0 THEN 0 ELSE @ - 1]
              [] event.kind \in {"rule", "start heading"} /\ b.depth = 0
                   /\ event.start >= DetectFrontmatter(kinds) ->
                    [b EXCEPT !.starts = @ \cup {event.start}]
              [] OTHER -> b
    IN  FoldLeft(Count, [depth |-> 0, starts |-> {}], Events(kinds)).starts
=============================================================================
