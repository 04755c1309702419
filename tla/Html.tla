-------------------------------- MODULE Html --------------------------------
(* What html_lang.rs knows of HTML: which elements contain nothing, which hold text    *)
(* only, which are ended by a sibling, and which languages are Chinese.                *)
EXTENDS Naturals, Sequences, FiniteSets

ChinesePrimarySubtags ==
    {"zh", "cdo", "cjy", "cmn", "cnp", "cpx", "csp", "czh", "czo", "gan", "hak", "hsn",
     "lzh", "mnp", "nan", "wuu", "yue"}
VoidElements ==
    {"area", "base", "br", "col", "embed", "hr", "img", "input", "link", "meta", "param",
     "source", "track", "wbr"}
RawTextElements ==
    {"script", "style", "textarea", "title", "xmp", "iframe", "noembed", "noframes"}
ClosesParagraph ==
    {"address", "article", "aside", "blockquote", "dd", "details", "div", "dl", "dt",
     "fieldset", "figcaption", "figure", "footer", "form", "h1", "h2", "h3", "h4", "h5",
     "h6", "header", "hgroup", "hr", "li", "main", "menu", "nav", "ol", "p", "pre",
     "search", "section", "table", "ul"}
InlineElements ==
    {"a", "abbr", "b", "bdi", "bdo", "big", "cite", "code", "data", "del", "dfn", "em",
     "font", "i", "ins", "kbd", "label", "mark", "nobr", "output", "picture", "q", "ruby",
     "s", "samp", "small", "span", "strike", "strong", "sub", "sup", "time", "tt", "u", "var"}
TableParts == {"td", "th", "tr", "tbody", "thead", "tfoot"}
ImplicitlyClosable ==
    {"p", "li", "dt", "dd", "td", "th", "tr", "thead", "tbody", "option", "optgroup", "rt",
     "rp", "colgroup"}

\* A cell is ended anywhere inside its table; anything else only through inline content
\* and the three elements that HTML exempts.
TransparentToImplicitClose(element, incoming) ==
    IF incoming \in TableParts
    THEN element \notin {"table", "template", "html"}
    ELSE element \in InlineElements \cup {"address", "div", "p"}

ClosedImplicitlyBy(element, incoming) ==
    \/ element = "p" /\ incoming \in ClosesParagraph
    \/ element = "li" /\ incoming = "li"
    \/ element \in {"dt", "dd"} /\ incoming \in {"dt", "dd"}
    \/ element \in {"td", "th"} /\ incoming \in {"td", "th", "tr"}
    \/ element = "tr" /\ incoming \in {"tr", "tbody", "tfoot", "thead"}
    \/ element \in {"thead", "tbody"} /\ incoming \in {"tbody", "tfoot"}
    \/ element = "option" /\ incoming \in {"option", "optgroup"}
    \/ element = "optgroup" /\ incoming = "optgroup"
    \/ element \in {"rt", "rp"} /\ incoming \in {"rt", "rp"}
    \/ element = "colgroup" /\ incoming # "col"

\* A language is its primary subtag. The empty one says that nothing is known, which is
\* not to say that the text is foreign.
Undeclared == "undeclared"
Excludes(lang) == lang # "" /\ lang \notin ChinesePrimarySubtags
Foreignness(lang) ==
    IF lang = Undeclared THEN Undeclared ELSE IF Excludes(lang) THEN "foreign" ELSE "home"

\* A tag as it is written: its attributes are languages and slashes, in order. The first
\* language counts, and a slash counts when nothing follows it.
ScanToken(written) ==
    LET langs == SelectSeq(written.attributes, LAMBDA a: a # "/")
        all == written.attributes
    IN  [name |-> written.name, closing |-> written.closing,
         self_closing |-> all # <<>> /\ all[Len(all)] = "/",
         lang |-> IF langs = <<>> THEN Undeclared ELSE langs[1]]

\* How much of the stack is left when a tag of this name starts: it ends the innermost
\* element it may end, then looks again.
LastClosed(stack, n, incoming) ==
    {k \in 1..n: /\ ClosedImplicitlyBy(stack[k].name, incoming)
                 /\ \A j \in (k + 1)..n:
                        /\ ~ClosedImplicitlyBy(stack[j].name, incoming)
                        /\ TransparentToImplicitClose(stack[j].name, incoming)}
LeftBy(stack, incoming) ==
    LET left[n \in 0..Len(stack)] ==
            IF LastClosed(stack, n, incoming) = {} THEN n
            ELSE left[(CHOOSE k \in LastClosed(stack, n, incoming): TRUE) - 1]
    IN  left[Len(stack)]
=============================================================================
