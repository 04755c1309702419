------------------------------ MODULE MCMarkup ------------------------------
(* Markup on all documents typed from a few tokens each.                               *)
EXTENDS Markup

Opener(element, lang) ==
    ScanToken([name |-> element, closing |-> FALSE,
               attributes |-> IF lang = Undeclared THEN <<>> ELSE <<lang>>])
Closer(element) == ScanToken([name |-> element, closing |-> TRUE, attributes |-> <<>>])
MCTagOf ==
    [ t \in {"<div en>", "<p en>", "<span zh>", "<span>", "<li en>", "<li>", "<ul>", "<td en>",
             "<tr en>", "<table>", "<script en>", "<b ''>", "<br en>", "<br/>", "<p>",
             "</div>", "</span>", "</li>", "</ul>", "</table>", "</script>", "</b>", "</p>"} |->
        CASE t = "<div en>"    -> Opener("div", "en")
          [] t = "<p en>"      -> Opener("p", "en")
          [] t = "<p>"         -> Opener("p", Undeclared)
          [] t = "<span zh>"   -> Opener("span", "yue")
          [] t = "<span>"      -> Opener("span", Undeclared)
          [] t = "<li en>"     -> Opener("li", "en")
          [] t = "<li>"        -> Opener("li", Undeclared)
          [] t = "<ul>"        -> Opener("ul", Undeclared)
          [] t = "<td en>"     -> Opener("td", "en")
          [] t = "<tr en>"     -> Opener("tr", "en")
          [] t = "<table>"     -> Opener("table", Undeclared)
          [] t = "<script en>" -> Opener("script", "en")
          [] t = "<b ''>"      -> Opener("b", "")
          [] t = "<br en>"     -> Opener("br", "en")
          [] t = "<br/>"       -> ScanToken([name |-> "div", closing |-> FALSE,
                                             attributes |-> <<"/", "en", "/">>])
          [] t = "</div>"      -> Closer("div")
          [] t = "</span>"     -> Closer("span")
          [] t = "</li>"       -> Closer("li")
          [] t = "</ul>"       -> Closer("ul")
          [] t = "</table>"    -> Closer("table")
          [] t = "</script>"   -> Closer("script")
          [] t = "</b>"        -> Closer("b")
          [] OTHER             -> Closer("p") ]
MCTags == {MCTagOf[t]: t \in DOMAIN MCTagOf}

Mark(kind, opener, before, word) ==
    [kind |-> kind, opener |-> opener, before |-> before, word |-> word]
MCMarkOf ==
    ( "<!ignore"        :> Mark("html", "<!--", "start", "ignore") @@
      "<!ignore-next"   :> Mark("html", "<!--", "start", "ignore-next") @@
      "<!ignore-block"  :> Mark("html", "<!--", "start", "ignore-block") @@
      "<!end-ignore"    :> Mark("html", "<!--", "start", "end-ignore") @@
      "text<!ignore"    :> Mark("tag", "<!--", "space", "ignore") @@
      "//disable-block" :> Mark("text", "//", "start", "disable-block") @@
      "a//disable-block" :> Mark("text", "//", "letter", "disable-block") @@
      "//enable"        :> Mark("tail", "//", "space", "enable") @@
      "#ignore"         :> Mark("heading", "#", "start", "ignore") @@
      "#ignore-rules"   :> Mark("heading", "#", "start", "ignore-rules") @@
      "#ignore-next"    :> Mark("heading", "#", "start", "ignore-next-line") @@
      "text #ignore"    :> Mark("tail", "#", "space", "ignore-line") @@
      "text# ignore"    :> Mark("tail", "#", "letter", "ignore-line") )

Pieces == {"zi", "a", "e", "x", "acute", "low", "twin", "umlaut", "L", "V", "T", "LV", "/", ":",
           "@", " ", "newline", "open", "close", "label", "stop", "emoji"}
\* A sign stands for all of a tag, a fence or another notation that no pattern looks at.
Closers == {t \in DOMAIN MCTagOf: MCTagOf[t].closing}
Signs == {"dashes", "fence", "key", "quotemark", "code", "container", "<!ignore", "<!ignore-block",
          "<!ignore-next", "<!end-ignore", "text<!ignore", "#ignore", "#ignore-rules",
          "#ignore-next"} \cup DOMAIN MCTagOf
MCPieceOf ==
    ( "blank"            :> <<>> @@
      "text"             :> <<"zi">> @@
      "tail"             :> <<"zi", " ", "zi">> @@
      "heading"          :> <<"sign", "zi">> @@
      "quote"            :> <<"sign", "zi">> @@
      "quote quote"      :> <<"sign", "zi">> @@
      "term"             :> <<"open", "zi", "close", "label">> @@
      "//disable-block"  :> <<"/", "/", "sign">> @@
      "a//disable-block" :> <<"a", "/", "/", "sign">> @@
      "//enable"         :> <<" ", "/", "/", "sign">> @@
      "text #ignore"     :> <<"zi", " ", "sign">> @@
      "text# ignore"     :> <<"zi", "sign">> @@
      "<br/>"            :> <<"/", "sign">> @@
      "://"              :> <<":", "/", "/">> @@
      "L V"              :> <<"L", "V">> )
    @@ [t \in Closers |-> <<"/", "sign">>] @@ [t \in Signs |-> <<"sign">>]
    @@ [p \in Pieces |-> <<p>>]

Plain == [scan_code_blocks |-> FALSE, exempt_blockquotes |-> FALSE,
          heading_severity_boost |-> TRUE]
Unboosted == [Plain EXCEPT !.heading_severity_boost = FALSE]
Exempt == [Plain EXCEPT !.exempt_blockquotes = TRUE]
Scene(type, opts, max, tokens) == [type |-> type, opts |-> opts, max |-> max, tokens |-> tokens]

MCScenes ==
    { Scene("markdown", Exempt, 5,
            {"text", "blank", "quote", "quote quote", "fence", "dashes", "heading"}),
      Scene("markdown", Plain, 5, {"dashes", "key", "quotemark", "text", "container"}),
      Scene("markdown", Plain, 5,
            {"text", "fence", "<!ignore-block", "<!end-ignore", "<!ignore-next"}),
      Scene("markdown scan code", Exempt, 4,
            {"text", "term", "code", "fence", "quote", "//disable-block", "a//disable-block",
             "//enable"}),
      Scene("markdown", Unboosted, 4,
            {"dashes", "fence", "text", "#ignore", "text<!ignore", "<div en>", "</div>"}),
      Scene("yaml", Plain, 4, {"key", "text", "#ignore", "#ignore-rules", "#ignore-next",
                               "text #ignore", "text# ignore"}),
      Scene("markdown", Plain, 6, {"text", "<div en>", "<span zh>", "</div>", "</span>"}),
      Scene("markdown", Plain, 5, {"text", "tail", "code", "<div en>", "</div>"}),
      Scene("markdown", Plain, 6, {"text", "<li en>", "<li>", "<ul>", "</ul>"}),
      Scene("markdown", Plain, 5, {"text", "<td en>", "<tr en>", "<table>", "</table>"}),
      Scene("markdown", Plain, 5, {"text", "<script en>", "</script>", "<p en>", "<p>", "</p>"}),
      Scene("markdown", Plain, 5, {"text", "<p en>", "<b ''>", "</b>", "<br en>", "<br/>", "</p>"}),
      Scene("plain text", Plain, 5, {"e", "x", "acute", "low", "twin"}),
      Scene("plain text", Plain, 5, {"zi", "L", "L V", "T", "LV"}),
      Scene("plain text", Plain, 5, {"zi", "e", "acute", "emoji", "newline"}),
      Scene("plain text", Plain, 4, {"zi", "a", "/", "://", "@", " "}),
      Scene("plain text", Plain, 5, {"zi", "open", "close", "label", "/"}) }

\* One scene each for what comments say and the code does not do: tags past the cap that
\* a sibling ends, and a vowel with a trailing jamo and no leading one.
DepthScenes ==
    {Scene("markdown", Plain, 8, {"text", "<div en>", "<ul>", "<li>", "</ul>", "</div>"})}
JamoScenes == {Scene("plain text", Plain, 4, {"e", "acute", "V", "T"})}
=============================================================================
