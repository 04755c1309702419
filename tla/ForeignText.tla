----------------------------- MODULE ForeignText -----------------------------
(* What an author who writes lang="en" may expect: text is left out of the check       *)
(* exactly while the innermost open element that declares a language declares another  *)
(* one. No index, no pending range: a stack of elements and a set of positions.        *)
EXTENDS Html

CONSTANTS
    Tags,     \* what may stand in the text
    MaxDepth  \* elements beyond this depth are counted only

VARIABLES
    at,       \* position of the next token
    stack,    \* the open elements, [name, lang]
    hidden,   \* how many more are open beyond MaxDepth
    skipped   \* the positions that are not checked

vars == <<at, stack, hidden, skipped>>

Init == at = 0 /\ stack = <<>> /\ hidden = 0 /\ skipped = {}

\* The innermost declaration decides.
Declarations == {k \in DOMAIN stack: stack[k].lang # Undeclared}
Foreign ==
    \E k \in Declarations: stack[k].lang = "foreign" /\ \A j \in Declarations: j <= k

\* A tag is skipped with the text on either side of it.
Advance ==
    /\ at' = at + 1
    /\ skipped' = IF Foreign \/ Foreign' THEN skipped \cup {at} ELSE skipped

InRawText == stack # <<>> /\ stack[Len(stack)].name \in RawTextElements

Text == UNCHANGED <<stack, hidden>> /\ Advance

Opens(tag) == ~tag.closing /\ ~tag.self_closing /\ tag.name \notin VoidElements

\* Beyond the depth tags are balanced and mean nothing.
Balance(tag) ==
    /\ hidden > 0
    /\ hidden' = IF tag.closing THEN hidden - 1 ELSE IF Opens(tag) THEN hidden + 1 ELSE hidden
    /\ UNCHANGED stack /\ Advance

IsMarkup(tag) == InRawText => tag.closing /\ stack[Len(stack)].name = tag.name

Matching(tag) == {k \in DOMAIN stack: stack[k].name = tag.name}
Close(tag) ==
    /\ hidden = 0 /\ IsMarkup(tag) /\ tag.closing
    /\ \E k \in Matching(tag):
          /\ \A j \in Matching(tag): j <= k
          /\ stack' = SubSeq(stack, 1, k - 1)
    /\ UNCHANGED hidden /\ Advance

Open(tag) ==
    /\ hidden = 0 /\ IsMarkup(tag) /\ Opens(tag)
    /\ \E n \in 0..Len(stack):
          /\ n = IF \E k \in DOMAIN stack: stack[k].name \in ImplicitlyClosable
                 THEN LeftBy(stack, tag.name) ELSE Len(stack)
          /\ IF n >= MaxDepth
             THEN stack' = SubSeq(stack, 1, n) /\ hidden' = 1
             ELSE /\ stack' = Append(SubSeq(stack, 1, n),
                                     [name |-> tag.name, lang |-> Foreignness(tag.lang)])
                  /\ UNCHANGED hidden
    /\ Advance

\* A closer of nothing, an element that contains nothing, a tag that is only text.
Inert(tag) ==
    /\ hidden = 0
    /\ ~IsMarkup(tag) \/ (tag.closing /\ Matching(tag) = {}) \/ ~(tag.closing \/ Opens(tag))
    /\ UNCHANGED <<stack, hidden>> /\ Advance

Next == Text \/ \E tag \in Tags: Balance(tag) \/ Close(tag) \/ Open(tag) \/ Inert(tag)
Spec == Init /\ [][Next]_vars
=============================================================================
