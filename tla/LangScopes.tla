----------------------------- MODULE LangScopes -----------------------------
(* LangScopes (html_lang.rs): the tags of a document arrive one after the other, and   *)
(* what stands between a tag that declares another language and the end of its element *)
(* becomes a range that no scan looks at. Every token is one position long.            *)
(*                                                                                     *)
(* The stack is never searched for the language in force: an index of the elements     *)
(* that declared one, a count of those a sibling may end and the start of the range    *)
(* in progress are kept beside it. That they agree with the stack is what ForeignText, *)
(* which has none of them, is compared with.                                           *)
EXTENDS Html

CONSTANTS Tags, MaxDepth

ASSUME TagsAssumption ==
    Tags \subseteq [name: STRING, closing: BOOLEAN, self_closing: BOOLEAN, lang: STRING]
ASSUME DepthAssumption == MaxDepth \in Nat

VARIABLES
    at,          \* offset of the next token
    open,        \* the open elements, [name, lang]
    declared,    \* indices into open of the elements that declared a language
    closable,    \* how many of the open elements a sibling could end
    suppressed,  \* how many elements are open past MaxDepth
    pending,     \* the start of the range in progress, {} when there is none
    in_raw_text, \* whether the innermost element holds text only
    ranges       \* finished ranges

scopes == <<open, declared, closable, suppressed, pending, in_raw_text, ranges>>
scopeVars == <<at, scopes>>

ScopesInit ==
    /\ at = 0 /\ open = <<>> /\ declared = <<>> /\ closable = 0 /\ suppressed = 0
    /\ pending = {} /\ in_raw_text = FALSE /\ ranges = {}

\* foreign(): the innermost declaration, off the end of the index.
Foreign == declared # <<>> /\ open[declared[Len(declared)]].lang = "foreign"

\* truncate_open: the indices are kept in step.
ClosableAbove(n) == Cardinality({k \in (n + 1)..Len(open): open[k].name \in ImplicitlyClosable})
DeclaredUpTo(n) ==
    SubSeq(declared, 1,
           CHOOSE m \in 0..Len(declared):
               /\ m = 0 \/ declared[m] <= n
               /\ \A j \in (m + 1)..Len(declared): declared[j] > n)
Truncate(n) ==
    /\ open' = SubSeq(open, 1, n)
    /\ closable' = closable - ClosableAbove(n)
    /\ declared' = DeclaredUpTo(n)

\* push_open, on what the implied closers have left.
PushOpen(n, element) ==
    /\ open' = Append(SubSeq(open, 1, n), element)
    /\ closable' = (closable - ClosableAbove(n))
                     + (IF element.name \in ImplicitlyClosable THEN 1 ELSE 0)
    /\ declared' = IF element.lang = Undeclared THEN DeclaredUpTo(n)
                   ELSE Append(DeclaredUpTo(n), n + 1)

\* A bug the property would show: a range ends before the tag that ends it.
ClosePendingEarly(end) ==
    /\ ranges' = ranges \cup {[start |-> start, end |-> end - 1]: start \in pending}
    /\ pending' = {}

ClosePending(end) ==
    /\ ranges' = ranges \cup {[start |-> start, end |-> end]: start \in pending}
    /\ pending' = {}

\* The tag itself goes into the range on both sides.
Settle(foreign) ==
    CASE pending = {} /\ foreign -> pending' = {at} /\ UNCHANGED ranges
      [] pending # {} /\ ~foreign -> ClosePending(at + 1)
      [] OTHER -> UNCHANGED <<pending, ranges>>

Advance == at' = at + 1

\* What is not a tag: text, a comment, a declaration.
Text == UNCHANGED scopes /\ Advance

Opens(tag) == ~tag.closing /\ ~tag.self_closing /\ tag.name \notin VoidElements

Balance(tag) ==
    /\ suppressed > 0
    /\ suppressed' = IF tag.closing THEN suppressed - 1
                     ELSE IF Opens(tag) THEN suppressed + 1 ELSE suppressed
    /\ UNCHANGED <<open, declared, closable, pending, in_raw_text, ranges>>
    /\ Advance

\* Inside a raw-text element only its own closer is markup.
IsMarkup(tag) ==
    in_raw_text => tag.closing /\ open # <<>> /\ open[Len(open)].name = tag.name

Matching(tag) == {k \in DOMAIN open: open[k].name = tag.name}
Close(tag) ==
    /\ suppressed = 0 /\ IsMarkup(tag) /\ tag.closing
    /\ \E k \in Matching(tag):
          /\ \A j \in Matching(tag): j <= k
          /\ Truncate(k - 1)
    /\ Settle(Foreign')
    /\ in_raw_text' = FALSE
    /\ UNCHANGED suppressed
    /\ Advance

\* close_implied_by: with nothing that a sibling could end the stack is not walked.
LeftByTag(tag) == IF closable = 0 THEN Len(open) ELSE LeftBy(open, tag.name)

\* At the cap the tag is only counted, and nothing is settled: a tag that has ended
\* another one is never at the cap.
Cap(tag) ==
    /\ suppressed = 0 /\ IsMarkup(tag) /\ Opens(tag)
    /\ \E n \in 0..Len(open): n = LeftByTag(tag) /\ n >= MaxDepth /\ Truncate(n)
    /\ suppressed' = 1
    /\ UNCHANGED <<pending, in_raw_text, ranges>>
    /\ Advance
Push(tag) ==
    /\ suppressed = 0 /\ IsMarkup(tag) /\ Opens(tag)
    /\ \E n \in 0..Len(open):
          /\ n = LeftByTag(tag) /\ n < MaxDepth
          /\ PushOpen(n, [name |-> tag.name, lang |-> Foreignness(tag.lang)])
    /\ Settle(Foreign')
    /\ in_raw_text' = (tag.name \in RawTextElements)
    /\ UNCHANGED suppressed
    /\ Advance

\* An unmatched closer, a void or self-closed element, and whatever stands in raw text.
Ignore(tag) ==
    /\ suppressed = 0
    /\ \/ ~IsMarkup(tag)
       \/ tag.closing /\ Matching(tag) = {}
       \/ ~tag.closing /\ ~Opens(tag)
    /\ UNCHANGED scopes
    /\ Advance

Apply(tag) == Balance(tag) \/ Close(tag) \/ Cap(tag) \/ Push(tag) \/ Ignore(tag)

ScopesNext == Text \/ \E tag \in Tags: Apply(tag)
ScopesSpec == ScopesInit /\ [][ScopesNext]_scopeVars

\* finish: an element left open reaches to the end of the text.
Finish(end) == ranges \cup {[start |-> start, end |-> end]: start \in pending}

----------------------------------------------------------------------------
(* Properties *)

TypeOK ==
    /\ at \in Nat
    /\ open \in Seq([name: STRING, lang: {"foreign", "home", Undeclared}])
    /\ declared \in Seq(Nat)
    /\ closable \in Nat /\ suppressed \in Nat
    /\ pending \in SUBSET Nat
    /\ in_raw_text \in BOOLEAN
    /\ ranges \subseteq [start: Nat, end: Nat]

\* The positions the ranges stand for.
Covered ==
    {k \in 0..(at - 1): \E range \in Finish(at): range.start <= k /\ k < range.end}

\* The index, the count and the range in progress mean what ForeignText finds by
\* searching the stack: no text under a foreign element is checked, and none is skipped
\* that is not.
Foreignly == INSTANCE ForeignText WITH stack <- open, hidden <- suppressed, skipped <- Covered
ImplementsForeignText == Foreignly!Spec
=============================================================================
