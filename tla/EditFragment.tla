----------------------------- MODULE EditFragment -----------------------------
(***************************************************************************)
(* The part of a file that an edit changes, with the lines around it: what *)
(* the file validators hand to a linter in place of the whole file.        *)
(*                                                                         *)
(* A text is a sequence of marks, NL the one that ends a line; the lines   *)
(* of a text are one more than its NLs.  Positions count from 1.           *)
(***************************************************************************)
EXTENDS Integers, SequencesExt

NL == "nl"

Occurrences(text, part) ==
    {i \in 1..Len(text) - Len(part) + 1 : SubSeq(text, i, i + Len(part) - 1) = part}

\* strings.Replace with a limit of one, which an empty old text never reaches here.
Replace(text, old, new) ==
    IF Occurrences(text, old) = {} THEN text
    ELSE LET at == Min(Occurrences(text, old))
         IN  SubSeq(text, 1, at - 1) \o new \o SubSeq(text, at + Len(old), Len(text))

\* The line a position stands in, an NL standing in the line it ends.
LineOf(text, at) == 1 + Cardinality({i \in 1..at - 1 : text[i] = NL})

LastLine(text) == LineOf(text, Len(text) + 1)

FirstLine(text) ==
    LET ends == {i \in DOMAIN text : text[i] = NL}
    IN  IF ends = {} THEN text ELSE SubSeq(text, 1, Min(ends) - 1)

\* From p to q a text has whole lines, but perhaps for the NL after the last.
Cut(text, p, q) ==
    /\ p \in 1..Len(text) + 1 /\ q \in p - 1..Len(text)
    /\ p = 1 \/ text[p - 1] = NL
    /\ q = Len(text) \/ text[q + 1] = NL

\* The last line of a part is not empty, not counting the NL that may end it.
EndsInText(part) ==
    \E i \in DOMAIN part : part[i] # NL /\ i + 1 >= Len(part)

\* Lines first to last of a text, without the NL after the last one.
Lines(text, first, last) ==
    LET inside == {i \in DOMAIN text : /\ LineOf(text, i) \in first..last
                                       /\ ~(text[i] = NL /\ LineOf(text, i) = last)}
    IN  IF inside = {} THEN <<>> ELSE SubSeq(text, Min(inside), Max(inside))

\* At most one empty line is kept at the end.
TrimTrailingEmptyLines(text) ==
    LET kept == {i \in DOMAIN text : text[i] # NL}
    IN  IF kept = {} THEN <<>> ELSE SubSeq(text, 1, Min({Max(kept) + 1, Len(text)}))

\* The first and last line shown.  When the last line that would be shown is the
\* first of the file, cmp.Or takes its zero for unset and shows the whole rest.
ShownFrom(text, old, context) ==
    Max({1, LineOf(text, Min(Occurrences(text, old))) - context})

ShownTo(text, old, context) ==
    LET end == LineOf(text, Min(Occurrences(text, old)) + Len(old) - 1) + context
    IN  IF LastLine(text) = 1 \/ end = 1 THEN LastLine(text) ELSE Min({end, LastLine(text)})

\* "" stands for no fragment, too.
ExtractEditFragment(text, old, new, context) ==
    IF Occurrences(text, old) = {} THEN <<>>
    ELSE Replace(TrimTrailingEmptyLines(
                     Lines(text, ShownFrom(text, old, context), ShownTo(text, old, context))),
                 old, new)

\* Whether the fragment leaves out the beginning of the file, its shebang perhaps.
StartsLater(text, old, context) == ShownFrom(text, old, context) > 1
=============================================================================
