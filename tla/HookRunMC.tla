----------------------------- MODULE HookRunMC -----------------------------
(***************************************************************************)
(* Small instances of HookRun for TLC.                                     *)
(***************************************************************************)
EXTENDS HookRun, TLC

CONSTANTS p1, p2, g1, g2, bad

\* The requests' commands, by what the gate can tell apart.
Command_(text, parses, marked, env, comments) ==
    [text |-> text, parses |-> parses, marked |-> marked,
     env |-> env, comments |-> comments]

NoText    == Command_(FALSE, FALSE, FALSE, <<>>, <<>>)
Plain     == Command_(TRUE, TRUE, FALSE, <<>>, <<>>)
Garbled   == Command_(TRUE, FALSE, TRUE, <<>>, <<>>)
Broken    == Command_(TRUE, FALSE, FALSE, <<>>, <<>>)
KeyOne    == Command_(TRUE, TRUE, TRUE, <<{g1}>>, <<>>)
KeyBoth   == Command_(TRUE, TRUE, TRUE, <<{bad, g1}>>, <<{g1, g2}>>)

FewCommands  == {Plain, KeyOne}
AllCommands  == {NoText, Plain, Garbled, Broken, KeyOne, KeyBoth}

Report_(blocks, codes) == [blocks |-> blocks, codes |-> codes]

\* One blocking code: enough where only the file matters.
OneReport == {Report_(TRUE, {g1})}
\* Blocking results with a well-formed code.
CodedReports == {Report_(TRUE, {g1}), Report_(TRUE, {g2}), Report_(FALSE, {g1})}

Symmetric == Permutations(Proc) \cup Permutations(Inode)
=============================================================================
