---------------------------- MODULE ExceptionsMC ----------------------------
(***************************************************************************)
(* An instance of Exceptions: two codes, one with a policy of its own.     *)
(***************************************************************************)
EXTENDS Exceptions

CONSTANTS c1, c2

MCCode == {c1, c2}

\* c1 takes one use an hour and wants a reason; c2 has no policy.
MCPolicy ==
    c1 :> [enabled |-> TRUE, allow |-> TRUE, required |-> TRUE, listed |-> FALSE,
           perHour |-> 1, perDay |-> 2]

Bash(env, comments) == [text |-> TRUE, parses |-> TRUE, env |-> env, comments |-> comments]

(* A good token for each code, behind a malformed one for c2; a bad reason, *)
(* and one that makes the line of the entry too long.                       *)
First   == Bash(<<[code |-> c1, reason |-> "free"]>>, <<>>)
Second  == Bash(<<Malformed>>, <<[code |-> c2, reason |-> "none"]>>)
Short   == Bash(<<>>, <<[code |-> c1, reason |-> "short"]>>)
Endless == Bash(<<[code |-> c2, reason |-> "endless"]>>, <<>>)

MCCommands == {First, Second, Short, Endless}

Error(c) == [code |-> c, blocks |-> TRUE, hooked |-> TRUE]

MCErrors == {Error(c1), Error(c2)}

Call(c, codes) == [cmd |-> c, errs |-> [i \in DOMAIN codes |-> Error(codes[i])]]

\* Two errors: one that the token does not name, or both that it does.
Both == {Call(First, <<c2, c1>>), Call(Second, <<c2, c2>>)}
One  == {Call(First, <<c1>>), Call(Second, <<c2>>), Call(Endless, <<c2>>)}
Some  == One \cup {Call(Short, <<c1>>)}

MCCalls ==
    [o \in BOOLEAN |-> IF o THEN <<Some, Some>> ELSE <<Both, One, {Call(Second, <<c2>>)}>>]

(* One at a time: the first process may write half a line, the second leave *)
(* the log unrotated, the third give up cleaning it.                        *)
MCFaults == [o \in BOOLEAN |-> IF o THEN <<{}, {}>>
                               ELSE <<{"write"}, {"rotate", "remove"}, {"rotate", "rewrite"}>>]

Symmetric == Permutations(Proc)
=============================================================================
