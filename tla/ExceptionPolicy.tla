-------------------------- MODULE ExceptionPolicy --------------------------
(***************************************************************************)
(* Which blocking errors an exception token may turn into a warning        *)
(* (internal/exceptions token.go, policy.go, engine.go and                 *)
(* internal/dispatcher/exception.go), as functions of the command, the     *)
(* error and the configured policies.                                      *)
(*                                                                         *)
(* A token keeps its error code and what the policies tell apart in its    *)
(* reason, once it is decoded and trimmed: whether there is one, whether   *)
(* it is long enough, whether it begins with an approved one and whether   *)
(* an audit entry that carries it is a line too long for bufio.Scanner.    *)
(***************************************************************************)
EXTENDS Integers, Sequences, SequencesExt

CONSTANTS
    Code,        \* error codes the token grammar accepts
    NoCode,      \* an error whose reference is not a page of klaudiu.sh
    Policy,      \* configured policies: a function on a set of codes
    Enabled      \* [exceptions] enabled

Reasons == {"none", "short", "free", "approved", "endless"}

PolicyType ==
    [enabled: BOOLEAN,       \* the policy itself
     allow: BOOLEAN,         \* allow_exception
     required: BOOLEAN,      \* require_reason
     listed: BOOLEAN,        \* valid_reasons is not empty
     perHour: Nat,           \* 0 for unlimited
     perDay: Nat]

ASSUME PolicyAssumption ==
    /\ NoCode \notin Code
    /\ DOMAIN Policy \subseteq Code
    /\ \A c \in DOMAIN Policy : Policy[c] \in PolicyType
    /\ Enabled \in BOOLEAN

\* A candidate is an assignment of KLACK or a comment that mentions the prefix.
Token == [code: Code, reason: Reasons]
Malformed == [code |-> NoCode, reason |-> "none"]

(* A command as the shell parser sees it: candidates in KLACK assignments   *)
(* and in comments, in the order of the walk.  No text: no Bash command.    *)
CommandType ==
    [text: BOOLEAN, parses: BOOLEAN,
     env: Seq(Token \cup {Malformed}), comments: Seq(Token \cup {Malformed})]

\* A validation error; ~hooked: it is about a file the command writes.
ErrorType == [code: Code \cup {NoCode}, blocks: BOOLEAN, hooked: BOOLEAN]

-----------------------------------------------------------------------------
\* Parser.Parse

Candidates(cmd) == cmd.env \o cmd.comments

\* The well-formed candidates, assignments before comments.
Tokens(cmd) == SelectSeq(Candidates(cmd), LAMBDA t : t # Malformed)

HasToken(cmd) == cmd.text /\ cmd.parses /\ Tokens(cmd) # <<>>

FoundToken(cmd) == Head(Tokens(cmd))

-----------------------------------------------------------------------------
\* PolicyMatcher

DefaultPolicy ==
    [enabled |-> TRUE, allow |-> TRUE, required |-> FALSE, listed |-> FALSE,
     perHour |-> 0, perDay |-> 0]

PolicyOf(c) == IF c \in DOMAIN Policy THEN Policy[c] ELSE DefaultPolicy

\* validateReason; an approved reason is long enough.
ReasonSuffices(policy, reason) ==
    /\ reason \notin {"none", "short"}
    /\ policy.listed => reason = "approved"

Match(token) ==
    LET policy == PolicyOf(token.code)
    IN  /\ policy.enabled
        /\ policy.allow
        /\ policy.required => ReasonSuffices(policy, token.reason)

-----------------------------------------------------------------------------
\* Engine.Evaluate, asked by CheckException through Handler.Check

\* The handler is asked: the system is on, the error blocks and has a code,
\* and the context has a command, which the context of a file write has not.
Asks(cmd, err) == Enabled /\ err.blocks /\ err.code # NoCode /\ err.hooked

(* "unnamed" leaves no audit entry: nothing in the command names the error. *)
Evaluate(cmd, err) ==
    IF ~Asks(cmd, err) \/ ~HasToken(cmd) \/ FoundToken(cmd).code # err.code
    THEN "unnamed"
    ELSE IF Match(FoundToken(cmd)) THEN "allowed" ELSE "denied"
=============================================================================
