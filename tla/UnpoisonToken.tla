--------------------------- MODULE UnpoisonToken ---------------------------
(***************************************************************************)
(* The acknowledgment token that releases a poisoned session               *)
(* (internal/session/unpoison.go), the decision the dispatcher takes on it *)
(* and the token the poisoned-session error advertises                     *)
(* (internal/dispatcher).                                                  *)
(*                                                                         *)
(* Text is abstracted to what the decision reads.  A code is a model       *)
(* value; what matters of its spelling is whether errorCodeExpr accepts it *)
(* (ValidCode), refuses it (BadCode) or whether it is the empty string     *)
(* (EmptyCode).  A token is the set of the codes between its commas.  A    *)
(* command is what the shell parser makes of it: whether it is text of a   *)
(* Bash tool at all, whether it parses, whether it shows one of the two    *)
(* markers ("KLACK=" or "# SESS:") and, in the order of the syntax walk,   *)
(* the tokens in its KLACK assignments and in its comments.  A value       *)
(* without the "SESS:" prefix is the empty token: both are refused.        *)
(***************************************************************************)
EXTENDS Integers, Sequences, SequencesExt

CONSTANTS
    ValidCode,   \* codes the token grammar accepts, such as GIT001
    BadCode,     \* non-empty codes it refuses, such as git-best-practices
    EmptyCode    \* Reference.Code() of a reference that ends in "/"

ASSUME CodeAssumption ==
    /\ ValidCode \cap BadCode = {}
    /\ EmptyCode \notin ValidCode \cup BadCode

Code == ValidCode \cup BadCode \cup {EmptyCode}

\* A token is the set of the strings between its commas; {} is "no token".
Token == SUBSET Code

\* The commands of hook requests; ~text stands for a tool that has none.
CommandType == [text: BOOLEAN, parses: BOOLEAN, marked: BOOLEAN,
                env: Seq(Token), comments: Seq(Token)]

-----------------------------------------------------------------------------

\* Mutant of ParseToken: the codes are not split at the commas.
ParseTokenUnsplit(raw) ==
    LET pieces == raw \ {EmptyCode}
    IN  IF pieces \subseteq ValidCode /\ Cardinality(pieces) = 1 THEN pieces ELSE {}

(* parseToken: empty pieces are skipped, one malformed piece refuses the   *)
(* whole token, and so does having no piece left.                          *)
ParseToken(raw) ==
    LET pieces == raw \ {EmptyCode}
    IN  IF pieces \subseteq ValidCode THEN pieces ELSE {}

\* The tokens of a command in the order Parse looks at them: findTokenInEnvVars
\* first, findTokenInComments after it.
Candidates(cmd) == cmd.env \o cmd.comments

\* The positions of the well-formed tokens among them.
WellFormed(cmd) == {i \in DOMAIN Candidates(cmd) : ParseToken(Candidates(cmd)[i]) # {}}

\* Parse: the first well-formed token wins, later ones are not read; {} if none.
FoundToken(cmd) ==
    IF WellFormed(cmd) = {} THEN {}
    ELSE ParseToken(Candidates(cmd)[Min(WellFormed(cmd))])

\* Mutant of Acknowledgment: one of the codes is enough.
AcknowledgmentPartial(cmd, codes) ==
    IF ~cmd.text THEN "refused"
    ELSE IF codes = {} THEN "acknowledged"
    ELSE IF ~cmd.parses THEN IF cmd.marked THEN "lenient" ELSE "refused"
    ELSE IF codes \cap FoundToken(cmd) # {} THEN "acknowledged" ELSE "refused"

(* CheckUnpoisonAcknowledgmentFull and the caller's treatment of its error: *)
(* a tool without a command acknowledges nothing, a session poisoned with   *)
(* no code asks for nothing, and a command that does not parse is let       *)
(* through when it shows a marker.                                          *)
Acknowledgment(cmd, codes) ==
    IF ~cmd.text THEN "refused"
    ELSE IF codes = {} THEN "acknowledged"
    ELSE IF ~cmd.parses THEN IF cmd.marked THEN "lenient" ELSE "refused"
    ELSE IF codes \subseteq FoundToken(cmd) THEN "acknowledged" ELSE "refused"

Releases(cmd, codes) == Acknowledgment(cmd, codes) # "refused"

(* The command a reader of the poisoned-session error types: its FixHint is *)
(* KLACK="SESS:<codes>" in front of the command.                            *)
Advertised(codes) ==
    [text |-> TRUE, parses |-> TRUE, marked |-> TRUE,
     env |-> <<codes>>, comments |-> <<>>]

-----------------------------------------------------------------------------

(* What the guide promises of a key, said without the parser's order of     *)
(* search: some one token of the command, made of well-formed codes only,   *)
(* names every code of the poison, or the command is a visible attempt that *)
(* the shell parser cannot read.                                            *)
NamesAll(cmd, codes) ==
    \E t \in ToSet(cmd.env) \cup ToSet(cmd.comments) :
        codes # {} /\ codes \subseteq t /\ t \subseteq ValidCode \cup {EmptyCode}

IsKey(cmd, codes) ==
    /\ cmd.text
    /\ \/ cmd.parses /\ NamesAll(cmd, codes)
       \/ ~cmd.parses /\ cmd.marked

=============================================================================
