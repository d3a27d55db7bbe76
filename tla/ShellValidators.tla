--------------------------- MODULE ShellValidators ---------------------------
(***************************************************************************)
(* The validator of command substitutions: in the messages and bodies of   *)
(* git and gh commands, or, in its comprehensive mode, in every command.   *)
(***************************************************************************)
EXTENDS ShellCommands, CommitMessage

\* The words with a substitution, by their position after the command name.
Substitutions(line, kinds) ==
    UNION {{j \in DOMAIN call.args : call.args[j].subst \in kinds} : call \in ToSet(line.calls)}

\* Position at of the command's arguments holds a message, a title or a body.
\* The arguments are those the walk kept: one with an empty text is not counted.
MessageArgument(cmd, at) ==
    LET args    == cmd.args
        texts   == IF cmd.name = "git" THEN {"-m", "--message"} ELSE {"--body", "--title"}
        keys    == IF cmd.name = "git" THEN {"--message"} ELSE {"--body", "--title"}
        command == IF cmd.name = "git" THEN 1 ELSE 2
    IN  /\ at > command /\ at <= Len(args)
        /\ args[at - 1].text \in texts \/ args[at].key \in keys

Relevant(cmd, at) ==
    /\ \/ cmd.name = "git" /\ cmd.args # <<>> /\ cmd.args[1].text = "commit"
       \/ IsGHCall(cmd, "pr", "create")
       \/ IsGHCall(cmd, "issue", "create")
    /\ MessageArgument(cmd, at)

\* A position is looked up in every command of the line, not only in the one
\* the substitution stands in.
LegacyHit(line) ==
    \E at \in Substitutions(line, {"double"}) :
        \E cmd \in ToSet(line.commands) : Relevant(cmd, at)

ComprehensiveHit(cfg, line) ==
    Substitutions(line, IF Setting(cfg, "check_unquoted", TRUE) THEN {"bare", "double"}
                          ELSE {"double"}) # {}

Backticks(cfg, line) ==
    IF /\ line.parses
       /\ IF Setting(cfg, "check_all_commands", FALSE)
          THEN ComprehensiveHit(cfg, line) ELSE LegacyHit(line)
    THEN FailAs("SHELL001") ELSE Pass
=============================================================================
