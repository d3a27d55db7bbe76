---------------------------- MODULE ShellCommands ----------------------------
(***************************************************************************)
(* What pkg/parser makes of the command line of a Bash tool call: the      *)
(* simple commands it holds in the order of the walk over the syntax tree, *)
(* the files they write, and the git and gh commands among them.           *)
(*                                                                         *)
(* The shell grammar itself is the library mvdan.cc/sh.  A script here is  *)
(* what that library returns: whether the text parses, and its calls, each *)
(* with its words and the redirections of its statement.  A word is a      *)
(* record: its text once quotes are removed, and the shape the parsers of  *)
(* this repository look at.                                                *)
(***************************************************************************)
EXTENDS Naturals, SequencesExt

Word == [is: {"arg", "flag", "joined", "long", "equals"}, text: STRING,
         key: STRING, value: STRING, letters: Seq(STRING),
         quote: {"none", "single", "double"}, heredoc: BOOLEAN, subst: {"none", "bare", "double"}]

LOCAL Shaped(shape, t) ==
    [is |-> shape, text |-> t, key |-> "", value |-> "", letters |-> <<>>,
     quote |-> "none", heredoc |-> FALSE, subst |-> "none"]

Arg(t)  == Shaped("arg", t)
Flag(t) == Shaped("flag", t)
Long(t) == Shaped("long", t)
Equals(t, k, v)  == [Shaped("equals", t) EXCEPT !.key = k, !.value = v]
Joined(t, ls, v) == [Shaped("joined", t) EXCEPT !.letters = ls, !.value = v]
Quoted(t, how)   == [Shaped("arg", t) EXCEPT !.quote = how]
\* "$(cat <<'EOF' ...)": its text is the document; any other substitution has none.
Heredoc(t)       == [Quoted(t, "double") EXCEPT !.heredoc = TRUE, !.subst = "double"]
Substituted(t, how) == [Shaped("arg", t) EXCEPT !.subst = how]

Dashed(w) == w.is # "arg"

Script == [parses: BOOLEAN,
           calls: Seq([name: STRING, args: Seq(Word), out: STRING, doc: Seq(STRING)])]

-----------------------------------------------------------------------------
\* The walk.  A word whose text is empty (a bare variable, say) is dropped; a
\* cd changes the directory of every later command, whatever subshell or
\* branch it stood in, and replaces the directory before it.

Arguments(call) == SelectSeq(call.args, LAMBDA w : w.text # "")

Commands(script) ==
    LET Add(acc, call, args) ==
            [found |-> Append(acc.found, [name |-> call.name, args |-> args, dir |-> acc.dir]),
             dir   |-> IF call.name = "cd" /\ args # <<>> THEN args[1].text ELSE acc.dir]
        Visit(acc, call) == IF call.name = "" THEN acc ELSE Add(acc, call, Arguments(call))
    IN  FoldLeft(Visit, [found |-> <<>>, dir |-> ""], script.calls).found

Targets(name, args) ==
    CASE name = "tee" -> SelectSeq(args, LAMBDA w : ~Dashed(w))
      [] name \in {"cp", "copy", "mv", "move"} /\ Len(args) >= 2 -> <<Last(args)>>
      [] OTHER -> <<>>

\* Only a heredoc redirected to a file has a content; every other write is seen
\* without what it writes.
Redirected(call) ==
    IF call.out = "" THEN <<>> ELSE <<[path |-> call.out, content |-> call.doc]>>

FileWrites(script) ==
    LET Unseen(targets) == [i \in DOMAIN targets |-> [path |-> targets[i].text, content |-> <<>>]]
        Writes(call)    == Redirected(call) \o Unseen(Targets(call.name, Arguments(call)))
    IN  FoldLeft(LAMBDA acc, call : acc \o Writes(call), <<>>, script.calls)

-----------------------------------------------------------------------------
\* git commands

GlobalsWithValue ==
    {"-C", "--git-dir", "--work-tree", "-c", "--namespace", "--super-prefix",
     "--config-env", "--exec-path", "--list-cmds"}

GlobalOptions ==
    GlobalsWithValue \cup
    {"--html-path", "--man-path", "--info-path", "--paginate", "-p", "--no-pager",
     "--bare", "--no-replace-objects", "--literal-pathspecs", "--glob-pathspecs",
     "--noglob-pathspecs", "--icase-pathspecs", "--no-optional-locks"}

FlagsWithValue == {"-m", "--message", "-F", "--file", "-C", "--reuse-message"}

\* pending is the flag whose value the next word is.
NoGitCommand ==
    [sub |-> "", flags |-> <<>>, args |-> <<>>, values |-> <<>>, options |-> <<>>,
     pending |-> "", joined |-> FALSE]

LOCAL Put(f, k, v) == (k :> v) @@ f

BeforeSubcommand(g, w) ==
    CASE g.pending # "" ->
           [g EXCEPT !.options = Put(@, g.pending, w.text), !.pending = ""]
      [] w.is = "equals" /\ w.key \in GlobalOptions ->
           [g EXCEPT !.options = Put(@, w.key, w.value)]
      [] w.text \in GlobalOptions ->
           [g EXCEPT !.options = Put(@, w.text, ""),
                     !.pending = IF w.text \in GlobalsWithValue THEN w.text ELSE ""]
      [] OTHER -> [g EXCEPT !.sub = w.text]

\* -sSm "text" or -m"text": the letters up to the first one that takes a value.
CombinedFlags(g, w) ==
    LET taking == {i \in DOMAIN w.letters : w.letters[i] \in FlagsWithValue}
        Seen(upto) == [g EXCEPT !.flags = @ \o SubSeq(w.letters, 1, upto)]
        Take(upto) ==
            IF w.value # "" THEN [Seen(upto) EXCEPT !.values = Put(@, w.letters[upto], w.value)]
            ELSE [Seen(upto) EXCEPT !.pending = w.letters[upto], !.joined = TRUE]
    IN  IF taking = {} THEN Seen(Len(w.letters)) ELSE Take(Min(taking))

\* A repeated -m keeps its first value, which is the title; a value that a
\* combined flag takes replaces what was there.
AfterSubcommand(g, w) ==
    CASE g.pending # "" ->
           [g EXCEPT !.values = IF g.joined \/ g.pending \notin DOMAIN @
                                THEN Put(@, g.pending, w.text) ELSE @,
                     !.pending = "", !.joined = FALSE]
      [] w.is = "arg"    -> [g EXCEPT !.args = Append(@, w.text)]
      [] w.is = "joined" -> CombinedFlags(g, w)
      [] OTHER -> [g EXCEPT !.flags = Append(@, w.text),
                            !.pending = IF w.text \in FlagsWithValue THEN w.text ELSE ""]

\* words are those of the command as they were, dir the directory it runs in.
GitCommand(g, cmd) ==
    [sub |-> g.sub, flags |-> g.flags, args |-> g.args, values |-> g.values, words |-> cmd.args,
     dir |-> IF "-C" \in DOMAIN g.options THEN g.options["-C"] ELSE cmd.dir]

ParseGit(cmd) ==
    LET Step(g, w) == IF g.sub = "" THEN BeforeSubcommand(g, w) ELSE AfterSubcommand(g, w)
    IN  GitCommand(FoldLeft(Step, NoGitCommand, cmd.args), cmd)

HasFlag(g, f)    == f \in ToSet(g.flags)
HasAnyFlag(g, F) == ToSet(g.flags) \cap F # {}
ValueOf(g, f)    == IF f \in DOMAIN g.values THEN g.values[f] ELSE ""

\* The git commands among some commands, those without a subcommand left out.
GitCommands(commands) ==
    LET git == SelectSeq(commands, LAMBDA cmd : cmd.name = "git")
    IN  SelectSeq([i \in DOMAIN git |-> ParseGit(git[i])], LAMBDA g : g.sub # "")

\* What a validator is given of a line: its raw calls, the commands the walk found,
\* the git commands among them, and the files they write.
ParseResult(script, commands) ==
    [parses |-> script.parses, calls |-> script.calls, commands |-> commands,
     gits |-> GitCommands(commands), writes |-> FileWrites(script)]

Parse(script) == ParseResult(script, Commands(script))

-----------------------------------------------------------------------------
\* gh pr merge

CONSTANT NumberOf(_)   \* the number a positional argument or pull request URL names, or 0

MergeSwitch(t) ==
    CASE t \in {"--squash", "-s"}        -> {"squash"}
      [] t \in {"--merge", "-m"}         -> {"merge"}
      [] t \in {"--rebase", "-r"}        -> {"rebase"}
      [] t = "--auto"                    -> {"auto"}
      [] t = "--disable-auto"            -> {"disable-auto"}
      [] t \in {"--delete-branch", "-d"} -> {"delete"}
      [] t = "--admin"                   -> {"admin"}
      [] OTHER                           -> {}

MergeOption(t) ==
    CASE t \in {"--subject", "-t"}    -> "subject"
      [] t \in {"--body", "-b"}       -> "body"
      [] t \in {"--body-file", "-F"}  -> "bodyFile"
      [] t = "--match-head-commit"    -> "match"
      [] t \in {"--repo", "-R"}       -> "repo"
      [] OTHER                        -> ""

MergeOptions == {"subject", "body", "bodyFile", "match", "repo"}

IsGHCall(cmd, noun, verb) ==
    /\ cmd.name = "gh"
    /\ Len(cmd.args) >= 2
    /\ cmd.args[1].text = noun
    /\ cmd.args[2].text = verb

ParseMerge(cmd) ==
    LET Step(m, w) ==
            CASE m.pending # "" -> [m EXCEPT !.text[m.pending] = w.text, !.pending = ""]
              [] MergeSwitch(w.text) # {} -> [m EXCEPT !.on = @ \cup MergeSwitch(w.text)]
              [] MergeOption(w.text) # "" -> [m EXCEPT !.pending = MergeOption(w.text)]
              [] w.is = "equals" /\ MergeOption(w.key) # "" ->
                   [m EXCEPT !.text[MergeOption(w.key)] = w.value]
              [] ~Dashed(w) -> [m EXCEPT !.number = NumberOf(w.text)]
              [] OTHER -> m
    IN  FoldLeft(Step,
                 [number |-> 0, on |-> {}, text |-> [o \in MergeOptions |-> ""], pending |-> ""],
                 SubSeq(cmd.args, 3, Len(cmd.args)))

IsSquashMerge(m) == m.on \cap {"merge", "rebase"} = {}
=============================================================================
