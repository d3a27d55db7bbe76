---------------------------- MODULE GitValidators ----------------------------
(***************************************************************************)
(* The validators of git commands: commit, --no-verify, add, push, fetch   *)
(* and branch names.  Each is given the parsed line of the Bash call, its own   *)
(* configuration, and the repositories it may ask: one for each directory, *)
(* "" being the one the hook runs in.                                      *)
(***************************************************************************)
EXTENDS ShellCommands, CommitMessage

CONSTANTS
    TextOf(_),    \* what the rules read in a message word
    FileText(_),  \* the text of a file, Unreadable when it cannot be read
    Unreadable,
    PathOf(_),    \* the components of a cleaned path
    BranchOf(_)   \* what the patterns read in a branch name

NameShape == [spaces: BOOLEAN, upper: BOOLEAN, type: STRING, typed: BOOLEAN]

\* What a runner answers; an error is a member of its own.
Repository ==
    [inRepo: BOOLEAN, root: BOOLEAN, staged: {"none", "some", "error"},
     remotes: SUBSET STRING, current: STRING, tracking: STRING]

\* The places of the commands of a kind in a line.
Calling(line, sub) ==
    IF line.parses THEN {i \in DOMAIN line.gits : line.gits[i].sub = sub} ELSE {}

-----------------------------------------------------------------------------
\* git commit

AddsInChain(gits) == \E i \in DOMAIN gits : gits[i].sub = "add"

LongForm(flag) ==
    CASE flag = "-s" -> {"--signoff"} [] flag = "-S" -> {"--gpg-sign"} [] OTHER -> {}

MissingFlags(cfg, g) ==
    {f \in ListSetting(cfg, "required_flags", {"-s", "-S"}) :
        ~HasAnyFlag(g, {f} \cup LongForm(f))}

NothingStaged(cfg, g, added, repo) ==
    /\ ~HasAnyFlag(g, {"--amend", "--allow-empty"}) /\ ~added
    /\ Setting(cfg, "check_staging_area", TRUE)
    /\ ~HasAnyFlag(g, {"-a", "-A", "--all"})
    /\ repo.inRepo
    /\ repo.staged = "none"

FirstValue(g, flags) ==
    LET given == {i \in DOMAIN flags : ValueOf(g, flags[i]) # ""}
    IN  IF given = {} THEN "" ELSE ValueOf(g, flags[Min(given)])

Message(file, inline) == IF file # "" THEN FileText(file) ELSE TextOf(inline)

\* Without a message the editor will ask for one.
CheckMessage(cfg, file, inline) ==
    IF file = "" /\ inline = "" THEN Pass
    ELSE IF file # "" /\ Message(file, inline) = Unreadable THEN Fail
    ELSE IF Message(file, inline).title.form = "empty" THEN Pass
    ELSE ValidateMessage(cfg, Message(file, inline))

CheckCommitMessage(cfg, g) ==
    CheckMessage(cfg, FirstValue(g, <<"-F", "--file">>), FirstValue(g, <<"-m", "--message">>))

ValidateCommand(cfg, g, added, repo) ==
    IF MissingFlags(cfg, g) # {} THEN FailAs("GIT010")
    ELSE IF NothingStaged(cfg, g, added, repo) THEN FailAs("GIT003")
    ELSE IF ~Setting(cfg, "message_enabled", TRUE) THEN Pass
    ELSE CheckCommitMessage(cfg, g)

\* Only the first commit of the chain is looked at, always in the directory of
\* the hook; an add anywhere in the chain, before it or after, stands for a
\* staged file.
FirstCommit(line) == line.gits[Min(Calling(line, "commit"))]

Commit(cfg, line, repos) ==
    IF ~line.parses THEN Warn
    ELSE IF Calling(line, "commit") = {} THEN Pass
    ELSE ValidateCommand(cfg, FirstCommit(line), AddsInChain(line.gits), repos[""])

-----------------------------------------------------------------------------
\* git commit --no-verify, and git add.  Both look at the word after "git", not
\* at the subcommand behind the global options.

FirstWordIs(g, word) == g.words[1].text = word

\* Only the first git command of the line is looked at.
NoVerifyFirst(line) ==
    IF /\ line.parses /\ line.gits # <<>>
       /\ line.gits[1].sub = "commit" /\ HasAnyFlag(line.gits[1], {"--no-verify", "-n"})
    THEN FailAs("GIT021") ELSE Pass

NoVerify(line) ==
    IF ~line.parses THEN Warn
    ELSE IF \E i \in DOMAIN line.gits : /\ FirstWordIs(line.gits[i], "commit")
                                         /\ HasAnyFlag(line.gits[i], {"--no-verify", "-n"})
    THEN FailAs("GIT021") ELSE Pass

\* The paths of an add: flags, the value of --chmod and "." left out.
AddedPaths(words) ==
    {words[i].text : i \in
        {j \in DOMAIN words : /\ ~Dashed(words[j])
                              /\ words[j].text # "."
                              /\ ~(j > 1 /\ words[j - 1].text = "--chmod")}}

\* A pattern dir/* stands for everything below the directory, and itself.
Blocked(path, patterns) ==
    \E dir \in patterns : PathOf(path) # <<>> /\ IsPrefix(<<dir>>, PathOf(path))

Add(cfg, line, repos) ==
    IF ~repos[""].inRepo \/ ~repos[""].root THEN Pass
    ELSE IF ~line.parses THEN Warn
    ELSE IF \E i \in DOMAIN line.gits :
                /\ FirstWordIs(line.gits[i], "add")
                /\ \E path \in AddedPaths(Tail(line.gits[i].words)) :
                       Blocked(path, ListSetting(cfg, "blocked_patterns", {"tmp"}))
    THEN FailAs("GIT019") ELSE Pass

-----------------------------------------------------------------------------
\* git push and git fetch ask the repository of the directory they run in.

\* ValidateGitSubcommand: the first of the results by their place that does not pass.
FirstFailure(results) ==
    LET failing == {i \in DOMAIN results : ~results[i].passed}
    IN  IF failing = {} THEN Pass ELSE results[Min(failing)]

RemoteExists(remote, repo, ref) == IF remote \in repo.remotes THEN Pass ELSE FailAs(ref)

\* A push without arguments is taken to go to origin.
PushRemoteNamed(g, repo) == IF g.args # <<>> THEN g.args[1] ELSE "origin"

\* Without arguments the remote is the one the current branch tracks.
PushRemote(g, repo) ==
    IF g.args # <<>> THEN g.args[1]
    ELSE IF repo.current = "" \/ repo.tracking = "" THEN "origin" ELSE repo.tracking

CheckPush(cfg, g, repo) ==
    LET remote == PushRemote(g, repo) IN
    IF ~repo.inRepo THEN Pass
    ELSE IF remote \in Setting(cfg, "blocked_remotes", {}) THEN FailAs("GIT025")
    ELSE RemoteExists(remote, repo, "GIT007")

Push(cfg, line, repos) ==
    FirstFailure([i \in Calling(line, "push") |->
                    CheckPush(cfg, line.gits[i], repos[line.gits[i].dir])])

CheckFetch(g, repo) ==
    IF ~repo.inRepo \/ g.args = <<>> THEN Pass ELSE RemoteExists(g.args[1], repo, "GIT024")

Fetch(line, repos) ==
    FirstFailure([i \in Calling(line, "fetch") |->
                    CheckFetch(line.gits[i], repos[line.gits[i].dir])])

-----------------------------------------------------------------------------
\* branch names

CheckoutCreate == <<"-b", "--branch">>
SwitchCreate   == <<"-c", "--create", "-C", "--force-create">>
BranchDelete   == {"-d", "-D", "--delete"}
BranchQuery    ==
    {"-a", "--all", "-r", "--remotes", "-l", "--list", "--contains", "--no-contains",
     "--merged", "--no-merged", "--points-at", "-v", "--verbose", "-vv", "--sort",
     "--format", "--show-current", "--column", "--no-column",
     "-m", "-M", "--move", "-c", "-C", "--copy"}

CreatesBranch(g) ==
    CASE g.sub = "checkout" -> HasAnyFlag(g, ToSet(CheckoutCreate))
      [] g.sub = "switch"   -> HasAnyFlag(g, ToSet(SwitchCreate))
      [] g.sub = "branch"   -> ~HasAnyFlag(g, BranchDelete \cup BranchQuery)
      [] OTHER              -> FALSE

\* checkout and switch take for the name the flag that follows a creating flag,
\* when there is one, and the first argument otherwise.
FlagAfter(g, creating) ==
    LET First(f) == Min({i \in 1..Len(g.flags) - 1 : g.flags[i] = f})
        flagged  == SelectSeq(creating, LAMBDA f : \E i \in 1..Len(g.flags) - 1 : g.flags[i] = f)
    IN  IF flagged = <<>> THEN <<>> ELSE <<g.flags[First(flagged[1]) + 1]>>

BranchName(g) ==
    LET flagged == CASE g.sub = "checkout" -> FlagAfter(g, CheckoutCreate)
                     [] g.sub = "switch"   -> FlagAfter(g, SwitchCreate)
                     [] OTHER              -> <<>>
    IN  IF flagged \o g.args = <<>> THEN "" ELSE (flagged \o g.args)[1]

BadName(cfg, name) ==
    LET shape == BranchOf(name)
        upper == Setting(cfg, "allow_uppercase", FALSE)
    IN  \/ shape.spaces
        \/ /\ name \notin ListSetting(cfg, "protected_branches", {"main", "master"})
           /\ \/ ~upper /\ shape.upper
              \/ /\ Setting(cfg, "require_type", TRUE)
                 /\ \/ ~shape.typed
                    \/ shape.type \notin
                         ListSetting(cfg, "valid_types",
                                     {"feat", "fix", "docs", "style", "refactor",
                                      "test", "chore", "ci", "build", "perf"})

Branch(cfg, line) ==
    IF ~line.parses THEN Warn
    ELSE IF \E g \in ToSet(line.gits) :
                CreatesBranch(g) /\ BranchName(g) # "" /\ BadName(cfg, BranchName(g))
    THEN FailAs("GIT020") ELSE Pass
=============================================================================
