--------------------------- MODULE GitHubValidators ---------------------------
(***************************************************************************)
(* The validators of gh commands: the pull request that gh pr create       *)
(* opens, the message that gh pr merge will commit, and the body of a new  *)
(* issue.                                                                  *)
(***************************************************************************)
EXTENDS ShellCommands, CommitMessage

CONSTANTS
    RequestOf(_),     \* what the rules read in the body of a request or an issue
    RequestText(_),   \* what the message rules read in a title or body
    LeadingType(_),   \* the known type a title starts with, "" for none
    LabelsOf(_),      \* the labels a --label value lists
    SkipsCI(_),       \* whether one of those labels starts with ci/skip
    FileBody(_),      \* the body a file holds, "" when it cannot be read
    PullRequest(_),   \* the title and body GitHub has for a number; NoAnswer
    NoAnswer

ASSUME EmptyTextAssumption == RequestText("").lines = <<>> /\ RequestText("").finds = {}

Body == [motivation: BOOLEAN, implementation: BOOLEAN, supporting: BOOLEAN,
         placeholder: BOOLEAN, skip: BOOLEAN, entry: {"none", "semantic", "free"},
         early: BOOLEAN, formal: BOOLEAN, broken: BOOLEAN, lint: BOOLEAN,
         about: {"code", "docs", "unit tests"}]

-----------------------------------------------------------------------------
\* The flags are looked up in the text of the whole command line: whichever
\* command of the chain holds the first one.

LineWords(line) == FoldLeft(LAMBDA acc, call : acc \o call.args, <<>>, line.calls)

\* The first text that is not empty.
FirstText(texts) ==
    LET said == {i \in DOMAIN texts : texts[i] # ""}
    IN  IF said = {} THEN "" ELSE texts[Min(said)]

After(words, flag, quote) ==
    LET at == {i \in 2..Len(words) : words[i - 1].text = flag /\ words[i].quote = quote}
    IN  IF at = {} THEN "" ELSE words[Min(at)].text

QuotedAfter(words, flag) == FirstText([q \in 1..2 |-> After(words, flag, <<"double", "single">>[q])])

FirstHeredoc(words) ==
    LET docs == SelectSeq(words, LAMBDA w : w.heredoc)
    IN  IF docs = <<>> THEN "" ELSE docs[1].text

BodyText(words) == FirstText(<<FirstHeredoc(words), QuotedAfter(words, "--body")>>)

-----------------------------------------------------------------------------
\* gh pr create

NonUserFacing == {"ci", "test", "chore", "build", "docs", "style", "refactor"}

TitleRefused(cfg, title) ==
    \/ TooLong(title, title.bytes, Setting(cfg, "title_max_length", 50),
               Setting(cfg, "allow_unlimited_revert_title", TRUE))
    \/ /\ Setting(cfg, "title_conventional_commits", TRUE)
       /\ title.form # "revert"
       /\ \/ ~ValidTitle(title, ListSetting(cfg, "valid_types", DefaultTypes))
          \/ InfraScopeMisuse(title)

BodyRefused(cfg, body) ==
    \/ ~body.motivation \/ ~body.implementation
    \/ body.early /\ body.motivation
    \/ Setting(cfg, "require_changelog", FALSE) /\ ~body.skip /\ body.entry = "none"
    \/ body.entry = "free"
    \/ body.supporting /\ body.placeholder

BodyDoubted(cfg, body, type) ==
    LET silent == ~body.skip /\ body.entry = "none" IN
    \/ ~body.supporting \/ body.formal \/ body.broken \/ body.lint
    \/ /\ ~(Setting(cfg, "require_changelog", FALSE) /\ silent)
       /\ type # ""
       /\ IF type \in NonUserFacing THEN silent ELSE body.skip

\* A change that skips the tests skips the end-to-end tests too.
LabelsDoubted(body, type, label) ==
    LET skipTests == type \in {"ci", "docs", "chore", "style"} \/ body.about = "docs"
    IN  \/ skipTests /\ label = ""
        \/ (skipTests \/ body.about = "unit tests") /\ ~SkipsCI(label)

Forbidden(cfg, texts) ==
    \E t \in texts : /\ t # ""
                     /\ RequestText(t).finds
                          \cap ListSetting(cfg, "forbidden_patterns", ForbiddenByDefault) # {}

RequestRefused(cfg, title, text, base, label) ==
    \/ title # "" /\ TitleRefused(cfg, RequestText(title).title)
    \/ Forbidden(cfg, {title, text})
    \/ IF text = "" THEN Setting(cfg, "require_body", TRUE) ELSE BodyRefused(cfg, RequestOf(text))
    \/ base \notin {"", "main", "master"} \cup LabelsOf(label)

RequestDoubted(cfg, title, text, label) ==
    \/ title = "" \/ text = ""
    \/ BodyDoubted(cfg, RequestOf(text), LeadingType(title))
    \/ /\ Setting(cfg, "check_ci_labels", TRUE)
       /\ LabelsDoubted(RequestOf(text), LeadingType(title), label)

ValidateRequest(cfg, title, text, base, label) ==
    IF RequestRefused(cfg, title, text, base, label) THEN FailAs("GIT023")
    ELSE IF RequestDoubted(cfg, title, text, label) THEN WarnAs("GIT023") ELSE Pass

Holds(line, noun, verb) ==
    \E i \in DOMAIN line.commands : IsGHCall(line.commands[i], noun, verb)

RequestCreate(cfg, line) ==
    LET Given(flag) == QuotedAfter(LineWords(line), flag)
    IN  IF ~line.parses THEN Warn
        ELSE IF ~Holds(line, "pr", "create") THEN Pass
        ELSE ValidateRequest(cfg, Given("--title"), BodyText(LineWords(line)),
                             Given("--base"), Given("--label"))

-----------------------------------------------------------------------------
\* gh pr merge: only squash merges commit a message of their own.

MergeTitleRefused(msg, title) ==
    \/ title.form = "empty"
    \/ TooLong(title, title.bytes, Setting(msg, "title_max_length", 50),
               Setting(msg, "allow_unlimited_revert_title", TRUE))
    \/ /\ Setting(msg, "conventional_commits", TRUE)
       /\ \/ NotConventional(title, ListSetting(msg, "valid_types", DefaultTypes),
                             Setting(msg, "require_scope", TRUE))
          \/ Setting(msg, "block_infra_scope_misuse", TRUE) /\ InfraScopeMisuse(title)

\* The body is handed to rules made for a whole message, which skip its first line.
MergeBodyRefused(msg, body) ==
    \E ref \in {"GIT005", "GIT011", "GIT012", "GIT014", "GIT016"} :
        BodyFault(msg, body, ref) /\ (ref = "GIT016" => Len(body.lines) > 2)

MergeSignoff(cfg, m) ==
    LET body     == RequestText(m.text["body"])
        expected == Setting(cfg, "expected_signoff", "")
    IN  IF ~Setting(cfg, "require_signoff", TRUE) THEN Pass
        ELSE IF m.text["body"] # "" /\ body.signoff # ""
        THEN (IF expected = "" \/ expected \in body.signoffs THEN Pass ELSE FailAs("GIT015"))
        ELSE IF m.text["bodyFile"] # "" THEN Pass ELSE FailAs("GIT018")

\* Without a number gh looks for the request of the current branch.
Fetched(m, repo) ==
    IF m.number = 0 /\ repo.current = "" THEN NoAnswer ELSE PullRequest(m.number)

ValidateMerge(cfg, msg, m, repo) ==
    LET pr == Fetched(m, repo) IN
    IF "auto" \in m.on /\ ~Setting(cfg, "validate_automerge", TRUE) THEN Pass
    ELSE IF ~IsSquashMerge(m) THEN Pass
    ELSE IF pr = NoAnswer THEN Warn
    ELSE IF /\ Setting(msg, "message_enabled", TRUE)
            /\ \/ MergeTitleRefused(msg, RequestText(pr.title).title)
               \/ pr.body # "" /\ MergeBodyRefused(msg, RequestText(pr.body))
    THEN FailAs("GIT017") ELSE MergeSignoff(cfg, m)

Merges(line) == {i \in DOMAIN line.commands : IsGHCall(line.commands[i], "pr", "merge")}

FirstMerge(line) == ParseMerge(line.commands[Min(Merges(line))])

\* Only the first merge of the line is looked at.
Merge(cfg, msg, line, repo) ==
    IF ~line.parses THEN Warn
    ELSE IF Merges(line) = {} THEN Pass
    ELSE ValidateMerge(cfg, msg, FirstMerge(line), repo)

-----------------------------------------------------------------------------
\* gh issue create: faults of the markdown only ever warn.

BodyFileName(words) ==
    FirstText(<<QuotedAfter(words, "--body-file"), After(words, "--body-file", "none")>>)

IssueBody(words) ==
    LET InFile(name) == IF name = "" THEN "" ELSE FileBody(name)
    IN  FirstText(<<BodyText(words), InFile(BodyFileName(words))>>)

ValidateIssue(cfg, body) ==
    IF body = "" THEN (IF Setting(cfg, "require_body", FALSE) THEN FailAs("GH001") ELSE Pass)
    ELSE IF RequestOf(body).lint THEN WarnAs("GH001") ELSE Pass

Issue(cfg, line) ==
    IF ~line.parses THEN Warn
    ELSE IF ~Holds(line, "issue", "create") THEN Pass
    ELSE ValidateIssue(cfg, IssueBody(LineWords(line)))
=============================================================================
