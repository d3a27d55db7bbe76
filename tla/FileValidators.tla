---------------------------- MODULE FileValidators ----------------------------
(***************************************************************************)
(* The validators of file writes and edits.  Each picks the text it can    *)
(* see of the file as it will be, and hands it to a linter; whatever keeps *)
(* it from a text makes it pass.                                           *)
(***************************************************************************)
EXTENDS EditFragment, CommitMessage

CONSTANTS
    LintFaults(_, _),   \* the codes a linter reports for a text; none when not installed
    ActionsIn(_),       \* the uses of actions in a workflow, none in no text
    SecretsIn(_),       \* the names of the patterns that find a secret in a text
    SizeOf(_),          \* the size of a text
    Shell(_)            \* the shell a text's first line names, "" for none

NoText == <<>>
NoFileText == <<"no file">>     \* a file that cannot be read

Use == [digest: BOOLEAN, version: {"none", "inline", "above"}, note: {"none", "inline", "above"}]

\* A call of a file tool; a Write has a content, an Edit an old and a new text.
FileCall == [event: STRING, tool: STRING, path: STRING,
             content: Seq(STRING), old: Seq(STRING), new: Seq(STRING)]

IsEdit(call) == call.event = "PreToolUse" /\ call.tool = "Edit"

EditableFile(call, file) == call.old # <<>> /\ file # NoFileText

-----------------------------------------------------------------------------
\* What a validator sees.

Fragment(cfg, call, file) ==
    IF ~EditableFile(call, file) \/ call.new = <<>> THEN NoText
    ELSE ExtractEditFragment(file, call.old, call.new, Setting(cfg, "context_lines", 2))

OnDisk(file) == IF file = NoFileText THEN NoText ELSE file

\* shellscript, python, javascript, rust: an empty content means the file as it is.
EditOrWhole(cfg, call, file) ==
    IF IsEdit(call) THEN Fragment(cfg, call, file)
    ELSE IF call.content # <<>> THEN call.content ELSE OnDisk(file)

\* gofumpt looks at no edit.
WholeOnly(call, file) ==
    IF IsEdit(call) THEN NoText
    ELSE IF call.content # <<>> THEN call.content ELSE OnDisk(file)

\* markdown, terraform
ContentOrEdit(cfg, call, file) ==
    IF call.content # <<>> THEN call.content
    ELSE IF IsEdit(call) THEN Fragment(cfg, call, file) ELSE NoText

\* workflow: the whole file with the edit made.
ContentOrEdited(call, file) ==
    IF call.content # <<>> THEN call.content
    ELSE IF IsEdit(call) /\ EditableFile(call, file) THEN Replace(file, call.old, call.new)
    ELSE NoText

Directive == <<"shell directive", NL>>

\* Every fragment is linted without a word on its shell.
NoDirective(cfg, call, file) == <<>>

\* A fragment without the first line is told the shell of the file; "fish" ends in
\* "sh", so a fish script is told to be one of sh.
ShellDirective(cfg, call, file) ==
    IF /\ IsEdit(call) /\ EditableFile(call, file) /\ call.new # <<>>
       /\ Occurrences(file, call.old) # {}
       /\ StartsLater(file, call.old, Setting(cfg, "context_lines", 2))
       /\ Shell(file) # ""
    THEN Directive ELSE <<>>

-----------------------------------------------------------------------------
\* What it makes of it.

FragmentExcludes ==
    [shellscript |-> {"SC1009", "SC1072", "SC1073", "SC1089", "SC2034", "SC2154"},
     python      |-> {"F401", "F841"},
     javascript  |-> {"no-unused-vars", "no-undef", "import/no-unresolved"},
     rust        |-> {}]

Switch ==
    [markdown |-> "use_markdownlint", python |-> "use_ruff", javascript |-> "use_oxlint",
     rust |-> "use_rustfmt"]

Reference ==
    [shellscript |-> "FILE001", markdown |-> "FILE005", gofumpt |-> "FILE006",
     python |-> "FILE007", javascript |-> "FILE008", rust |-> "FILE009"]

Excuse(kind) == IF kind \in DOMAIN FragmentExcludes THEN FragmentExcludes[kind] ELSE {}

Excluded(kind, cfg, call) ==
    Setting(cfg, "exclude_rules", {}) \cup IF IsEdit(call) THEN Excuse(kind) ELSE {}

Lint(kind, cfg, call, text) ==
    IF \/ text = NoText
       \/ kind \in DOMAIN Switch /\ ~Setting(cfg, Switch[kind], TRUE)
       \/ LintFaults(kind, text) \subseteq Excluded(kind, cfg, call)
    THEN Pass ELSE FailAs(Reference[kind])

ShellScript(cfg, call, file) ==
    LET Check(text) == IF Shell(text) = "fish" THEN Pass ELSE Lint("shellscript", cfg, call, text)
    IN  Check(ShellDirective(cfg, call, file) \o EditOrWhole(cfg, call, file))

Python(cfg, call, file)     == Lint("python", cfg, call, EditOrWhole(cfg, call, file))
JavaScript(cfg, call, file) == Lint("javascript", cfg, call, EditOrWhole(cfg, call, file))
Rust(cfg, call, file)       == Lint("rust", cfg, call, EditOrWhole(cfg, call, file))
Gofumpt(cfg, call, file)    == Lint("gofumpt", cfg, call, WholeOnly(call, file))
Markdown(cfg, call, file)   == Lint("markdown", cfg, call, ContentOrEdit(cfg, call, file))

\* Terraform files are only ever warned about.
Terraform(cfg, call, file) ==
    LET Check(text) ==
            IF \/ text = NoText
               \/ /\ Setting(cfg, "check_format", TRUE) => LintFaults("fmt", text) = {}
                  /\ Setting(cfg, "use_tflint", TRUE) => LintFaults("tflint", text) = {}
            THEN Pass ELSE Warn
    IN  Check(ContentOrEdit(cfg, call, file))

BadUse(cfg, use) ==
    IF use.digest THEN Setting(cfg, "require_version_comment", TRUE) /\ use.version = "none"
    ELSE use.note = "none"

\* A newer version of an action, and actionlint, only warn on the terminal.
Workflow(cfg, call, file) ==
    IF /\ Setting(cfg, "enforce_digest_pinning", TRUE)
       /\ \E use \in ActionsIn(ContentOrEdited(call, file)) : BadUse(cfg, use)
    THEN FailAs("FILE004") ELSE Pass

\* Secrets: of an edit only the new text is searched.
SecretsFound(cfg, text) ==
    SecretsIn(text) \ (Setting(cfg, "disabled_patterns", {}) \cup Setting(cfg, "allow_list", {}))

\* A text that is larger is not searched.
SizeLimit(cfg) == Setting(cfg, "max_file_size", 1048576)

SecretsText(call) == IF call.tool = "Write" THEN call.content ELSE call.new

Secrets(cfg, call) ==
    LET text == SecretsText(call) IN
    IF \/ text = NoText
       \/ SizeOf(text) > SizeLimit(cfg)
       \/ SecretsFound(cfg, text) = {}
    THEN Pass
    ELSE IF Setting(cfg, "block_on_detection", TRUE) THEN FailAs("SEC001") ELSE WarnAs("SEC001")
=============================================================================
