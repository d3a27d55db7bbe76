---------------------------- MODULE CommitMessage ----------------------------
(***************************************************************************)
(* The rules a commit message must satisfy: the parser of conventional     *)
(* titles, the rules themselves, and the one reference that a message      *)
(* breaking several of them is reported under.                             *)
(*                                                                         *)
(* A text is what its rules read of it: the title, the lines, and what the *)
(* regular expressions find anywhere in it.  A validator's result is       *)
(* whether it passed, whether it blocks, and its reference code.           *)
(***************************************************************************)
EXTENDS Naturals, SequencesExt

Pass      == [passed |-> TRUE,  block |-> FALSE, ref |-> ""]
Warn      == [passed |-> FALSE, block |-> FALSE, ref |-> ""]
WarnAs(r) == [passed |-> FALSE, block |-> FALSE, ref |-> r]
Fail      == [passed |-> FALSE, block |-> TRUE,  ref |-> ""]
FailAs(r) == [passed |-> FALSE, block |-> TRUE,  ref |-> r]

\* Configuration of a validator: the keys somebody set.
Setting(cfg, key, default) == IF key \in DOMAIN cfg THEN cfg[key] ELSE default
ListSetting(cfg, key, default) ==
    IF key \in DOMAIN cfg /\ cfg[key] # {} THEN cfg[key] ELSE default

Title == [form: {"empty", "revert", "conventional", "free"}, type: STRING, scope: STRING,
          bang: BOOLEAN, runes: Nat, bytes: Nat]
Line  == [blank: BOOLEAN, list: BOOLEAN, url: BOOLEAN, bytes: Nat]
\* finds: which of the patterns match somewhere; signoff: "" for no trailer,
\* "inline" for the words in mid-line, else the identity of the first trailer;
\* signoffs: the identities of all the trailers.
Text  == [title: Title, lines: Seq(Line), finds: SUBSET STRING, signoff: STRING,
          signoffs: SUBSET STRING, markdown: BOOLEAN]

DefaultTypes ==
    {"build", "chore", "ci", "docs", "feat", "fix", "perf", "refactor", "revert", "style", "test"}

ForbiddenByDefault == {"tmp"}

-----------------------------------------------------------------------------
\* CommitParser: a revert title is valid whatever the types; a conventional one
\* must have a known type.

ValidTitle(title, types) ==
    \/ title.form = "revert"
    \/ title.form = "conventional" /\ title.type \in types

\* The rules.  Each holds of the texts it finds fault with.

TooLong(title, size, limit, unlimitedRevert) ==
    size > limit /\ ~(unlimitedRevert /\ title.form = "revert")

NotConventional(title, types, requireScope) ==
    /\ title.form # "revert"
    /\ \/ ~ValidTitle(title, types)
       \/ requireScope /\ title.scope = ""

InfraScopeMisuse(title) ==
    /\ title.form = "conventional"
    /\ title.type \in {"feat", "fix"}
    /\ title.scope \in {"ci", "test", "docs", "build"}
    /\ ~title.bang

\* The last line is skipped, too.
LongBodyLineButLast(text, limit) ==
    \E i \in 2..Len(text.lines) - 1 :
        LET line == text.lines[i] IN ~line.blank /\ ~line.url /\ line.bytes > limit

\* The first line is skipped: in a message it is the title.
LongBodyLine(text, limit) ==
    \E i \in 2..Len(text.lines) :
        LET line == text.lines[i] IN ~line.blank /\ ~line.url /\ line.bytes > limit

\* Only the first list item needs the empty line before it.
ListWithoutGap(text) ==
    \E i \in 2..Len(text.lines) :
        /\ text.lines[i].list
        /\ \A j \in 2..i - 1 : ~text.lines[j].list
        /\ ~(i > 2 /\ text.lines[i - 1].blank)

WrongSignoff(text, expected) ==
    expected # "" /\ text.signoff # "" /\ text.signoff # expected

\* What the message settings ask of a text, for commits and merged pull requests.
LineLimit(cfg) ==
    Setting(cfg, "body_max_line_length", 72) + Setting(cfg, "body_line_tolerance", 5)

\* The order in which a reference is chosen when several rules object.
ReferencePriority ==
    <<"GIT013", "GIT006", "GIT004", "GIT005", "GIT016", "GIT011", "GIT012", "GIT014", "GIT015">>

\* What a body is refused for, in a commit and in a merged pull request alike.
BodyFault(cfg, text, ref) ==
    CASE ref = "GIT005" -> LongBodyLine(text, LineLimit(cfg))
      [] ref = "GIT016" -> ListWithoutGap(text)
      [] ref = "GIT011" -> Setting(cfg, "block_pr_references", TRUE) /\ "pr" \in text.finds
      [] ref = "GIT012" -> Setting(cfg, "block_ai_attribution", TRUE) /\ "claude" \in text.finds
      [] ref = "GIT014" ->
           ListSetting(cfg, "forbidden_patterns", ForbiddenByDefault) \cap text.finds # {}
      [] OTHER -> FALSE

\* The rules of a commit message, each under the reference it reports.
Fault(cfg, text, ref) ==
    CASE ref = "GIT004" -> TooLong(text.title, text.title.runes,
                                   Setting(cfg, "title_max_length", 50),
                                   Setting(cfg, "allow_unlimited_revert_title", TRUE))
      [] ref = "GIT013" -> /\ Setting(cfg, "conventional_commits", TRUE)
                           /\ NotConventional(text.title,
                                              ListSetting(cfg, "valid_types", DefaultTypes),
                                              Setting(cfg, "require_scope", TRUE))
      [] ref = "GIT006" -> /\ Setting(cfg, "block_infra_scope_misuse", TRUE)
                           /\ InfraScopeMisuse(text.title)
      [] ref = "GIT005" -> \/ BodyFault(cfg, text, ref)
                           \/ Len(text.lines) > 1 /\ text.markdown
      [] ref = "GIT015" -> WrongSignoff(text, Setting(cfg, "expected_signoff", ""))
      [] OTHER -> BodyFault(cfg, text, ref)

Faults(cfg, text) == {ref \in ToSet(ReferencePriority) : Fault(cfg, text, ref)}

PrimaryReference(refs) ==
    ReferencePriority[Min({i \in DOMAIN ReferencePriority : ReferencePriority[i] \in refs})]

Refused(refs) == IF refs = {} THEN Pass ELSE FailAs(PrimaryReference(refs))

ValidateMessage(cfg, text) ==
    IF text.title.form = "empty" THEN FailAs("GIT013")
    ELSE Refused(Faults(cfg, text))
=============================================================================
