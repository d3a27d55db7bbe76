-------------------------------- MODULE GateMC --------------------------------
(***************************************************************************)
(* Scenes of Gate for TLC: lines of git commands, remotes and branches,    *)
(* edits of files, gh commands, and rules.                                 *)
(***************************************************************************)
EXTENDS Gate

CONSTANTS h1, h2
Symmetric == Permutations(Hook)

Git(words)  == [name |-> "git", args |-> words, out |-> "", doc |-> <<>>]
Gh(words)   == [name |-> "gh", args |-> words, out |-> "", doc |-> <<>>]
Other(name, words) == [name |-> name, args |-> words, out |-> "", doc |-> <<>>]

Bash(name, says, line, does) ==
    [Tool("PreToolUse", "Bash") EXCEPT
        !.command = name, !.says = says, !.does = does,
        !.script = [parses |-> TRUE, calls |-> line]]

Edit(p, o, n)  == [Tool("PreToolUse", "Edit") EXCEPT !.path = p, !.old = o, !.new = n]
Write(p, text) == [Tool("PreToolUse", "Write") EXCEPT !.path = p, !.content = text]

\* What the commands do.
Committed(message, trailers) ==
    [do |-> "commit", dir |-> "", message |-> message, trailers |-> trailers,
     plain |-> TRUE, unverified |-> FALSE]
Unverified == [Committed("good", {"-s", "-S"}) EXCEPT !.unverified = TRUE]
Staged(dirs)  == [do |-> "stage", dir |-> "", dirs |-> dirs, plain |-> TRUE]
Pushed(dir, remote) == [do |-> "push", dir |-> dir, remote |-> remote]
Branched(dir, name, new, tracking) ==
    [do |-> "branch", dir |-> dir, name |-> name, new |-> new, tracking |-> tracking]
Remote(name)  == [do |-> "remote", dir |-> "", name |-> name]
Merged(n)     == [do |-> "merge", dir |-> "", number |-> n, squash |-> TRUE]

-----------------------------------------------------------------------------
\* Texts: messages, titles and bodies by their names.

SomeTitle(form, type, scope, runes) ==
    [form |-> form, type |-> type, scope |-> scope, bang |-> FALSE, runes |-> runes, bytes |-> runes]
Prose(bytes) == [blank |-> FALSE, list |-> FALSE, url |-> FALSE, bytes |-> bytes]
SomeText(title, finds, lines) ==
    [title |-> title, lines |-> lines, finds |-> finds, signoff |-> "", signoffs |-> {},
     markdown |-> FALSE]

Good == SomeText(SomeTitle("conventional", "feat", "api", 40), {}, <<Prose(40)>>)

MessageOf(t) ==
    CASE t = "good"   -> Good
      [] t = "wip"    -> [Good EXCEPT !.title.type = "wip"]
      [] t = "wordy"  -> [Good EXCEPT !.title.runes = 60, !.title.bytes = 60]
      [] t = "bare"   -> [Good EXCEPT !.title.scope = ""]
      [] t = "wide"   -> [Good EXCEPT !.lines = <<Prose(40), Prose(0), Prose(90)>>]
      [] t = "linked" -> [Good EXCEPT !.finds = {"pr"}]
      [] t = ""       -> SomeText(SomeTitle("empty", "", "", 0), {}, <<>>)
      [] OTHER        -> [Good EXCEPT !.title = SomeTitle("free", "", "", 20)]

Unread == [Good EXCEPT !.title.form = "free", !.title.runes = 0]
FileMessage(f) == IF f = "note" THEN MessageOf("wide") ELSE Unread

BodyOf(t) ==
    [motivation |-> t # "thin", implementation |-> TRUE, supporting |-> TRUE, placeholder |-> FALSE,
     skip |-> FALSE, entry |-> "none", early |-> FALSE, formal |-> FALSE, broken |-> FALSE,
     lint |-> t = "rough", about |-> "code"]

TypeOfTitle(t) == IF t = "good" THEN "feat" ELSE ""
Labels(t)      == {t}
Skipping(t)    == FALSE
BodyIn(f)      == "full"
RequestNumber(t) == IF t = "1" THEN 1 ELSE IF t = "2" THEN 2 ELSE 0
Silence        == [title |-> "", body |-> ""]
RequestAt(n)   == CASE n = 1 -> [title |-> "good", body |-> ""]
                    [] n = 2 -> [title |-> "loose", body |-> "linked"]
                    [] OTHER -> Silence

Components(p) == CASE p = "tmp/x" -> <<"tmp", "x">> [] OTHER -> <<p>>

NameOf(n) ==
    [spaces |-> FALSE, upper |-> n = "Loud",
     type |-> IF n \in {"feat/x", "Loud"} THEN "feat" ELSE "", typed |-> n \in {"feat/x", "Loud"}]

\* Files: the faults of a text, by the marks in it.
Has(text, mark) == \E i \in DOMAIN text : text[i] = mark

Faulty(v, text) ==
    (IF Has(text, "bad") THEN {"bad"} ELSE {})
    \cup CASE v = "shellscript" ->
                (IF ~(text[1] \in {"shebang", "shell directive"}) THEN {"SC2148"} ELSE {})
                \cup (IF Has(text, "use") /\ ~Has(text, "def") THEN {"SC2154"} ELSE {})
                \cup (IF Has(text, "def") /\ ~Has(text, "use") THEN {"SC2034"} ELSE {})
           [] v = "javascript" ->
                IF Has(text, "use") /\ ~Has(text, "def") THEN {"no-undef"} ELSE {}
           [] v = "python" ->
                (IF Has(text, "use") /\ ~Has(text, "def") THEN {"F821"} ELSE {})
                \cup (IF Has(text, "def") /\ ~Has(text, "use") THEN {"F401"} ELSE {})
           [] OTHER -> {}

\* An action pinned by its digest, with its version beside it, or by its tag.
UseOf(pinned) == [digest |-> pinned, version |-> IF pinned THEN "inline" ELSE "none", note |-> "none"]
Uses(text) == {UseOf(TRUE) : x \in {y \in {"pin"} : Has(text, y)}}
                \cup {UseOf(FALSE) : x \in {y \in {"tag"} : Has(text, y)}}
Keys(text)       == IF Has(text, "key") THEN {"key"} ELSE {}
ShebangOf(text)  == IF text = <<>> THEN "" ELSE IF text[1] = "shebang" THEN "bash"
                    ELSE IF text[1] = "shell directive" THEN "sh" ELSE ""
Suffix(p) == CASE p = "run.sh" -> ".sh" [] p = "app.py" -> ".py" [] p = "doc.md" -> ".md" [] p = "ui.js" -> ".js"
                  [] p = "ci.yml" -> ".yml" [] OTHER -> ""
Workflows(p) == p = "ci.yml"

\* Rules: a pattern hits the text of its name.
HitsText(p, text) == p = text
Always(p)  == TRUE
RankOf(n)  == CASE n = "alpha" -> 1 [] n = "beta" -> 2 [] OTHER -> 3
WithUnderscore(k) == k \in {"no_verify", "title_max_length", "valid_types", "blocked_remotes"}

-----------------------------------------------------------------------------
\* Configuration

Says(sections) == [mode |-> "plain", sections |-> sections, rules |-> Unset]
Nobody == [global |-> NoFile, project |-> NoFile, vars |-> NoSections, disabled |-> {},
           rulesEnabled |-> FALSE]
Project(sections) == [Nobody EXCEPT !.project = Says(sections)]

Home == [inRepo |-> TRUE, root |-> TRUE, staged |-> "some", remotes |-> {"origin"},
         current |-> "main", tracking |-> "origin"]

-----------------------------------------------------------------------------
\* Lines of git commits.

s == Flag("-s")
S == Flag("-S")
m == Flag("-m")
Joined2(last) == Joined("-sSm", <<"-s", "-S", "-m">>, last)

Commits ==
  {Bash("1", {"git commit"}, <<Git(<<Arg("commit"), s, S, m, Quoted(t, "double")>>)>>,
        <<Committed(t, {"-s", "-S"})>>) : t \in {"wordy", "linked"}}
  \cup
  {Bash("2", {"git commit"}, <<Git(<<Arg("commit"), Joined2(""), Quoted(t, "double")>>)>>,
        <<Committed(t, {"-s", "-S"})>>) : t \in {"wip", "bare"}}
  \cup
  {Bash("3", {"git commit"}, <<Git(<<Arg("commit"), s, m, Quoted("good", "double")>>)>>,
        <<Committed("good", {"-s"})>>),
   Bash("4", {"git commit"}, <<Git(<<Arg("commit"), s, S, Flag("-F"), Arg("note")>>)>>,
        <<Committed("wide", {"-s", "-S"})>>),
   Bash("5", {"git commit"},
        <<Git(<<Arg("add"), Arg("f")>>),
          Git(<<Arg("commit"), Joined2(""), Quoted("good", "double"), m, Quoted("loose", "double")>>)>>,
        <<Staged({}), Committed("good", {"-s", "-S"})>>),
   Bash("6", {"git commit"},
        <<Git(<<Arg("commit"), s, S, m, Arg("good")>>), Git(<<Arg("add"), Arg("f")>>),
          Git(<<Arg("commit"), Flag("-n"), m, Arg("good")>>)>>,
        <<Committed("good", {"-s", "-S"}), Staged({}), Unverified>>),
   Bash("7", {}, <<Git(<<Arg("add"), Arg("f"), Arg("tmp/x")>>)>>, <<Staged({"tmp"})>>),
   Bash("8", {}, <<Git(<<Arg("add"), Arg(".")>>), Git(<<Arg("add"), Flag("--chmod"), Arg("+x"), Arg("f")>>)>>,
        <<Staged({}), Staged({})>>)}

CommitScene ==
    [calls |-> Commits, wired |-> {FALSE}, repos |-> "" :> Home, files |-> <<>>,
     sources |->
        {Nobody,
         [Project([commit |-> [valid_types |-> {"wip", "feat"}, title_max_length |-> 70]])
            EXCEPT !.vars = [no_verify |-> [enabled |-> FALSE]]],
         [Nobody EXCEPT !.global = Says([commit |-> [enabled |-> FALSE]]),
                        !.project = Says([commit |-> [enabled |-> TRUE]]), !.disabled = {"add"}]}]

-----------------------------------------------------------------------------
\* Remotes and branches.

Remotes ==
  {Bash("1", {}, <<Git(<<Arg("push")>>)>>, <<Pushed("", "")>>),
   Bash("2", {}, <<Git(<<Arg("push"), Arg("up")>>)>>, <<Pushed("", "up")>>),
   Bash("3", {}, <<Git(<<Arg("push"), Arg("origin")>>), Git(<<Arg("push"), Arg("up")>>)>>,
        <<Pushed("", "origin"), Pushed("", "up")>>),
   Bash("4", {}, <<Other("cd", <<Arg("sub")>>), Git(<<Arg("push"), Arg("up")>>)>>, <<Pushed("sub", "up")>>),
   Bash("5", {}, <<Git(<<Flag("-C"), Arg("sub"), Arg("push"), Flag("-u"), Arg("up")>>)>>,
        <<Pushed("sub", "up")>>),
   Bash("6", {}, <<Git(<<Arg("switch"), Arg("other")>>)>>, <<Branched("", "other", FALSE, "up")>>),
   Bash("7", {}, <<Git(<<Arg("remote"), Arg("add"), Arg("up")>>)>>, <<Remote("up")>>),
   Bash("8", {}, <<Git(<<Arg("fetch"), Arg("up")>>)>>, <<[do |-> "fetch", dir |-> ""]>>),
   Bash("9", {}, <<Git(<<Arg("checkout"), Flag("-b"), Arg("feat/x")>>)>>, <<Branched("", "feat/x", TRUE, "")>>)}

Branches ==
  {Bash("1", {}, <<Git(<<Arg("checkout"), Flag("-b"), Arg(n)>>)>>, <<Branched("", n, TRUE, "")>>)
      : n \in {"feat/x", "Loud", "odd"}}
  \cup
  {Bash("2", {}, <<Git(<<Arg("fetch")>>), Git(<<Arg("branch"), Arg("odd")>>)>>,
        <<Branched("", "odd", TRUE, "")>>),
   Bash("3", {}, <<Git(<<Flag("-C"), Arg("sub"), Arg("switch"), Flag("-c"), Arg("odd"), Arg("main")>>)>>,
        <<Branched("sub", "odd", TRUE, "")>>),
   Bash("4", {}, <<Git(<<Arg("branch"), Flag("-m"), Arg("odd")>>)>>, <<Branched("", "odd", FALSE, "")>>)}

Places == ("" :> Home) @@ ("sub" :> [Home EXCEPT !.remotes = {"origin", "up"}])

RemoteScene ==
    [calls |-> Remotes, wired |-> {FALSE}, repos |-> Places, files |-> <<>>,
     sources |-> {Nobody, Project([push |-> [blocked_remotes |-> {"up"}]]),
                  [Nobody EXCEPT !.disabled = {"push", "fetch"}]}]

BranchScene ==
    [calls |-> Branches, wired |-> {FALSE}, repos |-> Places, files |-> <<>>,
     sources |-> {Nobody, [Nobody EXCEPT !.project = [NoFile EXCEPT !.mode = "broken"]],
                  [Nobody EXCEPT !.global = Says([branch |-> [allow_uppercase |-> TRUE]])],
                  [Nobody EXCEPT !.vars = [branch |-> [enabled |-> FALSE]]]}]

-----------------------------------------------------------------------------
\* Files.

OldScript == <<"shebang", NL, "def", NL, "fine", NL, "plain", NL, "echo", NL, "use", NL>>

Scripts ==
  {Edit("run.sh", <<"echo">>, <<n>>) : n \in {"bad", "use"}}
  \cup
  {Edit("run.sh", <<"plain", NL, "echo">>, <<"plain">>),
   Edit("run.sh", <<"use">>, <<>>),
   Write("run.sh", <<"fine", NL>>),
   Bash("1", {},
        <<[Other("cat", <<>>) EXCEPT !.out = "run.sh", !.doc = <<"shebang", NL, "bad", NL>>]>>,
        <<[do |-> "write", path |-> "run.sh", text |-> <<"shebang", NL, "bad", NL>>]>>)}

ScriptScene ==
    [calls |-> Scripts, wired |-> {FALSE}, repos |-> "" :> Home, files |-> "run.sh" :> OldScript,
     sources |-> {Nobody, Project([shellscript |-> [enabled |-> FALSE]])}]

Texts ==
  {Edit("app.py", <<"echo">>, <<"bad">>),
   Edit("app.py", <<"use">>, <<"fine">>),
   Edit("ui.js", <<"echo">>, <<"use">>),
   Write("doc.md", <<"bad", NL>>), Write("doc.md", <<"key", NL>>),
   Bash("1", {}, <<Other("echo", <<>>), [Other("cat", <<>>) EXCEPT !.out = "doc.md", !.doc = <<"bad", NL>>]>>,
        <<[do |-> "write", path |-> "doc.md", text |-> <<"bad", NL>>]>>)}

TextScene ==
    [calls |-> Texts, wired |-> {FALSE}, repos |-> "" :> Home,
     files |-> ("app.py" :> <<"def", NL, "echo", NL, "use", NL>>)
                 @@ ("ui.js" :> <<"def", NL, "fine", NL, "plain", NL, "echo", NL>>),
     sources |-> {Project([javascript |-> <<>>]),
                  Project([secrets |-> <<>>, python |-> <<>>, markdown |-> [enabled |-> FALSE]])}]

WorkflowScene ==
    [calls |-> {Edit("ci.yml", <<"run">>, <<n>>) : n \in {"pin", "tag"}}
                 \cup {Edit("ci.yml", <<"tag">>, <<"run">>), Write("ci.yml", <<"tag", NL, "run", NL>>)},
     wired |-> {FALSE}, repos |-> "" :> Home,
     files |-> "ci.yml" :> <<"run", NL, "run", NL>>,
     sources |-> {Nobody, Project([workflow |-> [enforce_digest_pinning |-> FALSE]])}]

-----------------------------------------------------------------------------
\* gh commands and notifications.

Hub ==
  {Bash("1", {"gh pr create"},
        <<Gh(<<Arg("pr"), Arg("create"), Long("--title"), Quoted(t, "double"),
               Long("--body"), Quoted(b, "double")>>)>>,
        <<[do |-> "request", dir |-> "", title |-> t, body |-> b]>>)
      : t \in {"good", "loose"}, b \in {"full", "thin"}}
  \cup
  {Bash("2", {"gh pr merge"}, <<Gh(<<Arg("pr"), Arg("merge"), Arg(n), Long("--squash")>>)>>,
        <<Merged(RequestNumber(n))>>) : n \in {"1", "2"}}
  \cup
  {Bash("3", {"gh issue create"},
        <<Gh(<<Arg("issue"), Arg("create"), Long("--body"), Quoted("rough", "double")>>)>>, <<>>),
   Bash("4", {"git commit"},
        <<Git(<<Arg("commit"), m, Substituted("$(date)", "double")>>)>>, <<>>),
   Tool("Notification", "")}

HubScene ==
    [calls |-> Hub, wired |-> {FALSE}, repos |-> "" :> Home, files |-> <<>>,
     sources |-> {Nobody,
                  Project([merge |-> [require_signoff |-> FALSE], issue |-> <<>>, backtick |-> <<>>])}]

-----------------------------------------------------------------------------
\* Rules.

NoPattern == [x \in Subjects |-> <<>>]
For(v) == [validator |-> v, remote |-> "", tool |-> "", event |-> "", one |-> NoPattern,
           many |-> NoPattern, anyCase |-> FALSE, all |-> FALSE]
OnCommand(c) == [For("") EXCEPT !.one["command"] = <<[base |-> c, negated |-> FALSE, written |-> c]>>]
Named(name, priority, match, type) ==
    [name |-> name, enabled |-> TRUE, priority |-> priority, match |-> match,
     action |-> [type |-> type, ref |-> name]]

Ruling(global, project) ==
    [Nobody EXCEPT !.rulesEnabled = TRUE,
                   !.global = [Says(NoSections) EXCEPT !.rules = <<global>>],
                   !.project = [Says(NoSections) EXCEPT !.rules = project]]

RuleScene ==
    [calls |-> {c \in Remotes : c.command \in {"1", "2", "8"}}, wired |-> BOOLEAN, repos |-> Places,
     files |-> <<>>,
     sources |->
        {Ruling(<<Named("alpha", 1, For("push"), "block"), Named("beta", 1, For("push"), "allow")>>, Unset),
         Ruling(<<Named("alpha", 1, For("git.*"), "block")>>, <<<<Named("alpha", 1, OnCommand("2"), "allow")>>>>),
         Ruling(<<Named("alpha", 1, For("*"), "warn")>>, <<<<Named("beta", 2, OnCommand("8"), "block")>>>>)}]

Rulings   == {RuleScene}
Scenes == {CommitScene, RemoteScene, BranchScene, ScriptScene, TextScene, WorkflowScene,
           HubScene, RuleScene}

\* They are scenes of the kind the theorems of GateProofs are about.
ASSUME PlainScenes ==
    \A scn \in Scene :
        /\ Plainly(scn) /\ \A call \in scn.calls : Worded(call) /\ Filed(call)
        /\ \A src \in scn.sources : Understood(src)

\* The linters are of that kind, too: on the files of the scenes and all short texts.
Marks    == {"shebang", "def", "use", "echo", "plain", "bad", NL}
FewTexts == UNION {[1..n -> Marks] : n \in 0..3}
              \cup UNION {{scn.files[p] : p \in DOMAIN scn.files} : scn \in Scene}

ASSUME PlainLinters ==
    /\ ShellsByLine(FewTexts)
    /\ \A v \in {"shellscript", "javascript"} : Excused(v, FewTexts)
    /\ \A v \in Linters : \A scn \in Scene : \A call \in scn.calls :
          call.tool = "Edit" => Contained(v, call, FewTexts)
=============================================================================
