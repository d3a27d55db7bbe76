--------------------------------- MODULE Gate ---------------------------------
(***************************************************************************)
(* Hook processes with all that decides their verdicts: the configuration  *)
(* they load, the validators the factories make of it, the dispatcher that *)
(* runs the ones that apply, and the rules that may answer in their place. *)
(* Around them the assistant makes its calls: an allowed one is performed, *)
(* on the repositories and files the validators of another may be reading. *)
(*                                                                         *)
(* HookRun takes the verdict of a call as given and follows the session;   *)
(* here the verdict is what it is about, and there are no sessions.        *)
(***************************************************************************)
EXTENDS Settings, GitValidators, GitHubValidators, ShellValidators, FileValidators

CONSTANTS
    Hook,          \* the hook processes that may run at once
    Scene,         \* where a behaviour plays: the calls the assistant may make, the
                   \* states of the configuration, and the repositories and files
    ExtensionOf(_),  \* of a path
    InWorkflows(_)   \* whether a path is below .github/workflows or .github/actions

VARIABLES
    scene,
    wired,      \* whether the registry is built with the rule engine
    sources,    \* the sources of the configuration
    repos,      \* the repository of each directory, "" being the one of the hooks
    files,      \* the text of each file there is
    calls       \* per hook process, the call it was started for and how far it is

vars == <<scene, wired, sources, repos, files, calls>>

\* A call, in the fields the validators read; line is what the parser makes of its
\* script, and does is what its commands would do.
NoScript == [parses |-> TRUE, calls |-> <<>>]

Tool(event, tool) ==
    [event |-> event, tool |-> tool, command |-> "", says |-> {}, script |-> NoScript,
     line |-> <<>>, path |-> "", content |-> <<>>, old |-> <<>>, new |-> <<>>, does |-> <<>>]

-----------------------------------------------------------------------------
\* The registry: the validators of the enabled sections, in the order in which the
\* factories create them, each with the predicate it is registered with.

Order ==
    <<"add", "no_verify", "commit", "push", "fetch", "pr", "branch", "merge", "issue",
      "markdown", "terraform", "shellscript", "workflow", "gofumpt", "python", "javascript",
      "rust", "bell", "secrets", "backtick">>

Registered(settings) == {v \in ToSet(Order) : IsEnabled(settings.sections, v)}

Subcommand ==
    [add |-> "add", no_verify |-> "commit", commit |-> "commit", push |-> "push",
     fetch |-> "fetch"]

Phrases ==
    [pr |-> {"gh pr create"}, merge |-> {"gh pr merge"}, issue |-> {"gh issue create"},
     backtick |-> {"git commit", "gh pr create", "gh issue create"}]

Extensions ==
    [markdown |-> {".md"}, terraform |-> {".tf"}, shellscript |-> {".sh", ".bash"},
     workflow |-> {".yml", ".yaml"}, gofumpt |-> {".go"}, python |-> {".py"},
     javascript |-> {".js", ".ts", ".jsx", ".tsx"}, rust |-> {".rs"}]

\* "git branch" with any flag but those of deletion, and the creating forms of
\* checkout and switch.
AsksForBranch(g) ==
    \/ g.sub = "checkout" /\ HasAnyFlag(g, ToSet(CheckoutCreate))
    \/ g.sub = "switch" /\ HasAnyFlag(g, ToSet(SwitchCreate))
    \/ g.sub = "branch" /\ ~HasAnyFlag(g, BranchDelete)

\* The git commands of a Bash call; one that does not parse has none.
GitsOf(call) ==
    IF call.tool = "Bash" /\ call.line.parses THEN ToSet(call.line.gits) ELSE {}

Applies(v, call) ==
    IF v = "bell" THEN call.event = "Notification"
    ELSE /\ call.event = "PreToolUse"
         /\ CASE v \in DOMAIN Subcommand -> \E g \in GitsOf(call) : g.sub = Subcommand[v]
              [] v = "branch"            -> \E g \in GitsOf(call) : AsksForBranch(g)
              [] v \in DOMAIN Phrases    -> call.tool = "Bash" /\ Phrases[v] \cap call.says # {}
              [] v = "secrets"           -> call.tool \in {"Write", "Edit"}
              [] OTHER ->
                   /\ call.tool \in IF v = "gofumpt" THEN {"Write"}
                                    ELSE {"Write", "Edit", "MultiEdit"}
                   /\ ExtensionOf(call.path) \in Extensions[v]
                   /\ v = "workflow" => InWorkflows(call.path)

\* A file a command writes is seen as a Write of its own.
WriteOf(fw) ==
    [Tool("PreToolUse", "Write") EXCEPT !.path = fw.path, !.content = fw.content]

\* The call alone.
SeenAsCall(call) == [k \in {0} |-> call]

\* What the validators are shown: the call itself, at 0, and its writes.
SeenAs(call) ==
    LET writes == IF call.event = "PreToolUse" /\ call.tool = "Bash" /\ call.line.parses
                  THEN call.line.writes ELSE <<>>
    IN  [k \in {0} \cup (1..Len(writes)) |-> IF k = 0 THEN call ELSE WriteOf(writes[k])]

\* What a dispatch will run, by its place: the validators of the call come first, then
\* those of each write, every time in the order of the registry.
Jobs(settings, call) ==
    LET seen == SeenAs(call)
    IN  {p \in (DOMAIN seen) \X DOMAIN Order :
            Order[p[2]] \in Registered(settings) /\ Applies(Order[p[2]], seen[p[1]])}

JobAt(call, p) == [validator |-> Order[p[2]], call |-> SeenAs(call)[p[1]]]

Earlier(p, q) == p[1] < q[1] \/ (p[1] = q[1] /\ p[2] < q[2])

FirstOf(places) == CHOOSE p \in places : \A q \in places : ~Earlier(q, p)

-----------------------------------------------------------------------------
\* One validator.

Group ==
    [v \in ToSet(Order) |->
        CASE v \in {"add", "no_verify", "commit", "push", "fetch", "pr", "branch", "merge"} -> "git.*"
          [] v = "issue"    -> "github.*"
          [] v = "bell"     -> "notification.*"
          [] v = "secrets"  -> "secrets.*"
          [] v = "backtick" -> "shell.*"
          [] OTHER          -> "file.*"]

\* The rule engine's adapter of a validator passes it no git state.
RuleContext(v, call) ==
    [validator |-> v, group |-> Group[v], tool |-> call.tool, event |-> call.event,
     remote |-> "", git |-> FALSE,
     text |-> [repo |-> "", branch |-> "", file |-> call.path, content |-> call.content,
               command |-> call.command]]

RuleAnswer(settings, v, call) ==
    IF wired THEN CheckRules(CreateRuleEngine(settings.rules), RuleContext(v, call)) ELSE <<>>

\* All validators share one runner for the directory of the hook, which asks git
\* each question once.
Asked ==
    [add |-> {"inRepo", "root"}, commit |-> {"inRepo", "staged"},
     push |-> {"inRepo", "remotes", "current", "tracking"}, fetch |-> {"inRepo", "remotes"},
     merge |-> {"current"}]

\* The cache keyed by the validator that asks in place of the question.
AnswersByValidator(known, v) ==
    IF v \in DOMAIN Asked THEN Over([f \in {v} |-> repos[""].inRepo], known) ELSE known

Answers(known, v) ==
    IF v \in DOMAIN Asked THEN Over([f \in Asked[v] |-> repos[""][f]], known) ELSE known

View(known, v) == [repos EXCEPT ![""] = Over(@, Answers(known, v))]

FileAt(path) == IF path \in DOMAIN files THEN files[path] ELSE NoFileText

ValidateFile(v, cfg, call, file) ==
    CASE v = "markdown"    -> Markdown(cfg, call, file)
      [] v = "terraform"   -> Terraform(cfg, call, file)
      [] v = "shellscript" -> ShellScript(cfg, call, file)
      [] v = "workflow"    -> Workflow(cfg, call, file)
      [] v = "gofumpt"     -> Gofumpt(cfg, call, file)
      [] v = "python"      -> Python(cfg, call, file)
      [] v = "javascript"  -> JavaScript(cfg, call, file)
      [] v = "rust"        -> Rust(cfg, call, file)

ValidateOne(v, cfg, call, view) ==
    CASE v = "add"       -> Add(cfg, call.line, view)
      [] v = "no_verify" -> NoVerify(call.line)
      [] v = "commit"    -> Commit(cfg, call.line, view)
      [] v = "push"      -> Push(cfg, call.line, view)
      [] v = "fetch"     -> Fetch(call.line, view)
      [] v = "pr"        -> RequestCreate(cfg, call.line)
      [] v = "branch"    -> Branch(cfg, call.line)
      [] v = "merge"     -> Merge(cfg, cfg, call.line, view[""])
      [] v = "issue"     -> Issue(cfg, call.line)
      [] v = "bell"      -> Pass
      [] v = "secrets"   -> Secrets(cfg, call)
      [] v = "backtick"  -> Backticks(cfg, call.line)
      [] OTHER           -> ValidateFile(v, cfg, call, FileAt(call.path))

Verdict(c, job) ==
    LET Or(rule) ==
            IF rule # <<>> THEN rule[1]
            ELSE ValidateOne(job.validator, c.settings.sections[job.validator], job.call,
                             View(c.known, job.validator))
    IN  Or(RuleAnswer(c.settings, job.validator, job.call))

\* What is left to do after the first job.  read keeps the file each one answered about.
Heard(c, job, verdict) ==
    [c EXCEPT !.pending    = @ \ {FirstOf(@)},
              !.known      = Answers(@, job.validator),
              !.read       = Over(@, [k \in {<<job.validator, job.call.path>>} |-> FileAt(k[2])]),
              !.objections = IF verdict.block
                             THEN @ \cup {[validator |-> job.validator, ref |-> verdict.ref]}
                             ELSE @]

-----------------------------------------------------------------------------
\* What the calls do, once they are allowed: the commands of a line one after the
\* other until one of them fails, or the one write or edit.

Effects(call) ==
    IF call.does # <<>> THEN call.does
    ELSE CASE call.tool = "Write" -> <<[do |-> "write", path |-> call.path, text |-> call.content]>>
           [] call.tool = "Edit"  -> <<[do |-> "edit", path |-> call.path, old |-> call.old,
                                        new |-> call.new]>>
           [] OTHER -> <<>>

\* The fields of a command have their types, and so have those of a scene.
TypedCommand(e) ==
    /\ e.do \in {"branch", "remote"} => e.name \in STRING
    /\ e.do = "branch" => e.tracking \in STRING
    /\ e.do = "write" => e.text \in Seq(STRING)
    /\ e.do = "edit" => e.old \in Seq(STRING) /\ e.new \in Seq(STRING)

IsList(s) == s \in Seq(ToSet(s))

ASSUME SceneAssumption ==
    \A s \in Scene :
        /\ "" \in DOMAIN s.repos /\ s.repos \in [DOMAIN s.repos -> Repository]
        /\ s.files \in [DOMAIN s.files -> Seq(STRING)]
        /\ \A call \in s.calls :
              /\ DOMAIN call = DOMAIN Tool("", "") /\ IsList(call.does)
              /\ IsList(Parse(call.script).gits)
              /\ \A i \in DOMAIN Effects(call) : TypedCommand(Effects(call)[i])

\* The command that is next.
Command(c) == Effects(c.call)[c.done + 1]

\* A push that names no remote goes to the one the branch tracks.
Destination(e) ==
    IF e.remote # "" THEN e.remote
    ELSE IF repos[e.dir].tracking # "" THEN repos[e.dir].tracking ELSE "origin"

Succeeds(e) ==
    CASE e.do = "commit" -> repos[e.dir].staged = "some"
      [] e.do = "push"   -> Destination(e) \in repos[e.dir].remotes
      [] e.do = "edit"   -> /\ e.path \in DOMAIN files
                            /\ Occurrences(files[e.path], e.old) # {}
      [] OTHER -> TRUE

ReposAfter(e) ==
    CASE e.do = "commit" -> [repos EXCEPT ![e.dir].staged = "none"]
      [] e.do = "stage"  -> [repos EXCEPT ![e.dir].staged = "some"]
      [] e.do = "remote" -> [repos EXCEPT ![e.dir].remotes = @ \cup {e.name}]
      [] e.do = "branch" ->
           [repos EXCEPT ![e.dir] = [@ EXCEPT !.current = e.name, !.tracking = e.tracking]]
      [] OTHER -> repos

FilesAfter(e) ==
    CASE e.do = "write" -> Over(files, [p \in {e.path} |-> e.text])
      [] e.do = "edit"  -> [files EXCEPT ![e.path] = Replace(@, e.old, e.new)]
      [] OTHER -> files

-----------------------------------------------------------------------------
\* The state machine.

Idle == [stage |-> "idle"]

Init ==
    /\ scene \in Scene
    /\ wired \in scene.wired
    /\ sources \in scene.sources
    /\ repos = scene.repos
    /\ files = scene.files
    /\ calls = [h \in Hook |-> Idle]

\* A call as the hooks read it.
Reading(call) == [call EXCEPT !.line = Parse(call.script)]

\* The assistant makes a call and the host starts a hook process for it.
Ask(h, call) ==
    /\ calls[h] = Idle
    /\ calls' = [calls EXCEPT ![h] = [stage |-> "asked", call |-> Reading(call)]]
    /\ UNCHANGED <<scene, wired, sources, repos, files>>

\* Loading the configuration and building the registry.  A process that fails here
\* ends with an error that is not a refusal, and the host goes on with the call.
Started(call, settings) ==
    LET fails == ~settings.ok \/ (wired /\ EngineFails(settings.rules))
    IN  [stage      |-> IF fails THEN "allowed" ELSE "judging",
         call       |-> call,
         judged     |-> ~fails,
         settings   |-> settings,
         under      |-> sources,
         pending    |-> IF fails THEN {} ELSE Jobs(settings, call),
         known      |-> <<>>,
         read       |-> <<>>,
         objections |-> {},
         done       |-> 0]

Start(h) ==
    /\ calls[h].stage = "asked"
    /\ calls' = [calls EXCEPT ![h] = Started(@.call, Load(sources))]
    /\ UNCHANGED <<scene, wired, sources, repos, files>>

\* The sequential executor: the next validator reads what it needs and answers.
Validate(h) ==
    /\ calls[h].stage = "judging" /\ calls[h].pending # {}
    /\ LET job == JobAt(calls[h].call, FirstOf(calls[h].pending))
       IN  calls' = [calls EXCEPT ![h] = Heard(@, job, Verdict(@, job))]
    /\ UNCHANGED <<scene, wired, sources, repos, files>>

Answer(h) ==
    /\ calls[h].stage = "judging" /\ calls[h].pending = {}
    /\ calls' = [calls EXCEPT ![h].stage = IF calls[h].objections = {} THEN "allowed" ELSE "refused"]
    /\ UNCHANGED <<scene, wired, sources, repos, files>>

\* A command of an allowed call is left that will succeed.
GoesOn(c) == c.done < Len(Effects(c.call)) /\ Succeeds(Command(c))

\* After a command the next one, if there is one.
Onward(c) ==
    IF c.done + 1 = Len(Effects(c.call)) THEN Idle ELSE [c EXCEPT !.done = @ + 1]

\* Between two commands of a line the other hooks, and what they allow, may run.
Perform(h) ==
    /\ calls[h].stage = "allowed" /\ GoesOn(calls[h])
    /\ LET e == Command(calls[h]) IN repos' = ReposAfter(e) /\ files' = FilesAfter(e)
    /\ calls' = [calls EXCEPT ![h] = Onward(@)]
    /\ UNCHANGED <<scene, wired, sources>>

\* A command that fails ends the line.
Stop(h) ==
    /\ calls[h].stage = "allowed" /\ ~GoesOn(calls[h])
    /\ calls' = [calls EXCEPT ![h] = Idle]
    /\ UNCHANGED <<scene, wired, sources, repos, files>>

Refuse(h) ==
    /\ calls[h].stage = "refused"
    /\ calls' = [calls EXCEPT ![h] = Idle]
    /\ UNCHANGED <<scene, wired, sources, repos, files>>

\* The user edits a file of the configuration, or starts the hooks with other
\* variables or flags from here on.
EditSettings ==
    /\ sources' \in scene.sources \ {sources}
    /\ UNCHANGED <<scene, wired, repos, files, calls>>

Next ==
    \/ \E h \in Hook :
          \/ \E call \in scene.calls : Ask(h, call)
          \/ Start(h) \/ Validate(h) \/ Answer(h) \/ Perform(h) \/ Stop(h) \/ Refuse(h)
    \/ EditSettings

Spec == Init /\ [][Next]_vars

-----------------------------------------------------------------------------
\* What the theorems of GateProofs assume, and GateMC of each of its scenes.

\* The parser reads in a line what its commands do: the flags of a commit and the
\* paths of an add that are written plainly, without options before the
\* subcommand, and every new branch and every push, each in its directory.
ReadIn(line, e) ==
    /\ e.do = "commit" /\ e.plain /\ e.unverified =>
          \E i \in Calling(line, "commit") :
              /\ FirstWordIs(line.gits[i], "commit")
              /\ HasAnyFlag(line.gits[i], {"--no-verify", "-n"})
    /\ e.do = "stage" /\ e.plain =>
          \A dir \in e.dirs :
              \E i \in Calling(line, "add") :
                  /\ FirstWordIs(line.gits[i], "add")
                  /\ \E path \in AddedPaths(Tail(line.gits[i].words)) : Blocked(path, {dir})
    /\ e.do = "branch" /\ e.new =>
          \E i \in DOMAIN line.gits :
              /\ CreatesBranch(line.gits[i])
              /\ BranchName(line.gits[i]) = e.name /\ e.name # ""
    /\ e.do = "push" =>
          \E i \in Calling(line, "push") :
              LET g == line.gits[i] IN
              /\ g.dir = e.dir
              /\ IF e.remote = "" THEN g.args = <<>> ELSE g.args # <<>> /\ g.args[1] = e.remote

Truthful(call) ==
    LET line == Parse(call.script) IN
    \A i \in DOMAIN call.does :
        LET e == call.does[i] IN
        e.do \in {"commit", "stage", "branch", "push", "merge", "request"} =>
            /\ call.event = "PreToolUse" /\ call.tool = "Bash" /\ line.parses
            /\ ReadIn(line, e)

\* A first commit has its flags on the line, and its message there or in a file; a
\* commit without a message is none.
CommitReadIn(line, e) ==
    LET g      == FirstCommit(line)
        file   == FirstValue(g, <<"-F", "--file">>)
        inline == FirstValue(g, <<"-m", "--message">>)
    IN  /\ Calling(line, "commit") # {}
        /\ file # "" \/ inline # ""
        /\ Message(file, inline) = TextOf(e.message)
        /\ file # "" => TextOf(e.message) # Unreadable
        /\ TextOf(e.message).title.form # "empty"
        /\ \A f \in {"-s", "-S"} : HasAnyFlag(g, {f} \cup LongForm(f)) => f \in e.trailers

\* A first squash merge names its request, and merges it at once.
MergeReadIn(line, e) ==
    LET m == FirstMerge(line) IN
    /\ Merges(line) # {}
    /\ m.number = e.number /\ e.number # 0
    /\ IsSquashMerge(m) /\ "auto" \notin m.on

\* A request has its title and its body in quotes.
RequestReadIn(line, e) ==
    /\ Holds(line, "pr", "create")
    /\ QuotedAfter(LineWords(line), "--title") = e.title /\ e.title # ""
    /\ BodyText(LineWords(line)) = e.body

\* The parsers read the messages in a line.
Worded(call) ==
    LET line     == Parse(call.script)
        First(i) == \A j \in 1..i - 1 : call.does[j].do # call.does[i].do
    IN  \A i \in DOMAIN call.does :
            LET e == call.does[i] IN
            /\ e.do = "commit" /\ First(i) => CommitReadIn(line, e)
            /\ e.do = "merge" /\ First(i) /\ e.squash =>
                  MergeReadIn(line, e) /\ "gh pr merge" \in call.says
            /\ e.do = "request" /\ Len(call.does) = 1 =>
                  RequestReadIn(line, e) /\ "gh pr create" \in call.says

\* All that happens happens in repositories; where there is no branch, as long as a
\* HEAD is detached, none is tracked.
Tracks(current, tracking) == current = "" => tracking = ""

Housed(s) ==
    /\ \A d \in DOMAIN s.repos :
          /\ s.repos[d].inRepo /\ s.repos[d].root
          /\ Tracks(s.repos[d].current, s.repos[d].tracking)
    /\ \A call \in s.calls :
          \A i \in DOMAIN call.does :
              LET e == call.does[i] IN
              /\ e.do = "push"   => e.dir \in DOMAIN s.repos
              /\ e.do = "branch" => Tracks(e.name, e.tracking)

Plainly(s) == Housed(s) /\ \A call \in s.calls : Truthful(call)

\* The hooks see what a call writes: the text of a file tool, or one of the heredocs
\* of a command.
Filed(call) ==
    LET line == Parse(call.script) IN
    /\ call.tool = "Edit" => call.content = <<>> /\ call.does = <<>>
    /\ \A i \in DOMAIN call.does :
          LET e == call.does[i] IN
          /\ e.do # "edit"
          /\ e.do = "write" =>
                /\ call.event = "PreToolUse" /\ call.tool = "Bash" /\ line.parses
                /\ \E k \in 1..Len(line.writes) :
                      line.writes[k].path = e.path /\ line.writes[k].content = e.text

\* The shell of a text is that of its first line; the directive a fragment is handed
\* with does not name fish.
ShellsByLine(T) ==
    /\ \A s, t \in T : FirstLine(s) = FirstLine(t) => Shell(s) = Shell(t)
    /\ \A t \in T : Shell(Directive \o t) # "fish"

\* What the linter of v is handed of a text from p to q.
Handed(v, text, p, q) ==
    (IF v = "shellscript" /\ p > 1 /\ Shell(text) # "" THEN Directive ELSE <<>>) \o SubSeq(text, p, q)

\* A fragment has no faults but the excused ones that are not faults of the text.
Excused(v, T) ==
    \A text \in T : \A p \in 1..Len(text) + 1 : \A q \in p - 1..Len(text) :
        Cut(text, p, q) /\ Handed(v, text, p, q) # <<>> =>
            LintFaults(v, Handed(v, text, p, q)) \ Excuse(v) \subseteq LintFaults(v, text)

\* An edit's new faults are found in the lines around it, and its secrets in it.
Contained(v, call, T) ==
    \A text \in T : Occurrences(text, call.old) # {} /\ call.old # <<>> /\ call.new # <<>> =>
        LET at    == Min(Occurrences(text, call.old))
            after == Replace(text, call.old, call.new)
        IN  /\ \A p \in 1..at : \A q \in at + Len(call.new) - 1..Len(after) :
                  Cut(after, p, q) =>
                      LintFaults(v, after) \ Excuse(v) \subseteq
                          LintFaults(v, text) \cup LintFaults(v, Handed(v, after, p, q))
            /\ SecretsIn(after) \subseteq SecretsIn(text) \cup SecretsIn(call.new)

\* The rules a file lists.
RulesOf(file) == IF file.mode = "absent" \/ file.rules = Unset THEN <<>> ELSE file.rules[1]

(* A list of rules whose names, where they have one, are different, with    *)
(* conditions as the loader reads them.                                     *)
Plain(rules) ==
  /\ rules \in Seq(Rule)
  /\ \A i, j \in DOMAIN rules : rules[i].name = rules[j].name /\ rules[i].name # "" => i = j
  /\ \A i \in DOMAIN rules :
        rules[i].match # Missing => Simple(rules[i].match) = rules[i].match

\* The names of the rules have an order, as strings have.
Ranked(T) ==
  \A r, s \in T :
     NameRank(r.name) \in Int /\ (NameRank(r.name) = NameRank(s.name) => r.name = s.name)

\* The files list their rules in a way that the loader understands.
Understood(src) ==
  /\ Plain(RulesOf(src.global)) /\ Plain(RulesOf(src.project))
  /\ Ranked(ToSet(RulesOf(src.global)) \cup ToSet(RulesOf(src.project)))

-----------------------------------------------------------------------------
\* Properties.  They speak of what a call does, not of what the parsers read in it.

Answered(h)  == calls[h].stage \in {"allowed", "refused"}
Performs(h)  == calls[h].stage = "allowed" /\ GoesOn(calls[h]) /\ calls'[h] # calls[h]

Cfg(c, v) == c.settings.sections[v]

\* Validator v is to look at what it is shown, and no rule answers in its place.
GovernsSeen(c, v, seen) ==
    c.judged /\ IsEnabled(c.settings.sections, v) /\ RuleAnswer(c.settings, v, seen) = <<>>

Governs(c, v) == GovernsSeen(c, v, c.call)

\* The next command is the first of a kind in its line.
FirstIs(c, kind) ==
    Command(c).do = kind /\ \A i \in 1..c.done : Effects(c.call)[i].do # kind

\* The rules as the user wrote them: the project's, and the global ones it has none
\* of that name for.
Written(src) ==
    LET Of(file)  == IF file.mode = "absent" \/ file.rules = Unset THEN {} ELSE ToSet(file.rules[1])
        project   == Of(src.project)
    IN  IF ~src.rulesEnabled THEN {}
        ELSE project \cup {r \in Of(src.global) : \A p \in project : p.name # r.name}

\* The references of the validators.
Codes ==
    {"GIT001", "GIT002", "GIT003", "GIT004", "GIT005", "GIT006", "GIT007", "GIT008", "GIT009",
     "GIT010", "GIT011", "GIT012", "GIT013", "GIT014", "GIT015", "GIT016", "GIT017", "GIT018",
     "GIT019", "GIT020", "GIT021", "GIT022", "GIT023", "GIT024", "GIT025",
     "FILE001", "FILE002", "FILE003", "FILE004", "FILE005", "FILE006", "FILE007", "FILE008",
     "FILE009", "SEC001", "SEC002", "SEC003", "SEC004", "SEC005", "SHELL001", "GH001"}

\* The references that rules block under.
RuleCodes(src) ==
    {r.action.ref : r \in {s \in Written(src) : s.enabled /\ s.action # Missing}}

(* Every variable has its type: the repositories of the scene remain, a hook at  *)
(* work has jobs of validators that there are, and what it objects to comes from *)
(* a section it loaded, under no reference, one of the validators' or that of an *)
(* enabled rule of its configuration.                                            *)
TypeOK ==
    /\ scene \in Scene /\ wired \in scene.wired /\ sources \in scene.sources
    /\ repos \in [DOMAIN scene.repos -> Repository]
    /\ \A p \in DOMAIN files : files[p] \in Seq(STRING)
    /\ \A h \in Hook :
          LET c == calls[h] IN
          \/ c = Idle
          \/ c.stage = "asked"
          \/ /\ c.stage \in {"judging", "allowed", "refused"}
             /\ c.pending \subseteq Nat \X DOMAIN Order
             /\ c.objections \subseteq [validator : DOMAIN c.settings.sections,
                                        ref : {""} \cup Codes \cup RuleCodes(c.under)]
             /\ DOMAIN c.known \subseteq DOMAIN repos[""]

\* A message obeys the settings: its title, of some size, and its text.
Conforms(cfg, title, size, text) ==
    Setting(cfg, "message_enabled", TRUE) =>
        /\ Setting(cfg, "conventional_commits", TRUE) /\ title.form # "revert" =>
              /\ title.form = "conventional"
              /\ title.type \in ListSetting(cfg, "valid_types", DefaultTypes)
              /\ Setting(cfg, "require_scope", TRUE) => title.scope # ""
        /\ title.form # "revert" => ~(size > Setting(cfg, "title_max_length", 50))
        /\ \A i \in 2..Len(text.lines) :
              LET line == text.lines[i] IN line.blank \/ line.url \/ ~(line.bytes > LineLimit(cfg))
        /\ Setting(cfg, "block_pr_references", TRUE) => "pr" \notin text.finds
        /\ Setting(cfg, "block_ai_attribution", TRUE) => "claude" \notin text.finds
        /\ ListSetting(cfg, "forbidden_patterns", ForbiddenByDefault) \cap text.finds = {}

(* The message of the first commit of an allowed line obeys the settings its     *)
(* hook loaded, however its flags are written, and the commit is signed off and  *)
(* signed if it must be; so does the message that the first squash merge makes   *)
(* of a request GitHub has.  A request that is opened on its own has such a      *)
(* title and a motivation.                                                       *)
MessagesConform ==
    [][\A h \in Hook : Performs(h) =>
        LET c == calls[h]  e == Command(c) IN
        /\ Governs(c, "commit") /\ FirstIs(c, "commit") =>
              LET text == TextOf(e.message)  cfg == Cfg(c, "commit") IN
              /\ Conforms(cfg, text.title, text.title.runes, text)
              /\ {"-s", "-S"} \cap ListSetting(cfg, "required_flags", {"-s", "-S"})
                    \subseteq e.trailers
        /\ Governs(c, "merge") /\ FirstIs(c, "merge") /\ e.squash =>
              LET pr == PullRequest(e.number)  title == RequestText(pr.title).title IN
              pr # NoAnswer =>
                  Conforms(Cfg(c, "merge"), title, title.bytes, RequestText(pr.body))
        /\ Governs(c, "pr") /\ e.do = "request" /\ Len(Effects(c.call)) = 1 =>
              LET cfg == Cfg(c, "pr") IN
              /\ Setting(cfg, "title_conventional_commits", TRUE) =>
                    RequestText(e.title).title.form \in {"conventional", "revert"}
              /\ IF e.body = "" THEN ~Setting(cfg, "require_body", TRUE)
                 ELSE RequestOf(e.body).motivation]_vars

(* Of an allowed line every command is clear of what its validator forbids, not  *)
(* only the first: no commit skips the git hooks, nothing is staged from a       *)
(* blocked directory, and no branch is created under a bad name.                 *)
ChainsAreClear ==
    [][\A h \in Hook : Performs(h) =>
        LET c == calls[h]  e == Command(c) IN
        /\ Governs(c, "no_verify") /\ e.do = "commit" /\ e.plain => ~e.unverified
        /\ Governs(c, "add") /\ e.do = "stage" /\ e.plain =>
              e.dirs \cap ListSetting(Cfg(c, "add"), "blocked_patterns", {"tmp"}) = {}
        /\ Governs(c, "branch") /\ e.do = "branch" /\ e.new =>
              ~BadName(Cfg(c, "branch"), e.name)]_vars

(* An allowed push goes to no blocked remote, whichever directory it runs in: by *)
(* the name it gives or, when it gives none, by the branch, provided that is     *)
(* still the branch the hook saw and the line itself does not leave it.          *)
PushesAvoidBlocked ==
    [][\A h \in Hook : Performs(h) =>
        LET c == calls[h]  e == Command(c) IN
        /\ Governs(c, "push") /\ e.do = "push"
        /\ \/ e.remote # ""
           \/ e.dir = "" /\ c.known["tracking"] = repos[""].tracking
        => Destination(e) \notin Setting(Cfg(c, "push"), "blocked_remotes", {})]_vars

Linters == {"shellscript", "python", "javascript", "rust", "markdown"}

\* What a linter finds in a whole file and an edit is not excused from.
Defects(c, v, call, text) ==
    LintFaults(v, text)
      \ (Setting(Cfg(c, v), "exclude_rules", {}) \cup IF call.tool = "Edit" THEN Excuse(v) ELSE {})

\* What a validator is shown of a command that writes: the call, or the file alone.
SeenOf(c, e) ==
    IF c.call.tool = "Bash" THEN WriteOf([path |-> e.path, content |-> e.text]) ELSE c.call

\* The linter of v is left on; nobody checks fish, which a line may call the shell.
Linted(c, v, text) ==
    /\ v \in DOMAIN Switch => Setting(Cfg(c, v), Switch[v], TRUE)
    /\ v = "shellscript" =>
          \A i \in DOMAIN text :
              i = 1 \/ text[i - 1] = NL => Shell(SubSeq(text, i, Len(text))) # "fish"

\* The file is still what the validator read; an edit puts text in place of some that
\* does not end in an empty line, and the fragment has a line around it.
Comparable(c, v, e) ==
    /\ e.do = "write" => e.text # <<>>
    /\ e.do = "edit" =>
          /\ FileAt(e.path) # NoFileText
          /\ <<v, e.path>> \in DOMAIN c.read => c.read[<<v, e.path>>] = FileAt(e.path)
          /\ e.new # <<>> /\ EndsInText(e.old)
          /\ Setting(Cfg(c, v), "context_lines", 2) \in Nat \ {0}

(* An allowed write or edit brings no new defect into a file, whether it comes   *)
(* from a file tool or from the heredoc of a command, and whatever small part of *)
(* the file the linter was shown; nor does it bring in a secret, and no workflow *)
(* it leaves uses an action that is not pinned.                                  *)
CleanStaysClean ==
    [][\A h \in Hook : Performs(h) =>
        LET c      == calls[h]
            e      == Command(c)
            call   == SeenOf(c, e)
            before == IF FileAt(e.path) = NoFileText THEN <<>> ELSE FileAt(e.path)
            after  == files'[e.path]
            Judged(v) == GovernsSeen(c, v, call) /\ Applies(v, call) /\ Comparable(c, v, e)
        IN  e.do \in {"write", "edit"} =>
                /\ \A v \in Linters :
                      Judged(v) /\ Linted(c, v, after) =>
                          Defects(c, v, call, after) \subseteq Defects(c, v, call, before)
                /\ Judged("workflow") /\ Setting(Cfg(c, "workflow"), "enforce_digest_pinning", TRUE) =>
                      \A use \in ActionsIn(after) : ~BadUse(Cfg(c, "workflow"), use)
                /\ LET cfg == Cfg(c, "secrets") IN
                   /\ Judged("secrets") /\ Setting(cfg, "block_on_detection", TRUE)
                   /\ ~(SizeOf(SecretsText(call)) > SizeLimit(cfg))
                   => SecretsFound(cfg, after) \subseteq SecretsIn(before)]_vars

\* A linter that finds nothing in the file before an edit and nothing after it does
\* not object to the edit.
FragmentsSuffice(v) ==
    \A h \in Hook :
        LET c == calls[h]  call == c.call IN
        /\ calls[h].stage = "refused" /\ call.tool = "Edit" /\ Governs(c, v)
        /\ Setting(Cfg(c, v), "context_lines", 2) \in Nat
        /\ \E o \in c.objections : o.validator = v
        => LET text == c.read[<<v, call.path>>] IN
           LintFaults(v, text) \cup LintFaults(v, Replace(text, call.old, call.new)) # {}

(* No edit of a shell or JavaScript file is refused for what its fragment leaves  *)
(* out, a shebang or the definition of a name used in it.                         *)
CleanEditsPass == FragmentsSuffice("shellscript") /\ FragmentsSuffice("javascript")

Deciding(c, v) ==
    LET matching == {r \in Written(c.under) : r.enabled /\ Matches(r, RuleContext(v, c.call))}
    IN  {r \in matching : \A s \in matching \ {r} :
            \/ r.priority > s.priority
            \/ r.priority = s.priority /\ NameRank(r.name) < NameRank(s.name)}

(* Of the rules that match a call the one of the highest priority decides: a     *)
(* validator blocks under the reference of a blocking rule, and does not block   *)
(* where the rule allows or warns, whatever the validator itself would say.      *)
RulesDecide ==
    \A h \in Hook :
        LET c == calls[h] IN
        Answered(h) /\ c.judged =>
            \A v \in Registered(c.settings) :
                Applies(v, c.call) =>
                    \A r \in Deciding(c, v) :
                        IF r.action.type \in {"allow", "warn"}
                        THEN \A o \in c.objections : o.validator # v
                        ELSE [validator |-> v, ref |-> r.action.ref] \in c.objections

(* The same, of a registry that is built with the rule engine. *)
RulesObeyed == wired => RulesDecide

\* Whether the last source that speaks of a validator leaves it on: flags over
\* variables over the project's file over the global one.
LeftOn(src, v) ==
    LET Switched(by) == IF v \in DOMAIN by /\ "enabled" \in DOMAIN by[v] THEN <<by[v]["enabled"]>> ELSE <<>>
        flags    == IF v \in src.disabled THEN <<FALSE>> ELSE <<>>
        said     == Switched(src.global.sections) \o Switched(src.project.sections)
                        \o Switched(src.vars) \o flags
    IN  IF said # <<>> THEN Last(said) ELSE TRUE

\* Whether a source speaks of a validator in a way that never reaches the
\* settings: envTransform makes a dot of every underscore, so that a variable
\* for no_verify sets a key nothing reads, and applyDisableFlags skips every name
\* that is not in its table.
Unheard(src, v) ==
    \/ Underscored(v) /\ v \in DOMAIN src.vars /\ "enabled" \in DOMAIN src.vars[v]
    \/ v \in src.disabled \ Disableable

(* Only a validator that the last source to speak of it leaves on objects to a   *)
(* call. Left out are the validators of which a variable or a flag speaks in     *)
(* vain (Unheard): README.md promises that these are switched off too, and the   *)
(* code lets them object.                                                        *)
DisabledAreSilent ==
    \A h \in Hook :
        Answered(h) =>
            \A o \in calls[h].objections :
                Unheard(calls[h].under, o.validator) \/ LeftOn(calls[h].under, o.validator)
=============================================================================
