---------------------------- MODULE PluginLoaders ----------------------------
(***************************************************************************)
(* What the plugin registry decides without waiting for anyone: which      *)
(* configured plugins can be loaded, which of the loaded ones a call       *)
(* concerns, and what their answers come to.                               *)
(***************************************************************************)
EXTENDS SequencesExt

CONSTANTS
    LocalAddress,      \* the addresses of this host
    Compiles(_),       \* whether a file or command pattern of a predicate is one
    HitsFile(_, _),    \* filepath.Match
    HitsCommand(_, _)  \* a regular expression anywhere in a command

-----------------------------------------------------------------------------
\* Loading.  A path is where it leads and what is odd about how it is written.

AllowedDirs(cfg) == {"home"} \cup IF cfg.projectRoot THEN {"project"} ELSE {}

\* Validation expands a leading ~, but it is the path as written that is opened.
ValidatePath(path, dirs) == path.written # "" /\ ~path.climbs /\ path.dir \in dirs

Opens(path) == ~path.tilde

ExecLoads(cfg) == ~cfg.path.meta /\ ValidatePath(cfg.path, AllowedDirs(cfg)) /\ Opens(cfg.path)

GoLoads(cfg) == cfg.path.ext = ".so" /\ ValidatePath(cfg.path, AllowedDirs(cfg)) /\ Opens(cfg.path)

\* Both halves of a client certificate, or neither.
TLSCredentials(tls) == tls.ca # "bad" /\ tls.cert = tls.key /\ tls.cert # "bad"

\* The transport of a gRPC plugin, "none" when its configuration asks for none it may have.
Transport(cfg) ==
    CASE cfg.tls.enabled = "on" -> IF TLSCredentials(cfg.tls) THEN "tls" ELSE "none"
      [] cfg.address \in LocalAddress -> "insecure"
      [] cfg.tls.enabled = "off" /\ cfg.tls.allowInsecureRemote -> "insecure"
      [] OTHER -> "none"

PredicateCompiles(predicate) == \A p \in predicate.files \cup predicate.commands : Compiles(p)

\* Whether a configuration gets past the checks before anyone is asked.
Loadable(cfg) ==
    CASE cfg.type = "exec" -> ExecLoads(cfg)
      [] cfg.type = "go"   -> GoLoads(cfg)
      [] cfg.type = "grpc" -> cfg.address # "" /\ Transport(cfg) # "none"
      [] OTHER -> FALSE

-----------------------------------------------------------------------------
\* Matching: a part of a predicate that says nothing holds of every call.

MatchesFiles(predicate, call) ==
    \/ predicate.files = {}
    \/ /\ call.tool \in {"Write", "Edit", "MultiEdit"} /\ call.path # ""
       /\ \E p \in predicate.files : HitsFile(p, call.path)

MatchesCommands(predicate, call) ==
    \/ predicate.commands = {}
    \/ /\ call.tool = "Bash" /\ call.command # ""
       /\ \E p \in predicate.commands : HitsCommand(p, call.command)

Matches(predicate, call) ==
    /\ predicate.events = {} \/ call.event \in predicate.events
    /\ predicate.tools = {} \/ call.tool \in predicate.tools
    /\ MatchesFiles(predicate, call)
    /\ MatchesCommands(predicate, call)

\* The places of the entries that a call concerns.
GetValidators(entries, call) ==
    {i \in DOMAIN entries : Matches(entries[i].plugin.predicate, call)}

-----------------------------------------------------------------------------
\* Answers.

Answer == [passed : BOOLEAN, block : BOOLEAN]

Pass == [passed |-> TRUE, block |-> FALSE]
Warn == [passed |-> FALSE, block |-> FALSE]
Fail == [passed |-> FALSE, block |-> TRUE]

Warning(answer)  == ~answer.passed /\ ~answer.block
Refusing(answer) == ~answer.passed /\ answer.block

\* The answers by the places of who gave them.  The first blocking one stands, even
\* if it says it passed; the dispatcher then takes it for a pass.
Aggregate(answers) ==
    LET blocking == {i \in DOMAIN answers : answers[i].block}
    IN  CASE blocking # {} -> answers[Min(blocking)]
          [] blocking = {} /\ \E i \in DOMAIN answers : Warning(answers[i]) -> Warn
          [] OTHER -> Pass
=============================================================================
