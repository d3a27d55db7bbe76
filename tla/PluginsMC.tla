------------------------------ MODULE PluginsMC ------------------------------
(***************************************************************************)
(* Plugins for TLC: two goroutines that load plugins of one address, and   *)
(* one goroutine that loads plugins of every kind.                         *)
(***************************************************************************)
EXTENDS Plugins

CONSTANTS u1, u2

Nothing == [written |-> "", dir |-> "", ext |-> "", climbs |-> FALSE, meta |-> FALSE, tilde |-> FALSE]
Below(dir, ext) == [Nothing EXCEPT !.written = "plugin", !.dir = dir, !.ext = ext]

Auto == [enabled |-> "auto", allowInsecureRemote |-> FALSE, ca |-> "", cert |-> "", key |-> ""]
Every == [events |-> {}, tools |-> {}, files |-> {}, commands |-> {}]

Config(name, type) ==
    [name |-> name, type |-> type, enabled |-> TRUE, projectRoot |-> FALSE, path |-> Nothing,
     address |-> "", tls |-> Auto, predicate |-> Every]

\* Two plugins of one server; one asks for commands and the other for files.
Alpha == [Config("alpha", "grpc") EXCEPT !.address = "here", !.predicate.commands = {"push"}]
Beta  == [Config("beta", "grpc") EXCEPT !.address = "here", !.predicate.files = {"*.go"}]

Gamma == [Config("gamma", "exec") EXCEPT !.path = Below("home", ".sh"), !.predicate.tools = {"Bash"}]
Delta == [Config("delta", "go") EXCEPT !.path = Below("home", ".so"), !.predicate.events = {"PreToolUse"}]

Off     == [Alpha EXCEPT !.name = "off", !.enabled = FALSE]
Away    == [Alpha EXCEPT !.name = "away", !.address = "there"]
Secured == [Away EXCEPT !.name = "secured", !.tls.enabled = "on"]
Tilde   == [Delta EXCEPT !.name = "tilde", !.path.tilde = TRUE]
Odd     == [Delta EXCEPT !.name = "odd", !.predicate.files = {"["}]

Configs   == {Alpha, Beta, Gamma, Delta, Off, Away, Secured, Tilde, Odd}
Addresses == {"", "here", "there"}
Here      == {"here"}

Plan(first, second) == (u1 :> first) @@ (u2 :> second)

ManyPlans ==
    {Plan(<<Alpha>>, <<Beta>>), Plan(<<Alpha, Beta>>, <<Secured>>),
     Plan(<<Off, Gamma, Delta>>, <<>>), Plan(<<Delta, Away>>, <<>>), Plan(<<Tilde, Odd>>, <<>>)}

FewPlans == {Plan(<<Alpha, Away>>, <<>>)}

Push   == [NoCall EXCEPT !.event = "PreToolUse", !.tool = "Bash", !.command = "push"]
Write  == [NoCall EXCEPT !.event = "PreToolUse", !.tool = "Write", !.path = "*.go"]
Events == {Push, Write}

Same(p, text) == p = text
Valid(p) == p # "["
=============================================================================
