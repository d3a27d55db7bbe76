-------------------------------- MODULE Rules --------------------------------
(***************************************************************************)
(* The rule engine: which of the configured rules decides about a call, in *)
(* place of the validator that asks.                                       *)
(*                                                                         *)
(* A rule is what the loader keeps of its section: an unset text is "", a  *)
(* missing match or action is Missing.  A pattern is a regular expression  *)
(* or a glob: which texts it hits is the library's affair.                 *)
(***************************************************************************)
EXTENDS Naturals, SequencesExt, CommitMessage

CONSTANTS
    Hits(_, _),         \* whether a pattern hits a text
    HitsAnyCase(_, _),  \* the same without regard to case
    Compiles(_),        \* whether a pattern can be compiled
    NameRank(_)         \* the place of a name in the order of strings

Missing == [missing |-> TRUE]

Subjects == {"repo", "branch", "file", "content", "command"}

\* A pattern without its leading "!", whether it had one, and as it was written.
Pattern == [base: STRING, negated: BOOLEAN, written: STRING]

Match == [validator: STRING, remote: STRING, tool: STRING, event: STRING,
          one: [Subjects -> Seq(Pattern)],
          many: [Subjects -> Seq(Pattern)], anyCase: BOOLEAN, all: BOOLEAN]

Rule == [name: STRING, enabled: BOOLEAN, priority: Int, match: Match \cup {Missing},
         action: [type: STRING, ref: STRING] \cup {Missing}]

-----------------------------------------------------------------------------
\* Compiling.  A rule with a list of patterns, or one that ignores case, is built
\* another way than a simple one, which knows no negation of a content pattern.

Advanced(m) == m.anyCase \/ \E s \in Subjects : m.many[s] # <<>>

Patterns(m, s) == IF m.many[s] # <<>> THEN m.many[s]
                  ELSE IF m.one[s] # <<>> THEN <<m.one[s][1]>> ELSE <<>>

Literal(m, s) == s = "content" /\ ~Advanced(m)

Compilable(rule) ==
    /\ rule.name # ""
    /\ rule.action # Missing
    /\ rule.match # Missing =>
         \A s \in Subjects : \A i \in DOMAIN Patterns(rule.match, s) :
             LET p == Patterns(rule.match, s)[i]
             IN  Compiles(IF Literal(rule.match, s) THEN p.written ELSE p.base)

\* Sorted by name alone.
BeforeByName(a, b) == NameRank(a.name) < NameRank(b.name)

\* By falling priority, then by name.
Before(a, b) ==
    \/ a.priority > b.priority
    \/ a.priority = b.priority /\ NameRank(a.name) < NameRank(b.name)

\* Registry.AddAll: a rule replaces the one of its name, and what is left is sorted.
Latest(rules) ==
    {i \in DOMAIN rules : \A j \in DOMAIN rules : rules[j].name = rules[i].name => j <= i}

InOrder(s) == \A i, j \in DOMAIN s : i < j => Before(s[i], s[j])

AddAll(rules) == CHOOSE s \in SetToSeqs({rules[i] : i \in Latest(rules)}) : InOrder(s)

\* One rule that cannot be compiled and there is no engine but an error.
EngineFails(config) ==
    /\ config.enabled
    /\ \E i \in DOMAIN config.rules : config.rules[i].enabled /\ ~Compilable(config.rules[i])

Enabled(rules) == Restrict(rules, {i \in DOMAIN rules : rules[i].enabled})

\* Without an enabled rule there is no engine, which is as good as an empty one.
CreateRuleEngine(config) ==
    IF ~config.enabled THEN <<>> ELSE AddAll(Enabled(config.rules))

-----------------------------------------------------------------------------
\* Matching.  ctx is what the adapter of a validator knows of a call: the
\* validator, tool, event and the texts of the call.  No adapter is given the
\* state of the repository, so git is FALSE and the first conditions never hold.

PatternHits(m, s, p, text) ==
    CASE Literal(m, s) -> Hits(p.written, text)
      [] m.anyCase     -> HitsAnyCase(p.base, text) # p.negated
      [] OTHER         -> Hits(p.base, text) # p.negated

Enough(m, ps, hit) == IF m.all THEN hit = DOMAIN ps ELSE hit # {}

SubjectMatches(m, s, ctx) ==
    LET ps == Patterns(m, s)
    IN  \/ ps = <<>>
        \/ /\ s \in {"repo", "branch"} => ctx.git /\ ctx.text[s] # ""
           /\ Enough(m, ps, {i \in DOMAIN ps : PatternHits(m, s, ps[i], ctx.text[s])})

\* A condition on the validator names one, a group of them or, with "*", all.
CallMatches(m, ctx) ==
    /\ m.validator \in {"", "*", ctx.validator, ctx.group}
    /\ m.tool \in {"", ctx.tool}
    /\ m.event \in {"", ctx.event}

RemoteMatches(m, ctx) == m.remote # "" => ctx.git /\ ctx.remote = m.remote

Matches(rule, ctx) ==
    \/ rule.match = Missing
    \/ /\ CallMatches(rule.match, ctx) /\ RemoteMatches(rule.match, ctx)
       /\ \A s \in Subjects : SubjectMatches(rule.match, s, ctx)

ConvertResult(action) ==
    CASE action.type = "warn"  -> WarnAs(action.ref)
      [] action.type = "allow" -> Pass
      [] OTHER                 -> FailAs(action.ref)

\* CheckRules: the answer of the first rule that matches; <<>> when none does and
\* the validator itself must look.
CheckRules(engine, ctx) ==
    LET hits == {i \in DOMAIN engine : Matches(engine[i], ctx)}
    IN  IF hits = {} THEN <<>> ELSE <<ConvertResult(engine[Min(hits)].action)>>
=============================================================================
