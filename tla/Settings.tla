------------------------------- MODULE Settings -------------------------------
(***************************************************************************)
(* What KoanfLoader.Load makes of the sources of the configuration: the    *)
(* defaults, the global and the project file, the environment and the      *)
(* flags, each laid over the ones before it, and then validated.           *)
(*                                                                         *)
(* The configuration of a validator is a section: a function from the keys *)
(* somebody set to their values.  A source maps the sections it mentions.  *)
(***************************************************************************)
EXTENDS Rules

CONSTANT Underscored(_)   \* whether the name of a section or key has an underscore

ASSUME KeyAssumption == ~Underscored("enabled")

NoSections == <<>>

\* A configuration file.  mode "open" is one that everybody may write; rules is empty
\* when the file says nothing of them, and holds their list otherwise.
Unset == <<>>
NoFile == [mode |-> "absent", sections |-> NoSections, rules |-> Unset]

\* The validators of the defaults are configured without anybody's doing; the
\* others exist only once a source mentions them.
DefaultSections ==
    [s \in {"commit", "push", "fetch", "add", "pr", "branch", "no_verify", "markdown",
            "shellscript", "terraform", "workflow", "bell"} |-> [enabled |-> TRUE]]

SectionIn(source, s) == IF s \in DOMAIN source THEN source[s] ELSE <<>>

Over(lower, upper) ==
    [k \in DOMAIN lower \cup DOMAIN upper |->
        IF k \in DOMAIN upper THEN upper[k] ELSE lower[k]]

\* What was there before stays.
OverlayUnder(lower, upper) ==
    [s \in DOMAIN lower \cup DOMAIN upper |->
        Over(SectionIn(upper, s), SectionIn(lower, s))]

\* Section by section, the keys of the upper source come before those of the lower.
Overlay(lower, upper) ==
    [s \in DOMAIN lower \cup DOMAIN upper |->
        Over(SectionIn(lower, s), SectionIn(upper, s))]

\* envTransform makes a dot of every underscore of a variable's name, so one that
\* is meant for a section or a key with an underscore names a key nobody reads.
Environment(vars) ==
    [s \in {t \in DOMAIN vars : ~Underscored(t)} |->
        [k \in {key \in DOMAIN vars[s] : ~Underscored(key)} |-> vars[s][k]]]

Disableable ==
    {"commit", "push", "add", "pr", "branch", "no_verify", "markdown", "shellscript",
     "terraform", "workflow", "bell"}

Flags(disabled) == [s \in disabled \cap Disableable |-> [enabled |-> FALSE]]

-----------------------------------------------------------------------------
\* Rules.  The loader reads them field by field, and knows of a match only the
\* conditions with a single pattern.

Simple(m) == [m EXCEPT !.many = [s \in Subjects |-> <<>>], !.anyCase = FALSE, !.all = FALSE]

ExtractRules(rules) ==
    [i \in DOMAIN rules |->
        IF rules[i].match = Missing THEN rules[i] ELSE [rules[i] EXCEPT !.match = Simple(@)]]

\* The merged rules by their place.  A project's rule takes the place of the global
\* ones of its name, and leaves its own behind them empty.
MergeRules(global, project) ==
    LET named(r)  == {k \in DOMAIN project : r.name # "" /\ project[k].name = r.name}
        added     == {k \in DOMAIN project : \A i \in DOMAIN global : k \notin named(global[i])}
        behind(k) == Len(global) + k
    IN  [i \in DOMAIN global \cup {behind(k) : k \in added} |->
            IF i \notin DOMAIN global THEN project[i - Len(global)]
            ELSE IF named(global[i]) = {} THEN global[i]
            ELSE project[Max(named(global[i]))]]

HasMatchConditions(m) ==
    \/ m.validator # "" \/ m.remote # "" \/ m.tool # "" \/ m.event # ""
    \/ \E s \in Subjects : m.one[s] # <<>> \/ m.many[s] # <<>>

ValidRule(r) ==
    /\ r.match # Missing
    /\ HasMatchConditions(r.match)
    /\ r.match.event \in {"", "PreToolUse", "PostToolUse", "Notification"}
    /\ r.match.tool \in {"", "Bash", "Write", "Edit", "MultiEdit", "Grep", "Read", "Glob"}
    /\ r.action # Missing => r.action.type \in {"", "allow", "block", "warn"}

-----------------------------------------------------------------------------
\* Loading

\* Fetch, merge and the validators outside the defaults are not looked at.
Validated == DOMAIN DefaultSections \ {"fetch"}

OptionValues == [shellcheck_severity |-> {"", "error", "warning", "info", "style"},
            tool_preference     |-> {"", "tofu", "terraform", "auto"}]

ValidSection(section) ==
    /\ \A k \in DOMAIN section \cap {"title_max_length", "body_max_line_length"} : section[k] > 0
    /\ \A k \in DOMAIN section \cap {"body_line_tolerance", "context_lines"} : section[k] >= 0
    /\ \A k \in DOMAIN section \cap DOMAIN OptionValues : section[k] \in OptionValues[k]
    /\ "valid_types" \in DOMAIN section => "" \notin section["valid_types"]

Failed == [ok |-> FALSE, sections |-> NoSections, rules |-> [enabled |-> FALSE, rules |-> <<>>]]

\* sources: global and project file, vars, disabled, and rulesEnabled, what the
\* last of them to say so makes of rules.enabled.
Said(file, before) ==
    IF file.mode = "absent" \/ file.rules = Unset THEN before ELSE ExtractRules(file.rules[1])

\* What the merged state holds after the project file are its own rules or, when it
\* has none, the global ones once more.
MergedRules(global, file) ==
    MergeRules(global, IF file.mode = "absent" THEN <<>> ELSE Said(file, global))

MergedSections(sources) ==
    LET files == Overlay(Overlay(DefaultSections, sources.global.sections),
                         sources.project.sections)
    IN  Overlay(Overlay(files, Environment(sources.vars)), Flags(sources.disabled))

ValidateConfig(sections, rules, enabled) ==
    IF \/ \E s \in DOMAIN sections \cap Validated : ~ValidSection(sections[s])
       \/ \E i \in DOMAIN rules : rules[i].enabled /\ ~ValidRule(rules[i])
    THEN Failed
    ELSE [ok |-> TRUE, sections |-> sections, rules |-> [enabled |-> enabled, rules |-> rules]]

Load(sources) ==
    IF \E f \in {sources.global, sources.project} : f.mode \in {"open", "broken"} THEN Failed
    ELSE ValidateConfig(MergedSections(sources),
                        MergedRules(Said(sources.global, <<>>), sources.project), sources.rulesEnabled)

IsEnabled(sections, s) == s \in DOMAIN sections /\ Setting(sections[s], "enabled", TRUE)
=============================================================================
