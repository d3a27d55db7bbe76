----------------------------- MODULE GateProofs -----------------------------
(***************************************************************************)
(* Proofs about the hooks that judge a call: who may object to it.         *)
(***************************************************************************)
EXTENDS Gate, FiniteSetTheorems, SequenceTheorems, WellFoundedInduction, TLAPS

-----------------------------------------------------------------------------
\* What the sources come to

\* A source says whether a validator is on.
Speaks(by, v) == v \in DOMAIN by /\ "enabled" \in DOMAIN by[v]

(* The upper of two sources decides where it speaks, the lower elsewhere.   *)
LEMMA OverlaySpeaks ==
  ASSUME NEW lower, NEW upper, NEW v
  PROVE  /\ Speaks(Overlay(lower, upper), v) <=> Speaks(lower, v) \/ Speaks(upper, v)
         /\ Speaks(upper, v) =>
              Overlay(lower, upper)[v]["enabled"] = upper[v]["enabled"]
         /\ Speaks(lower, v) /\ ~Speaks(upper, v) =>
              Overlay(lower, upper)[v]["enabled"] = lower[v]["enabled"]
<1>1. CASE v \notin DOMAIN lower \cup DOMAIN upper
  BY <1>1 DEF Speaks, Overlay
<1>2. CASE v \in DOMAIN lower \cup DOMAIN upper
  <2>1. v \in DOMAIN Overlay(lower, upper)
        /\ Overlay(lower, upper)[v] = Over(SectionIn(lower, v), SectionIn(upper, v))
    BY <1>2 DEF Overlay
  <2>2. /\ "enabled" \in DOMAIN SectionIn(upper, v) <=> Speaks(upper, v)
        /\ "enabled" \in DOMAIN SectionIn(lower, v) <=> Speaks(lower, v)
        /\ Speaks(upper, v) => SectionIn(upper, v) = upper[v]
        /\ Speaks(lower, v) => SectionIn(lower, v) = lower[v]
    BY DEF SectionIn, Speaks
  <2>3. /\ "enabled" \in DOMAIN Over(SectionIn(lower, v), SectionIn(upper, v))
              <=> Speaks(lower, v) \/ Speaks(upper, v)
        /\ Speaks(upper, v) =>
              Over(SectionIn(lower, v), SectionIn(upper, v))["enabled"] = upper[v]["enabled"]
        /\ Speaks(lower, v) /\ ~Speaks(upper, v) =>
              Over(SectionIn(lower, v), SectionIn(upper, v))["enabled"] = lower[v]["enabled"]
    BY <2>2 DEF Over
  <2>4. Speaks(Overlay(lower, upper), v)
          <=> "enabled" \in DOMAIN Over(SectionIn(lower, v), SectionIn(upper, v))
    BY <2>1 DEF Speaks
  <2>. QED
    BY <2>1, <2>3, <2>4
<1>. QED
  BY <1>1, <1>2

(* A variable speaks of a validator whose name has no underscore.           *)
LEMMA EnvironmentSpeaks ==
  ASSUME NEW vs, NEW v
  PROVE  /\ Speaks(Environment(vs), v) <=> Speaks(vs, v) /\ ~Underscored(v)
         /\ Speaks(Environment(vs), v) => Environment(vs)[v]["enabled"] = vs[v]["enabled"]
BY KeyAssumption DEF Speaks, Environment

(* A flag switches a validator off.                                         *)
LEMMA FlagsSpeak ==
  ASSUME NEW disabled, NEW v
  PROVE  /\ Speaks(Flags(disabled), v) <=> v \in disabled \cap Disableable
         /\ Speaks(Flags(disabled), v) => Flags(disabled)[v]["enabled"] = FALSE
BY DEF Speaks, Flags

LEMMA LastOfOne ==
  ASSUME NEW S, NEW s \in Seq(S), NEW x \in S
  PROVE  s \o <<x>> # <<>> /\ Last(s \o <<x>>) = x
BY DEF Last

(* The setting of a validator is what the last source that speaks of it     *)
(* says: a flag, a variable, the project's file, the global file.           *)
LEMMA LastSpeaks ==
  ASSUME NEW src, NEW v, NEW d, d = MergedSections(src)
  PROVE  /\ v \in src.disabled \cap Disableable => Speaks(d, v) /\ d[v]["enabled"] = FALSE
         /\ v \notin src.disabled \cap Disableable =>
              /\ Speaks(src.vars, v) /\ ~Underscored(v) =>
                   Speaks(d, v) /\ d[v]["enabled"] = src.vars[v]["enabled"]
              /\ ~(Speaks(src.vars, v) /\ ~Underscored(v)) =>
                   /\ Speaks(src.project.sections, v) =>
                        Speaks(d, v) /\ d[v]["enabled"] = src.project.sections[v]["enabled"]
                   /\ ~Speaks(src.project.sections, v) /\ Speaks(src.global.sections, v) =>
                        Speaks(d, v) /\ d[v]["enabled"] = src.global.sections[v]["enabled"]
<1>. DEFINE a == Overlay(DefaultSections, src.global.sections)
            b == Overlay(a, src.project.sections)
            c == Overlay(b, Environment(src.vars))
<1>1. d = Overlay(c, Flags(src.disabled))
  BY DEF MergedSections
<1>2. /\ Speaks(d, v) <=> Speaks(c, v) \/ Speaks(Flags(src.disabled), v)
      /\ Speaks(Flags(src.disabled), v) =>
           d[v]["enabled"] = Flags(src.disabled)[v]["enabled"]
      /\ Speaks(c, v) /\ ~Speaks(Flags(src.disabled), v) =>
           d[v]["enabled"] = c[v]["enabled"]
  <2>. HIDE DEF c
  <2>. QED
    BY <1>1, OverlaySpeaks
<1>3. /\ Speaks(c, v) <=> Speaks(b, v) \/ Speaks(Environment(src.vars), v)
      /\ Speaks(Environment(src.vars), v) =>
           c[v]["enabled"] = Environment(src.vars)[v]["enabled"]
      /\ Speaks(b, v) /\ ~Speaks(Environment(src.vars), v) =>
           c[v]["enabled"] = b[v]["enabled"]
  <2>. HIDE DEF b
  <2>. QED
    BY OverlaySpeaks
<1>4. /\ Speaks(b, v) <=> Speaks(a, v) \/ Speaks(src.project.sections, v)
      /\ Speaks(src.project.sections, v) =>
           b[v]["enabled"] = src.project.sections[v]["enabled"]
      /\ Speaks(a, v) /\ ~Speaks(src.project.sections, v) =>
           b[v]["enabled"] = a[v]["enabled"]
  <2>. HIDE DEF a
  <2>. QED
    BY OverlaySpeaks
<1>5. Speaks(src.global.sections, v) =>
        Speaks(a, v) /\ a[v]["enabled"] = src.global.sections[v]["enabled"]
  BY OverlaySpeaks
<1>6. /\ Speaks(Environment(src.vars), v) <=> Speaks(src.vars, v) /\ ~Underscored(v)
      /\ Speaks(Environment(src.vars), v) =>
           Environment(src.vars)[v]["enabled"] = src.vars[v]["enabled"]
  BY EnvironmentSpeaks
<1>7. /\ Speaks(Flags(src.disabled), v) <=> v \in src.disabled \cap Disableable
      /\ Speaks(Flags(src.disabled), v) => Flags(src.disabled)[v]["enabled"] = FALSE
  BY FlagsSpeak
<1>. HIDE DEF a, b, c
<1>. QED
  BY <1>2, <1>3, <1>4, <1>5, <1>6, <1>7

(* What is enabled in the end was left on by the last source to speak, if   *)
(* every source that speaks of it is heard.                                 *)
LEMMA EnabledIsLeftOn ==
  ASSUME NEW src, NEW v, IsEnabled(MergedSections(src), v), ~Unheard(src, v)
  PROVE  LeftOn(src, v)
<1>. DEFINE d == MergedSections(src)
            Switched(by) == IF v \in DOMAIN by /\ "enabled" \in DOMAIN by[v]
                            THEN <<by[v]["enabled"]>> ELSE <<>>
            global  == Switched(src.global.sections)
            project == Switched(src.project.sections)
            vars_   == Switched(src.vars)
            flags   == IF v \in src.disabled THEN <<FALSE>> ELSE <<>>
            said    == global \o project \o vars_ \o flags
            V       == {src.global.sections[v]["enabled"], src.project.sections[v]["enabled"],
                        src.vars[v]["enabled"], FALSE}
<1>1. LeftOn(src, v) <=> IF said # <<>> THEN Last(said) ELSE TRUE
  BY DEF LeftOn
<1>2. Speaks(d, v) => d[v]["enabled"]
  BY DEF IsEnabled, Setting, Speaks
<1>3. /\ global = IF Speaks(src.global.sections, v)
                  THEN <<src.global.sections[v]["enabled"]>> ELSE <<>>
      /\ project = IF Speaks(src.project.sections, v)
                   THEN <<src.project.sections[v]["enabled"]>> ELSE <<>>
      /\ vars_ = IF Speaks(src.vars, v) /\ ~Underscored(v)
                 THEN <<src.vars[v]["enabled"]>> ELSE <<>>
  BY DEF Speaks, Unheard
<1>4. flags = IF v \in src.disabled \cap Disableable THEN <<FALSE>> ELSE <<>>
  BY DEF Unheard
<1>. HIDE DEF Switched, global, project, vars_, flags, d
<1>. /\ src.global.sections[v]["enabled"] \in V /\ src.project.sections[v]["enabled"] \in V
     /\ src.vars[v]["enabled"] \in V
  OBVIOUS
<1>. HIDE DEF V
<1>5. global \in Seq(V) /\ project \in Seq(V) /\ vars_ \in Seq(V)
  BY <1>3
<1>6. v \notin src.disabled \cap Disableable
  BY <1>2, LastSpeaks DEF d
<1>7. said = global \o project \o vars_
  <2>1. flags = <<>> /\ global \o project \o vars_ \in Seq(V)
    BY <1>4, <1>5, <1>6
  <2>. QED
    BY <2>1
<1>. HIDE DEF said
<1>8. CASE Speaks(src.vars, v) /\ ~Underscored(v)
  <2>1. said = (global \o project) \o <<src.vars[v]["enabled"]>> /\ global \o project \in Seq(V)
    BY <1>3, <1>5, <1>7, <1>8, SMTT(30)
  <2>2. said # <<>> /\ Last(said) = src.vars[v]["enabled"]
    BY <2>1, LastOfOne
  <2>3. Speaks(d, v) /\ d[v]["enabled"] = src.vars[v]["enabled"]
    BY <1>6, <1>8, LastSpeaks DEF d
  <2>. QED
    BY <1>1, <1>2, <2>2, <2>3
<1>9. CASE ~(Speaks(src.vars, v) /\ ~Underscored(v)) /\ Speaks(src.project.sections, v)
  <2>1. said = global \o <<src.project.sections[v]["enabled"]>>
    <3>1. vars_ = <<>> /\ global \o project \in Seq(V)
      BY <1>3, <1>5, <1>9
    <3>. QED
      BY <1>3, <1>7, <1>9, <3>1
  <2>2. said # <<>> /\ Last(said) = src.project.sections[v]["enabled"]
    BY <1>5, <2>1, LastOfOne
  <2>3. Speaks(d, v) /\ d[v]["enabled"] = src.project.sections[v]["enabled"]
    BY <1>6, <1>9, LastSpeaks DEF d
  <2>. QED
    BY <1>1, <1>2, <2>2, <2>3
<1>10. CASE /\ ~(Speaks(src.vars, v) /\ ~Underscored(v)) /\ ~Speaks(src.project.sections, v)
            /\ Speaks(src.global.sections, v)
  <2>1. project = <<>> /\ vars_ = <<>> /\ global = <<src.global.sections[v]["enabled"]>>
    BY <1>3, <1>10
  <2>2. said = <<src.global.sections[v]["enabled"]>>
    BY <1>5, <1>7, <2>1
  <2>3. said # <<>> /\ Last(said) = src.global.sections[v]["enabled"]
    BY <2>2 DEF Last
  <2>4. Speaks(d, v) /\ d[v]["enabled"] = src.global.sections[v]["enabled"]
    BY <1>6, <1>10, LastSpeaks DEF d
  <2>. QED
    BY <1>1, <1>2, <2>3, <2>4
<1>11. CASE /\ ~(Speaks(src.vars, v) /\ ~Underscored(v)) /\ ~Speaks(src.project.sections, v)
            /\ ~Speaks(src.global.sections, v)
  <2>1. said = <<>>
    BY <1>3, <1>7, <1>11
  <2>. QED
    BY <1>1, <2>1
<1>. QED
  BY <1>8, <1>9, <1>10, <1>11
-----------------------------------------------------------------------------
\* What a hook is to run

(* Of some places there is a first, and FirstOf is it.                      *)
LEMMA FirstIsOne ==
  ASSUME NEW T \in SUBSET (Nat \X Nat), T # {}
  PROVE  FirstOf(T) \in T /\ \A q \in T : ~Earlier(q, FirstOf(T))
<1>. DEFINE R == {ss \in Nat \X Nat : ss[1] < ss[2]}
            Lex == LexPairOrdering(R, R, Nat, Nat)
<1>1. IsWellFoundedOn(R, Nat)
  BY NatLessThanWellFounded DEF OpToRel
<1>2. PICK p \in T : \A q \in T : ~ (<<q, p>> \in Lex)
  <2>. HIDE DEF R
  <2>1. IsWellFoundedOn(Lex, Nat \X Nat)
    BY <1>1, WFLexPairOrdering
  <2>. HIDE DEF Lex
  <2>. QED
    BY <2>1, WFMin
<1>3. ASSUME NEW q \in T, Earlier(q, p) PROVE FALSE
  <2>1. p \in Nat \X Nat /\ q \in Nat \X Nat
    OBVIOUS
  <2>2. <<q[1], p[1]>> \in R \/ (q[1] = p[1] /\ <<q[2], p[2]>> \in R)
    BY <1>3, <2>1 DEF Earlier
  <2>3. <<q, p>> \in Lex
    BY <2>1, <2>2 DEF LexPairOrdering
  <2>. QED
    BY <1>2, <2>3
<1>. QED
  BY <1>3 DEF FirstOf

\* What the sources leave on, as far as the loader hears them.
StaysOn(src, v) == Unheard(src, v) \/ LeftOn(src, v)

(* Only the validators that are left on, or turned off in vain, get a place. *)
LEMMA JobsStayOn ==
  ASSUME NEW src, NEW call, NEW p \in Jobs(Load(src), call)
  PROVE  p \in Nat \X Nat /\ StaysOn(src, Order[p[2]])
<1>. DEFINE v == Order[p[2]]
<1>1. p \in Nat \X Nat
  <2>. DEFINE A == DOMAIN SeenAs(call)
              B == DOMAIN Order
  <2>1. A \in SUBSET Nat /\ B \in SUBSET Nat
    BY DEF SeenAs, Order
  <2>2. p \in A \X B
    BY DEF Jobs
  <2>. HIDE DEF A, B
  <2>. QED
    BY <2>1, <2>2
<1>2. IsEnabled(Load(src).sections, v)
  BY DEF Jobs, Registered
<1>3. Load(src).sections \in {NoSections, MergedSections(src)}
  BY DEF Load, ValidateConfig, Failed
<1>4. ~IsEnabled(NoSections, v)
  BY DEF IsEnabled, NoSections
<1>. QED
  BY <1>1, <1>2, <1>3, <1>4, EnabledIsLeftOn DEF StaysOn

-----------------------------------------------------------------------------
\* The invariant

Fields ==
  {"stage", "call", "judged", "settings", "under", "pending", "known", "read", "objections",
   "done"}

\* A hook at work has validators to run, and objections of validators, that the
\* sources of the configuration it loaded leave on.
LeavesOn(c) ==
  /\ DOMAIN c = Fields
  /\ \A p \in c.pending : p \in Nat \X Nat /\ StaysOn(c.under, Order[p[2]])
  /\ \A o \in c.objections : StaysOn(c.under, o.validator)

GateInv ==
  /\ DOMAIN calls = Hook
  /\ \A h \in Hook :
        \/ calls[h].stage \in {"idle", "asked"}
        \/ calls[h].stage \in {"judging", "allowed", "refused"} /\ LeavesOn(calls[h])

LEMMA InitGate == Init => GateInv
BY DEF Init, GateInv, Idle

(* A process that has loaded its configuration objects to nothing yet.      *)
LEMMA StartedLeavesOn ==
  ASSUME NEW call
  PROVE  LET c == Started(call, Load(sources))
         IN  c.stage \in {"judging", "allowed"} /\ LeavesOn(c)
<1>. DEFINE settings == Load(sources)
            fails == ~settings.ok \/ (wired /\ EngineFails(settings.rules))
            c == Started(call, settings)
<1>1. /\ DOMAIN c = Fields /\ c.stage \in {"judging", "allowed"} /\ c.objections = {}
      /\ c.under = sources /\ c.pending = IF fails THEN {} ELSE Jobs(settings, call)
  BY DEF Started, Fields
<1>. HIDE DEF c, fails
<1>2. \A p \in c.pending : p \in Nat \X Nat /\ StaysOn(c.under, Order[p[2]])
  BY <1>1, JobsStayOn
<1>. QED
  BY <1>1, <1>2 DEF LeavesOn, c

(* The answer of the next validator is an objection of that validator.      *)
LEMMA HeardLeavesOn ==
  ASSUME NEW c, LeavesOn(c), c.pending # {}, NEW verdict
  PROVE  LET d == Heard(c, JobAt(c.call, FirstOf(c.pending)), verdict)
         IN  d.stage = c.stage /\ LeavesOn(d)
<1>. DEFINE p == FirstOf(c.pending)
            job == JobAt(c.call, p)
            d == Heard(c, job, verdict)
<1>1. p \in c.pending /\ StaysOn(c.under, job.validator)
  <2>1. p \in c.pending
    BY FirstIsOne DEF LeavesOn
  <2>. QED
    BY <2>1 DEF LeavesOn, JobAt
<1>. HIDE DEF job
<1>2. /\ DOMAIN d = Fields /\ d.stage = c.stage /\ d.under = c.under
      /\ d.pending = c.pending \ {p}
      /\ d.objections \subseteq
           c.objections \cup {[validator |-> job.validator, ref |-> verdict.ref]}
  BY DEF Heard, LeavesOn, Fields
<1>. HIDE DEF d, p
<1>3. \A o \in d.objections : StaysOn(d.under, o.validator)
  BY <1>1, <1>2 DEF LeavesOn
<1>. QED
  BY <1>2, <1>3 DEF LeavesOn, d, job, p

(* A command is performed by a hook that is idle after the last of them, and *)
(* otherwise as it was but for their number.                                *)
LEMMA PerformCounts ==
  ASSUME NEW h, h \in DOMAIN calls, Perform(h)
  PROVE  /\ calls[h].stage = "allowed"
         /\ \E c \in {Idle, [calls[h] EXCEPT !.done = @ + 1]} : calls' = [calls EXCEPT ![h] = c]
<1>. DEFINE c == Onward(calls[h])
<1>1. calls[h].stage = "allowed" /\ calls' = [calls EXCEPT ![h] = c]
  BY DEF Perform
<1>2. c \in {Idle, [calls[h] EXCEPT !.done = @ + 1]}
  BY DEF Onward
<1>. QED
  BY <1>1, <1>2

LEMMA GateKept == GateInv /\ [Next]_vars => GateInv'
<1>. SUFFICES ASSUME GateInv, [Next]_vars PROVE GateInv'
  OBVIOUS
<1>0. DOMAIN calls = Hook
  BY DEF GateInv
<1>1. CASE UNCHANGED calls
  BY <1>1 DEF GateInv
<1>2. ASSUME NEW h \in Hook, NEW c, calls' = [calls EXCEPT ![h] = c],
             \/ c.stage \in {"idle", "asked"}
             \/ c.stage \in {"judging", "allowed", "refused"} /\ LeavesOn(c)
      PROVE  GateInv'
  BY <1>0, <1>2 DEF GateInv, LeavesOn
<1>3. ASSUME NEW h \in Hook, NEW call, Ask(h, call) PROVE GateInv'
  <2>. DEFINE c == [stage |-> "asked", call |-> Reading(call)]
  <2>1. calls' = [calls EXCEPT ![h] = c] /\ c.stage = "asked"
    BY <1>3 DEF Ask
  <2>. HIDE DEF c
  <2>. QED
    BY <1>2, <2>1
<1>4. ASSUME NEW h \in Hook, Start(h) PROVE GateInv'
  <2>. DEFINE c == Started(calls[h].call, Load(sources))
  <2>1. calls' = [calls EXCEPT ![h] = c]
    BY <1>0, <1>4 DEF Start
  <2>2. c.stage \in {"judging", "allowed"} /\ LeavesOn(c)
    BY StartedLeavesOn
  <2>. HIDE DEF c
  <2>. QED
    BY <1>2, <2>1, <2>2
<1>5. ASSUME NEW h \in Hook, Validate(h) PROVE GateInv'
  <2>. DEFINE c == calls[h]
              job == JobAt(c.call, FirstOf(c.pending))
              d == Heard(c, job, Verdict(c, job))
  <2>1. calls' = [calls EXCEPT ![h] = d] /\ c.stage = "judging" /\ c.pending # {}
    BY <1>0, <1>5 DEF Validate
  <2>2. LeavesOn(c)
    BY <2>1 DEF GateInv
  <2>3. d.stage = "judging" /\ LeavesOn(d)
    <3>. HIDE DEF c
    <3>. QED
      BY <2>1, <2>2, HeardLeavesOn
  <2>. HIDE DEF d
  <2>. QED
    BY <1>2, <2>1, <2>3
<1>6. ASSUME NEW h \in Hook, Answer(h) PROVE GateInv'
  <2>. DEFINE c == [calls[h] EXCEPT !.stage =
                      IF calls[h].objections = {} THEN "allowed" ELSE "refused"]
  <2>1. calls' = [calls EXCEPT ![h] = c] /\ calls[h].stage = "judging"
    BY <1>0, <1>6 DEF Answer
  <2>2. LeavesOn(calls[h])
    BY <2>1 DEF GateInv
  <2>3. c.stage \in {"allowed", "refused"} /\ LeavesOn(c)
    BY <2>2 DEF LeavesOn, Fields
  <2>. HIDE DEF c
  <2>. QED
    BY <1>2, <2>1, <2>3
<1>7. ASSUME NEW h \in Hook, Stop(h) \/ Refuse(h) PROVE GateInv'
  <2>1. calls' = [calls EXCEPT ![h] = Idle] /\ Idle.stage = "idle"
    BY <1>7 DEF Stop, Refuse, Idle
  <2>. QED
    BY <1>2, <2>1
<1>8. ASSUME NEW h \in Hook, Perform(h) PROVE GateInv'
  <2>. DEFINE d == [calls[h] EXCEPT !.done = @ + 1]
  <2>1. PICK c \in {Idle, d} : calls' = [calls EXCEPT ![h] = c]
    BY <1>0, <1>8, PerformCounts
  <2>2. calls[h].stage = "allowed" /\ LeavesOn(calls[h])
    BY <1>0, <1>8, PerformCounts DEF GateInv
  <2>3. d.stage = "allowed" /\ LeavesOn(d)
    BY <2>2 DEF LeavesOn, Fields
  <2>4. Idle.stage = "idle"
    BY DEF Idle
  <2>. HIDE DEF d
  <2>. QED
    BY <1>2, <2>1, <2>3, <2>4
<1>. QED
  BY <1>1, <1>3, <1>4, <1>5, <1>6, <1>7, <1>8 DEF Next, EditSettings, vars

(* Only a validator that the last source to speak of it leaves on objects   *)
(* to a call, whatever the sources hold, whatever call it is and however    *)
(* the settings change while it is judged: but for a validator of which a   *)
(* variable or a flag speaks and the loader does not hear it (Unheard).     *)
THEOREM DisabledAlwaysSilent == Spec => []DisabledAreSilent
<1>1. GateInv => DisabledAreSilent
  BY DEF GateInv, DisabledAreSilent, Answered, LeavesOn, StaysOn
<1>. QED
  BY <1>1, InitGate, GateKept, PTL DEF Spec

-----------------------------------------------------------------------------
\* Rules: sorting

\* Rules as an engine holds them: one of each name.
OneOfEach(T) == T \in SUBSET Rule /\ Ranked(T) /\ \A r, s \in T : r.name = s.name => r = s

(* Such rules are in an order.                                              *)
LEMMA BeforeIsOrder ==
  ASSUME NEW S, OneOfEach(S)
  PROVE  /\ \A r, s \in S : r # s => Before(r, s) \/ Before(s, r)
         /\ \A r, s \in S : ~(Before(r, s) /\ Before(s, r))
         /\ \A r, s, t \in S : Before(r, s) /\ Before(s, t) => Before(r, t)
<1>1. \A r \in S : r.priority \in Int /\ NameRank(r.name) \in Int
  BY DEF Rule, OneOfEach, Ranked
<1>2. \A r, s \in S : r # s => NameRank(r.name) # NameRank(s.name)
  BY DEF OneOfEach, Ranked
<1>3. ASSUME NEW r \in S, NEW s \in S
      PROVE  /\ r # s => Before(r, s) \/ Before(s, r)
             /\ ~(Before(r, s) /\ Before(s, r))
  BY <1>1, <1>2 DEF Before
<1>4. ASSUME NEW r \in S, NEW s \in S, NEW t \in S, Before(r, s), Before(s, t)
      PROVE  Before(r, t)
  BY <1>1, <1>4 DEF Before
<1>. QED
  BY <1>3, <1>4

(* Among subsets of a finite set there is one that contains no other.       *)
LEMMA SmallestExists ==
  ASSUME NEW all, IsFiniteSet(all), NEW X \in SUBSET (SUBSET all), X # {}
  PROVE  \E m \in X : \A u \in SUBSET m : u # m => u \notin X
<1>1. IsWellFoundedOn(StrictSubsetOrdering(all), SUBSET all)
  BY FS_StrictSubsetOrderingWellFounded, FS_FiniteSubsetsOfFinite
<1>2. PICK m \in X : \A u \in X : ~(<<u, m>> \in StrictSubsetOrdering(all))
  BY <1>1, WFMin
<1>3. ASSUME NEW u \in SUBSET m, u # m, u \in X PROVE FALSE
  BY <1>2, <1>3 DEF StrictSubsetOrdering
<1>. QED
  BY <1>3

(* Of finitely many rules one comes before all others.                      *)
LEMMA LeastRule ==
  ASSUME NEW S, OneOfEach(S), IsFiniteSet(S), NEW T \in SUBSET S, T # {}
  PROVE  \E r \in T : \A s \in T \ {r} : Before(r, s)
<1>. DEFINE Least(U) == \E r \in U : \A s \in U \ {r} : Before(r, s)
            X == {U \in SUBSET S : U # {} /\ ~Least(U)}
<1>1. SUFFICES ASSUME X # {} PROVE FALSE
  OBVIOUS
<1>2. PICK U \in X : \A V \in SUBSET U : V # U => V \notin X
  <2>1. X \in SUBSET (SUBSET S)
    OBVIOUS
  <2>. HIDE DEF X
  <2>. QED
    BY <1>1, <2>1, SmallestExists
<1>3. U \in SUBSET S /\ U # {} /\ ~Least(U)
  OBVIOUS
<1>4. PICK x \in U : TRUE
  BY <1>3
<1>5. CASE U \ {x} = {}
  BY <1>3, <1>4, <1>5
<1>6. CASE U \ {x} # {}
  <2>1. Least(U \ {x})
    <3>1. U \ {x} \notin X
      BY <1>2, <1>4
    <3>2. U \ {x} \in SUBSET S
      BY <1>3
    <3>. HIDE DEF Least
    <3>. QED
      BY <1>6, <3>1, <3>2
  <2>2. PICK m \in U \ {x} : \A s \in (U \ {x}) \ {m} : Before(m, s)
    BY <2>1
  <2>3. \A r \in U : r \in S
    BY <1>3
  <2>4. Before(x, m) \/ Before(m, x)
    BY <1>4, <2>2, <2>3, BeforeIsOrder
  <2>5. CASE Before(m, x)
    BY <1>3, <2>2, <2>5
  <2>6. CASE Before(x, m)
    <3>1. \A s \in U \ {x} : Before(x, s)
      BY <1>4, <2>2, <2>3, <2>6, BeforeIsOrder
    <3>. QED
      BY <1>3, <1>4, <3>1
  <2>. QED
    BY <2>4, <2>5, <2>6
<1>. QED
  BY <1>5, <1>6

(* Finitely many rules can be put in order.                                 *)
LEMMA SortedExists ==
  ASSUME NEW S, OneOfEach(S), IsFiniteSet(S)
  PROVE  \E s \in SetToSeqs(S) : InOrder(s)
<1>. DEFINE Sortable(U) == \E s \in SetToSeqs(U) : InOrder(s)
            X == {U \in SUBSET S : ~Sortable(U)}
<1>1. SUFFICES ASSUME X # {} PROVE FALSE
  OBVIOUS
<1>2. PICK U \in X : \A V \in SUBSET U : V # U => V \notin X
  <2>1. X \in SUBSET (SUBSET S)
    OBVIOUS
  <2>. HIDE DEF X
  <2>. QED
    BY <1>1, <2>1, SmallestExists
<1>3. U \in SUBSET S /\ ~Sortable(U)
  OBVIOUS
<1>4. IsFiniteSet(U)
  BY <1>3, FS_Subset
<1>. DEFINE n == Cardinality(U)
<1>5. CASE U = {}
  <2>1. n = 0
    BY <1>5, FS_EmptySet
  <2>. DEFINE s == [i \in 1..0 |-> {}]
  <2>2. s \in [1..n -> U] /\ \A i, j \in 1..n : FALSE
    BY <2>1
  <2>3. s \in SetToSeqs(U)
    BY <2>2 DEF SetToSeqs
  <2>4. InOrder(s)
    BY DEF InOrder
  <2>. QED
    BY <1>3, <2>3, <2>4
<1>6. CASE U # {}
  <2>1. PICK m \in U : \A s \in U \ {m} : Before(m, s)
    BY <1>3, <1>6, LeastRule
  <2>. DEFINE V == U \ {m}
  <2>2. Sortable(V)
    <3>1. V \in SUBSET U /\ V # U
      BY <2>1
    <3>2. V \notin X /\ V \in SUBSET S
      BY <1>2, <1>3, <3>1
    <3>. HIDE DEF Sortable, V
    <3>. QED
      BY <3>2
  <2>3. n \in Nat \ {0} /\ Cardinality(V) = n - 1
    <3>1. n \in Nat /\ n # 0
      BY <1>4, <1>6, FS_CardinalityType, FS_EmptySet
    <3>2. Cardinality(V) = n - 1
      BY <1>4, <2>1, FS_RemoveElement
    <3>. QED
      BY <3>1, <3>2
  <2>. HIDE DEF n
  <2>4. PICK s : /\ s \in [1..(n - 1) -> V] /\ InOrder(s)
                 /\ \A i, j \in 1..(n - 1) : i # j => s[i] # s[j]
    BY <2>2, <2>3 DEF SetToSeqs
  <2>. DEFINE t == [i \in 1..n |-> IF i = 1 THEN m ELSE s[i - 1]]
  <2>5. t[1] = m /\ \A i \in 2..n : t[i] = s[i - 1] /\ t[i] \in V /\ i - 1 \in 1..(n - 1)
    BY <2>3, <2>4
  <2>6. t \in [1..n -> U]
    <3>1. \A i \in 1..n : t[i] \in U
      <4>1. \A i \in 1..n : i = 1 \/ i \in 2..n
        BY <2>3
      <4>. HIDE DEF t
      <4>. QED
        BY <2>5, <4>1
    <3>. QED
      BY <3>1
  <2>7. ASSUME NEW i \in 1..n, NEW j \in 1..n, i < j
        PROVE  t[i] # t[j] /\ Before(t[i], t[j])
    <3>1. j \in 2..n /\ (i = 1 \/ i \in 2..n)
      BY <2>3, <2>7
    <3>2. CASE i = 1
      <4>. HIDE DEF t
      <4>. QED
        BY <2>1, <2>5, <3>1, <3>2
    <3>3. CASE i \in 2..n
      <4>1. i - 1 < j - 1 /\ i - 1 \in 1..(n - 1) /\ j - 1 \in 1..(n - 1)
        BY <2>3, <2>7, <3>1, <3>3
      <4>2. s[i - 1] # s[j - 1] /\ Before(s[i - 1], s[j - 1])
        BY <2>4, <4>1 DEF InOrder
      <4>. HIDE DEF t
      <4>. QED
        BY <2>5, <3>1, <3>3, <4>2
    <3>. QED
      BY <3>1, <3>2, <3>3
  <2>. DEFINE D == 1..n
  <2>8. DOMAIN t = D /\ D \subseteq Int
    BY <2>3
  <2>. HIDE DEF t
  <2>9. \A i, j \in D : i # j => t[i] # t[j]
    <3>. SUFFICES ASSUME NEW i \in D, NEW j \in D, i # j PROVE t[i] # t[j]
      OBVIOUS
    <3>1. i < j \/ j < i
      BY <2>3
    <3>. QED
      BY <2>7, <3>1
  <2>10. t \in SetToSeqs(U)
    BY <2>6, <2>9 DEF SetToSeqs, n
  <2>11. InOrder(t)
    BY <2>7, <2>8 DEF InOrder
  <2>. QED
    BY <1>3, <2>10, <2>11
<1>. QED
  BY <1>5, <1>6

(* An engine has its rules in order, each of them once.                     *)
LEMMA EngineSorted ==
  ASSUME NEW S, OneOfEach(S), IsFiniteSet(S),
         NEW E \in SetToSeqs(S), InOrder(E)
  PROVE  /\ DOMAIN E \in SUBSET Nat /\ S = {E[i] : i \in DOMAIN E}
         /\ \A i, j \in DOMAIN E : i < j => Before(E[i], E[j])
<1>. DEFINE n == Cardinality(S)
            D == 1..n
<1>2. n \in Nat
  BY FS_CardinalityType
<1>3. IsFiniteSet(D) /\ Cardinality(D) = n
  BY <1>2, FS_Interval
<1>4. /\ E \in [D -> S] /\ \A i, j \in D : i # j => E[i] # E[j]
      /\ D \in SUBSET Nat
  BY <1>2 DEF SetToSeqs
<1>. HIDE DEF n, D
<1>5. E \in Injection(D, S)
  BY <1>4 DEF Injection, IsInjective
<1>6. E \in Surjection(D, S)
  <2>1. Cardinality(D) = Cardinality(S)
    BY <1>3 DEF n
  <2>. QED
    BY <1>5, <2>1, FS_Injection
<1>7. S = {E[i] : i \in DOMAIN E}
  <2>1. \A t \in S : \E s \in D : E[s] = t
    BY <1>6 DEF Surjection
  <2>2. DOMAIN E = D /\ \A i \in D : E[i] \in S
    BY <1>4
  <2>. QED
    BY <2>1, <2>2
<1>8. DOMAIN E \in SUBSET Nat
  <2>1. DOMAIN E = D
    BY <1>4
  <2>. QED
    BY <1>4, <2>1
<1>. QED
  BY <1>7, <1>8 DEF InOrder

(* A set of naturals that is not empty has a least element, and Min is it.  *)
LEMMA LeastPosition ==
  ASSUME NEW T \in SUBSET Nat, T # {}
  PROVE  Min(T) \in T /\ \A y \in T : Min(T) =< y
<1>. DEFINE R == {ss \in Nat \X Nat : ss[1] < ss[2]}
<1>1. IsWellFoundedOn(R, Nat)
  BY NatLessThanWellFounded DEF OpToRel
<1>2. PICK x \in T : \A y \in T : ~ (<<y, x>> \in R)
  <2>. HIDE DEF R
  <2>. QED
    BY <1>1, WFMin
<1>3. \A y \in T : x =< y
  <2>. SUFFICES ASSUME NEW y \in T, y < x PROVE FALSE
    OBVIOUS
  <2>1. <<y, x>> \in R
    OBVIOUS
  <2>. QED
    BY <1>2, <2>1
<1>. QED
  BY <1>3 DEF Min

(* The rule that comes before all others that match is the one that         *)
(* decides.                                                                 *)
LEMMA FirstDecides ==
  ASSUME NEW S, OneOfEach(S), IsFiniteSet(S),
         NEW E \in SetToSeqs(S), InOrder(E),
         NEW ctx, NEW r \in S, Matches(r, ctx),
         \A s \in S \ {r} : Matches(s, ctx) => Before(r, s)
  PROVE  CheckRules(E, ctx) = <<ConvertResult(r.action)>>
<1>. DEFINE hits == {i \in DOMAIN E : Matches(E[i], ctx)}
            m == Min(hits)
<1>1. /\ DOMAIN E \in SUBSET Nat /\ S = {E[i] : i \in DOMAIN E}
      /\ \A i, j \in DOMAIN E : i < j => Before(E[i], E[j])
  BY EngineSorted
<1>2. PICK k \in hits : E[k] = r
  BY <1>1
<1>3. m \in hits /\ m =< k
  <2>1. hits \in SUBSET Nat
    BY <1>1
  <2>. HIDE DEF hits
  <2>. QED
    BY <1>2, <2>1, LeastPosition
<1>4. E[m] = r
  <2>1. SUFFICES ASSUME E[m] # r PROVE FALSE
    OBVIOUS
  <2>2. m < k
    <3>1. m \in DOMAIN E /\ k \in DOMAIN E /\ m # k
      BY <1>2, <1>3, <2>1
    <3>2. m \in Nat /\ k \in Nat
      BY <1>1, <3>1
    <3>. HIDE DEF m, hits
    <3>. QED
      BY <1>3, <3>1, <3>2
  <2>3. Before(E[m], r)
    BY <1>1, <1>2, <1>3, <2>2
  <2>4. Before(r, E[m])
    BY <1>1, <1>3, <2>1
  <2>5. E[m] \in S
    BY <1>1, <1>3
  <2>. QED
    BY <2>3, <2>4, <2>5, BeforeIsOrder
<1>5. CheckRules(E, ctx) = <<ConvertResult(E[m].action)>>
  BY <1>2 DEF CheckRules
<1>. QED
  BY <1>4, <1>5

-----------------------------------------------------------------------------
\* Rules: merging

LEMMA ExtractSame == ASSUME NEW rules, Plain(rules) PROVE ExtractRules(rules) = rules
<1>1. ASSUME NEW i \in DOMAIN rules
      PROVE  rules[i] = IF rules[i].match = Missing THEN rules[i]
                        ELSE [rules[i] EXCEPT !.match = Simple(@)]
  <2>1. rules[i] \in Rule
    <3>1. rules \in Seq(Rule)
      BY DEF Plain
    <3>. QED
      BY <3>1
  <2>2. rules[i].match # Missing => Simple(rules[i].match) = rules[i].match
    BY DEF Plain
  <2>3. [rules[i] EXCEPT !.match = rules[i].match] = rules[i]
    BY <2>1 DEF Rule
  <2>. QED
    BY <2>2, <2>3
<1>2. rules = [i \in DOMAIN rules |-> rules[i]]
  <2>1. rules \in Seq(Rule)
    BY DEF Plain
  <2>. QED
    BY <2>1
<1>. QED
  BY <1>1, <1>2 DEF ExtractRules

(* The rules the engine is given are those of the two files, merged.        *)
LEMMA LoadedRules ==
  ASSUME NEW src, Plain(RulesOf(src.global)), Plain(RulesOf(src.project))
  PROVE  LET G == RulesOf(src.global)
             P == RulesOf(src.project)
             M == MergedRules(Said(src.global, <<>>), src.project)
         IN  M = MergeRules(G, P) \/ (P = <<>> /\ M = MergeRules(G, G))
<1>. DEFINE G == RulesOf(src.global)
            P == RulesOf(src.project)
<1>1. Said(src.global, <<>>) = G
  BY ExtractSame DEF Said, RulesOf
<1>2. CASE src.project.mode = "absent"
  BY <1>1, <1>2 DEF MergedRules, RulesOf
<1>3. CASE src.project.mode # "absent" /\ src.project.rules = Unset
  BY <1>1, <1>3 DEF MergedRules, RulesOf, Said
<1>4. CASE src.project.mode # "absent" /\ src.project.rules # Unset
  <2>1. P = src.project.rules[1]
    BY <1>4 DEF RulesOf
  <2>2. Said(src.project, G) = P
    BY <1>4, <2>1, ExtractSame DEF Said
  <2>. QED
    BY <1>1, <1>4, <2>2 DEF MergedRules
<1>. QED
  BY <1>2, <1>3, <1>4

\* The rules of two files: those of the project, and the global ones it has no rule
\* of that name for.
Both(G, P) == ToSet(P) \cup {r \in ToSet(G) : \A p \in ToSet(P) : p.name # r.name}

\* What M has at a place is a rule of the two files, but perhaps for rules without a
\* name, and each of their rules has a place.
Combined(M, G, P) ==
  /\ \E n \in Nat : DOMAIN M \subseteq 0..n
  /\ \A i \in DOMAIN M : M[i].name # "" => M[i] \in Both(G, P)
  /\ \A r \in Both(G, P) : \E i \in DOMAIN M : M[i] = r

LEMMA MergedAreBoth ==
  ASSUME NEW G, NEW P, Plain(G), Plain(P) PROVE Combined(MergeRules(G, P), G, P)
<1>. DEFINE named(r) == {k \in DOMAIN P : r.name # "" /\ P[k].name = r.name}
            added == {k \in DOMAIN P : \A i \in DOMAIN G : k \notin named(G[i])}
            M == MergeRules(G, P)
            a == Len(G)
            b == Len(P)
            D == 1..a \cup {a + k : k \in added}
<1>1. G \in Seq(Rule) /\ P \in Seq(Rule)
  BY DEF Plain
<1>2. a \in Nat /\ b \in Nat /\ DOMAIN G = 1..a /\ DOMAIN P = 1..b
  BY <1>1
<1>3. ASSUME NEW r, NEW k \in named(r) PROVE Max(named(r)) = k
  <2>1. named(r) = {k}
    BY DEF Plain
  <2>2. k \in Nat
    <3>1. k \in DOMAIN P
      OBVIOUS
    <3>. HIDE DEF named, b
    <3>. QED
      BY <1>2, <3>1
  <2>3. \A x \in {k} : x = k
    OBVIOUS
  <2>. HIDE DEF named
  <2>4. Max({k}) = k
    BY <2>2 DEF Max
  <2>. QED
    BY <2>1, <2>4
<1>4. M = [i \in DOMAIN G \cup {a + k : k \in added} |->
             IF i \notin DOMAIN G THEN P[i - a]
             ELSE IF named(G[i]) = {} THEN G[i] ELSE P[Max(named(G[i]))]]
  BY DEF MergeRules
<1>. HIDE DEF named, M
<1>5. DOMAIN M = D /\ added \in SUBSET (1..b)
  BY <1>2, <1>4
<1>6. ASSUME NEW k \in added PROVE a + k \in D /\ M[a + k] = P[k]
  <2>1. k \in 1..b /\ a + k \notin 1..a /\ (a + k) - a = k
    BY <1>2, <1>5
  <2>. HIDE DEF added, a
  <2>2. a + k \in D
    OBVIOUS
  <2>. QED
    BY <1>2, <1>4, <1>5, <2>1, <2>2
<1>7. ASSUME NEW i \in 1..a
      PROVE  i \in D /\ M[i] = IF named(G[i]) = {} THEN G[i] ELSE P[Max(named(G[i]))]
  BY <1>2, <1>4, <1>5
<1>8. \E n \in Nat : DOMAIN M \subseteq 0..n
  <2>1. a + b \in Nat /\ DOMAIN M \subseteq 0..(a + b)
    BY <1>2, <1>5
  <2>. QED
    BY <2>1
<1>. HIDE DEF added, a, b
<1>9. \A i \in D : i \in 1..a \/ \E k \in added : i = a + k
  OBVIOUS
<1>. HIDE DEF D
<1>10. ASSUME NEW i \in DOMAIN M, M[i].name # "" PROVE M[i] \in Both(G, P)
  <2>1. CASE i \in 1..a /\ named(G[i]) = {}
    <3>1. M[i] = G[i]
      BY <1>7, <2>1
    <3>2. \A k \in DOMAIN P : P[k].name # G[i].name
      BY <1>10, <2>1, <3>1 DEF named
    <3>. QED
      BY <1>2, <2>1, <3>1, <3>2 DEF Both, ToSet
  <2>2. CASE i \in 1..a /\ named(G[i]) # {}
    <3>1. PICK k \in named(G[i]) : TRUE
      BY <2>2
    <3>2. M[i] = P[k] /\ k \in DOMAIN P
      BY <1>3, <1>7, <2>2, <3>1 DEF named
    <3>. QED
      BY <3>2 DEF Both, ToSet
  <2>3. CASE i \notin 1..a
    <3>1. PICK k \in added : i = a + k
      BY <1>5, <1>9, <2>3
    <3>2. M[i] = P[k] /\ k \in DOMAIN P
      BY <1>2, <1>5, <1>6, <3>1
    <3>. QED
      BY <3>2 DEF Both, ToSet
  <2>. QED
    BY <2>1, <2>2, <2>3
<1>11. ASSUME NEW r \in Both(G, P) PROVE \E i \in DOMAIN M : M[i] = r
  <2>1. CASE r \in ToSet(P)
    <3>1. PICK k \in DOMAIN P : P[k] = r
      BY <2>1 DEF ToSet
    <3>2. CASE k \in added
      BY <1>5, <1>6, <3>1, <3>2
    <3>3. CASE k \notin added
      <4>1. PICK i \in 1..a : k \in named(G[i])
        BY <1>2, <3>3 DEF added
      <4>2. M[i] = P[k] /\ i \in DOMAIN M
        BY <1>3, <1>5, <1>7, <4>1
      <4>. QED
        BY <3>1, <4>2
    <3>. QED
      BY <3>2, <3>3
  <2>2. CASE r \in ToSet(G) /\ \A p \in ToSet(P) : p.name # r.name
    <3>1. PICK i \in 1..a : G[i] = r
      BY <1>2, <2>2 DEF ToSet
    <3>2. named(G[i]) = {}
      BY <2>2, <3>1 DEF named, ToSet
    <3>. QED
      BY <1>5, <1>7, <3>1, <3>2
  <2>. QED
    BY <2>1, <2>2 DEF Both
<1>. QED
  BY <1>8, <1>10, <1>11 DEF Combined, M

(* A set of naturals with a bound has a greatest element.                   *)
LEMMA GreatestPosition ==
  ASSUME NEW n \in Nat, NEW T \in SUBSET (0..n), T # {}
  PROVE  \E x \in T : \A y \in T : y <= x
<1>. DEFINE D == {n - y : y \in T}
<1>1. D \in SUBSET Nat /\ D # {}
  <2>1. \A y \in T : n - y \in Nat
    OBVIOUS
  <2>. QED
    BY <2>1
<1>2. PICK d \in D : \A e \in D : d =< e
  <2>. HIDE DEF D
  <2>. QED
    BY <1>1, LeastPosition
<1>3. PICK x \in T : d = n - x
  OBVIOUS
<1>4. ASSUME NEW y \in T PROVE y <= x
  <2>1. n - y \in D
    OBVIOUS
  <2>2. n - x =< n - y
    BY <1>2, <1>3, <2>1
  <2>. QED
    BY <2>2
<1>. QED
  BY <1>3, <1>4

(* The rules of a list are finitely many.                                   *)
LEMMA FinitelyManyRules ==
  ASSUME NEW rules \in Seq(Rule) PROVE IsFiniteSet(ToSet(rules))
<1>. DEFINE D == DOMAIN rules
<1>1. Len(rules) \in Nat /\ D = 1..Len(rules)
  OBVIOUS
<1>2. IsFiniteSet(D)
  BY <1>1, FS_Interval
<1>3. rules \in [D -> ToSet(rules)]
  BY DEF ToSet
<1>4. \A t \in ToSet(rules) : \E i \in D : rules[i] = t
  BY DEF ToSet
<1>5. rules \in Surjection(D, ToSet(rules))
  BY <1>3, <1>4 DEF Surjection
<1>. HIDE DEF D
<1>. QED
  BY <1>2, <1>5, FS_Surjection

LEMMA ListOfRules ==
  ASSUME NEW rules \in Seq(Rule)
  PROVE  Len(rules) \in Nat /\ \A i \in DOMAIN rules : rules[i] \in Rule
OBVIOUS

\* The enabled rules have a name.
Usable(rules) == \A i \in DOMAIN rules : rules[i].enabled => rules[i].name # ""

EnabledOf(rules) == {r \in rules : r.enabled}
Kept(rules)      == {rules[i] : i \in Latest(rules)}

(* The engine is made of the enabled rules of both files, one of each name. *)
LEMMA EngineRules ==
  ASSUME NEW G, NEW P, Plain(G), Plain(P), Ranked(ToSet(G) \cup ToSet(P)),
         NEW M, Combined(M, G, P), Usable(M),
         NEW S, S = EnabledOf(Both(G, P))
  PROVE  OneOfEach(S) /\ IsFiniteSet(S) /\ S = Kept(Enabled(M))
<1>. DEFINE R == Enabled(M)
            D == {i \in DOMAIN M : M[i].enabled}
<1>1. G \in Seq(Rule) /\ P \in Seq(Rule)
  BY DEF Plain
<1>2. /\ \E n \in Nat : DOMAIN M \subseteq 0..n
      /\ \A i \in DOMAIN M : M[i].name # "" => M[i] \in Both(G, P)
      /\ \A r \in Both(G, P) : \E i \in DOMAIN M : M[i] = r
  BY DEF Combined
<1>. S = {r \in Both(G, P) : r.enabled}
  BY DEF EnabledOf
<1>3. DOMAIN R = D /\ \A i \in D : R[i] = M[i]
  BY DEF Enabled, Restrict
<1>4. \A i \in D : R[i] \in S
  BY <1>2, <1>3 DEF Usable
<1>5. ASSUME NEW r \in S PROVE \E i \in D : R[i] = r
  <2>1. r \in Both(G, P) /\ r.enabled
    OBVIOUS
  <2>2. PICK i \in DOMAIN M : M[i] = r
    BY <1>2, <2>1
  <2>. QED
    BY <1>3, <2>1, <2>2
<1>6. PICK n \in Nat : D \in SUBSET (0..n)
  BY <1>2
<1>. HIDE DEF R, D
<1>7. ToSet(G) \in SUBSET Rule /\ ToSet(P) \in SUBSET Rule
  <2>1. (\A i \in DOMAIN G : G[i] \in Rule) /\ (\A i \in DOMAIN P : P[i] \in Rule)
    BY <1>1, ListOfRules
  <2>. QED
    BY <2>1 DEF ToSet
<1>8. S \in SUBSET Rule
  BY <1>7 DEF Both
<1>9. ASSUME NEW r \in S PROVE r.name # ""
  <2>1. PICK i \in D : R[i] = r
    BY <1>5
  <2>. QED
    BY <1>3, <2>1 DEF D, Usable
<1>10. ASSUME NEW r \in S, NEW t \in S, r.name = t.name PROVE r = t
  <2>1. CASE r \in ToSet(P) /\ t \in ToSet(P)
    <3>1. PICK i \in DOMAIN P, j \in DOMAIN P : P[i] = r /\ P[j] = t
      BY <2>1 DEF ToSet
    <3>2. i = j
      BY <1>9, <1>10, <3>1 DEF Plain
    <3>. QED
      BY <3>1, <3>2
  <2>2. CASE r \notin ToSet(P) /\ t \notin ToSet(P)
    <3>1. r \in ToSet(G) /\ t \in ToSet(G)
      BY <2>2 DEF Both
    <3>2. PICK i \in DOMAIN G, j \in DOMAIN G : G[i] = r /\ G[j] = t
      BY <3>1 DEF ToSet
    <3>3. i = j
      BY <1>9, <1>10, <3>2 DEF Plain
    <3>. QED
      BY <3>2, <3>3
  <2>3. CASE ~(r \in ToSet(P) <=> t \in ToSet(P))
    BY <1>10, <2>3 DEF Both
  <2>. QED
    BY <2>1, <2>2, <2>3
<1>11. OneOfEach(S)
  <2>1. Ranked(S)
    BY DEF Both, Ranked
  <2>. QED
    BY <1>8, <1>10, <2>1 DEF OneOfEach
<1>12. IsFiniteSet(S)
  <2>1. IsFiniteSet(ToSet(G) \cup ToSet(P))
    BY <1>1, FinitelyManyRules, FS_Union
  <2>2. S \in SUBSET (ToSet(G) \cup ToSet(P))
    BY DEF Both
  <2>. QED
    BY <2>1, <2>2, FS_Subset
<1>13. ASSUME NEW r \in S PROVE \E i \in Latest(R) : R[i] = r
  <2>. DEFINE T == {j \in D : R[j].name = r.name}
  <2>1. PICK i \in D : R[i] = r
    BY <1>5
  <2>2. T \in SUBSET (0..n) /\ T # {}
    BY <1>6, <2>1
  <2>3. PICK x \in T : \A y \in T : y <= x
    <3>. HIDE DEF T
    <3>. QED
      BY <2>2, GreatestPosition
  <2>4. R[x] = r
    BY <1>4, <1>10
  <2>5. x \in Latest(R)
    BY <1>3, <2>3 DEF Latest
  <2>. QED
    BY <2>4, <2>5
<1>14. \A i \in Latest(R) : R[i] \in S
  BY <1>3, <1>4 DEF Latest
<1>15. S = {R[i] : i \in Latest(R)}
  BY <1>13, <1>14
<1>. QED
  BY <1>11, <1>12, <1>15 DEF R, Kept

(* What is loaded without an error are the merged rules.                    *)
LEMMA LoadKeepsRules ==
  ASSUME NEW src, Load(src).ok
  PROVE  Load(src).rules =
           [enabled |-> src.rulesEnabled,
            rules |-> MergedRules(Said(src.global, <<>>), src.project)]
<1>1. ~Failed.ok
  BY DEF Failed
<1>. QED
  BY <1>1 DEF Load, ValidateConfig

\* A rule the user wrote decides a call before a validator.
Decides(src, v, call, r) ==
  /\ r \in Written(src) /\ r.enabled /\ Matches(r, RuleContext(v, call))
  /\ \A s \in Written(src) \ {r} :
        s.enabled /\ Matches(s, RuleContext(v, call)) => Before(r, s)

(* The engine holds the enabled rules the user wrote, the one that decides  *)
(* first, each with an action.                                              *)
LEMMA EngineMade ==
  ASSUME NEW src, Understood(src), src.rulesEnabled,
         Load(src).ok, ~EngineFails(Load(src).rules),
         NEW S, S = {s \in Written(src) : s.enabled},
         NEW E, E = CreateRuleEngine(Load(src).rules)
  PROVE  /\ OneOfEach(S) /\ IsFiniteSet(S) /\ E \in SetToSeqs(S) /\ InOrder(E)
         /\ \A s \in S : s.action # Missing
<1>. DEFINE G == RulesOf(src.global)
            P == RulesOf(src.project)
            M == MergedRules(Said(src.global, <<>>), src.project)
<1>1. Plain(G) /\ Plain(P) /\ Ranked(ToSet(G) \cup ToSet(P))
  BY DEF Understood
<1>2. Load(src).rules = [enabled |-> src.rulesEnabled, rules |-> M]
  BY LoadKeepsRules
<1>3. Written(src) = Both(G, P)
  <2>1. ToSet(<<>>) = {}
    BY DEF ToSet
  <2>2. \A file : ToSet(RulesOf(file)) =
          IF file.mode = "absent" \/ file.rules = Unset THEN {} ELSE ToSet(file.rules[1])
    BY <2>1 DEF RulesOf
  <2>. QED
    BY <2>2 DEF Written, Both
<1>. HIDE DEF M
<1>4. Usable(M) /\ \A i \in DOMAIN M : M[i].enabled => M[i].action # Missing
  <2>1. ASSUME NEW i \in DOMAIN M, M[i].enabled PROVE Compilable(M[i])
    BY <1>2, <2>1 DEF EngineFails
  <2>. QED
    BY <2>1 DEF Compilable, Usable
<1>5. PICK Q : /\ Plain(Q) /\ Combined(M, G, Q) /\ Both(G, Q) = Both(G, P)
                /\ Ranked(ToSet(G) \cup ToSet(Q))
  <2>1. CASE M = MergeRules(G, P)
    BY <1>1, <2>1, MergedAreBoth
  <2>2. CASE P = <<>> /\ M = MergeRules(G, G)
    <3>1. ToSet(P) = {}
      BY <2>2 DEF ToSet
    <3>2. Both(G, G) = Both(G, P)
      BY <3>1 DEF Both
    <3>3. Combined(M, G, G)
      BY <1>1, <2>2, MergedAreBoth
    <3>. QED
      BY <1>1, <3>2, <3>3 DEF Ranked
  <2>3. M = MergeRules(G, P) \/ (P = <<>> /\ M = MergeRules(G, G))
    BY <1>1, LoadedRules DEF M
  <2>. QED
    BY <2>1, <2>2, <2>3
<1>. HIDE DEF G, P
<1>6. OneOfEach(S) /\ IsFiniteSet(S) /\ S = Kept(Enabled(M))
  <2>1. S = EnabledOf(Both(G, Q))
    BY <1>3, <1>5 DEF EnabledOf
  <2>2. /\ Plain(G) /\ Plain(Q) /\ Combined(M, G, Q)
        /\ Ranked(ToSet(G) \cup ToSet(Q))
    BY <1>1, <1>5
  <2>. QED
    BY ONLY <1>4, <2>1, <2>2, EngineRules
<1>7. E \in SetToSeqs(S) /\ InOrder(E)
  <2>1. E = CHOOSE s \in SetToSeqs(Kept(Enabled(M))) : InOrder(s)
    <3>1. Load(src).rules.enabled /\ Load(src).rules.rules = M
      BY <1>2
    <3>2. E = AddAll(Enabled(M))
      BY <3>1 DEF CreateRuleEngine
    <3>. QED
      BY <3>2 DEF AddAll, Kept
  <2>2. E = CHOOSE s \in SetToSeqs(S) : InOrder(s)
    BY <1>6, <2>1
  <2>. QED
    BY ONLY <1>6, <2>2, SortedExists
<1>8. \A s \in S : s.action # Missing
  <2>1. ASSUME NEW s \in S PROVE \E i \in DOMAIN M : M[i].enabled /\ M[i] = s
    <3>1. PICK i \in Latest(Enabled(M)) : Enabled(M)[i] = s
      BY <1>6 DEF Kept
    <3>2. i \in DOMAIN M /\ M[i].enabled /\ Enabled(M)[i] = M[i]
      BY DEF Latest, Enabled, Restrict
    <3>. QED
      BY <3>1, <3>2
  <2>. QED
    BY <1>4, <2>1
<1>. QED
  BY <1>6, <1>7, <1>8

(* The rule that decides among those the user wrote is the one the engine   *)
(* answers with.                                                            *)
LEMMA EngineDecides ==
  ASSUME wired, NEW src, Understood(src),
         Load(src).ok, ~EngineFails(Load(src).rules),
         NEW v, NEW call, NEW r, Decides(src, v, call, r)
  PROVE  RuleAnswer(Load(src), v, call) = <<ConvertResult(r.action)>>
<1>. DEFINE ctx == RuleContext(v, call)
            S == {s \in Written(src) : s.enabled}
            E == CreateRuleEngine(Load(src).rules)
<1>1. src.rulesEnabled
  BY DEF Decides, Written
<1>2. OneOfEach(S) /\ IsFiniteSet(S) /\ E \in SetToSeqs(S) /\ InOrder(E)
  BY <1>1, EngineMade
<1>3. r \in S /\ Matches(r, ctx) /\ \A s \in S \ {r} : Matches(s, ctx) => Before(r, s)
  BY DEF Decides
<1>4. RuleAnswer(Load(src), v, call) = CheckRules(E, ctx)
  BY DEF RuleAnswer
<1>. HIDE DEF S, E, ctx
<1>. QED
  BY <1>2, <1>3, <1>4, FirstDecides
-----------------------------------------------------------------------------
\* Rules: judging

LEMMA OrderIsDistinct ==
  ASSUME NEW i \in DOMAIN Order, NEW j \in DOMAIN Order, Order[i] = Order[j] PROVE i = j
<1>1. i \in 1..20 /\ j \in 1..20
  BY DEF Order
<1>. QED
  BY <1>1 DEF Order

(* What the validators are shown is the call or a file it writes.           *)
LEMMA SeenIsCallOrWrite ==
  ASSUME NEW call, NEW k \in DOMAIN SeenAs(call)
  PROVE  /\ k = 0 => SeenAs(call)[k] = call
         /\ k # 0 => call.tool = "Bash" /\ \E fw : SeenAs(call)[k] = WriteOf(fw)
<1>. DEFINE shell == call.event = "PreToolUse" /\ call.tool = "Bash" /\ call.line.parses
            writes == IF shell THEN call.line.writes ELSE <<>>
            n == Len(writes)
<1>1. SeenAs(call) = [i \in {0} \cup (1..n) |-> IF i = 0 THEN call ELSE WriteOf(writes[i])]
  BY DEF SeenAs
<1>2. ~shell => n = 0
  OBVIOUS
<1>. HIDE DEF writes, n
<1>3. k \in {0} \cup (1..n)
  BY <1>1
<1>4. SeenAs(call)[k] = IF k = 0 THEN call ELSE WriteOf(writes[k])
  BY <1>1, <1>3
<1>5. k # 0 => shell
  BY <1>2, <1>3
<1>. QED
  BY <1>4, <1>5

(* A validator that looks at a command does not look at a file the command  *)
(* writes.                                                                  *)
LEMMA CallOrWrite ==
  ASSUME NEW v, NEW call, call.tool = "Bash", Applies(v, call),
         NEW fw, Applies(v, WriteOf(fw))
  PROVE  FALSE
<1>. DEFINE w == WriteOf(fw)
<1>1. w.event = "PreToolUse" /\ w.tool = "Write"
  BY DEF WriteOf, Tool
<1>2. GitsOf(w) = {}
  BY <1>1 DEF GitsOf
<1>. HIDE DEF w
<1>3. v # "bell" /\ v \notin DOMAIN Subcommand /\ v # "branch" /\ v \notin DOMAIN Phrases
  BY <1>1, <1>2 DEF Applies, w
<1>. QED
  BY <1>3 DEF Applies

\* What the rules of the loaded configuration answer in place of a validator.
RuleFor(c, v) == CheckRules(CreateRuleEngine(c.settings.rules), RuleContext(v, c.call))

Silent(c, v) == \A o \in c.objections : o.validator # v

\* A validator the rules answer for objects as they say once it is through, and not
\* before.
Heeds(c, i) ==
  LET answer == RuleFor(c, Order[i])
  IN  Order[i] \in Registered(c.settings) /\ Applies(Order[i], c.call) /\ answer # <<>> =>
        IF <<0, i>> \in c.pending \/ ~answer[1].block THEN Silent(c, Order[i])
        ELSE [validator |-> Order[i], ref |-> answer[1].ref] \in c.objections

HeedsAll(c) ==
  /\ DOMAIN c = Fields
  /\ c.judged =>
       /\ c.under \in scene.sources /\ c.settings = Load(c.under)
       /\ c.settings.ok /\ ~EngineFails(c.settings.rules)
       /\ c.pending \subseteq Jobs(c.settings, c.call)
       /\ c.stage # "judging" => c.pending = {}
       /\ \A i \in DOMAIN Order : Heeds(c, i)

RuleInv ==
  /\ DOMAIN calls = Hook
  /\ scene \in Scene /\ sources \in scene.sources
  /\ wired =>
       \A h \in Hook :
          \/ calls[h].stage \in {"idle", "asked"}
          \/ calls[h].stage \in {"judging", "allowed", "refused"} /\ HeedsAll(calls[h])

LEMMA InitRules == Init => RuleInv
BY DEF Init, RuleInv, Idle

LEMMA StartedHeeds ==
  ASSUME wired, sources \in scene.sources, NEW call
  PROVE  LET c == Started(call, Load(sources))
         IN  c.stage \in {"judging", "allowed"} /\ HeedsAll(c)
<1>. DEFINE settings == Load(sources)
            fails == ~settings.ok \/ (wired /\ EngineFails(settings.rules))
            c == Started(call, settings)
<1>1. /\ DOMAIN c = Fields /\ c.stage = IF fails THEN "allowed" ELSE "judging"
      /\ c.objections = {} /\ c.under = sources /\ c.settings = settings /\ c.call = call
      /\ c.judged = ~fails /\ c.pending = IF fails THEN {} ELSE Jobs(settings, call)
  BY DEF Started, Fields
<1>. HIDE DEF c, settings
<1>2. ASSUME c.judged, NEW i \in DOMAIN Order PROVE Heeds(c, i)
  <2>1. SUFFICES ASSUME Order[i] \in Registered(c.settings), Applies(Order[i], c.call)
                 PROVE  <<0, i>> \in c.pending
    BY <1>1 DEF Heeds, Silent
  <2>2. 0 \in DOMAIN SeenAs(call) /\ SeenAs(call)[0] = call
    BY DEF SeenAs
  <2>3. <<0, i>> \in Jobs(settings, call)
    BY <1>1, <2>1, <2>2 DEF Jobs
  <2>. QED
    BY <1>1, <1>2, <2>3
<1>3. c.judged => c.settings.ok /\ ~EngineFails(c.settings.rules)
  BY <1>1
<1>. HIDE DEF fails
<1>. QED
  BY <1>1, <1>2, <1>3 DEF HeedsAll, c, settings

(* The next validator answers what the rules say, if they say anything.     *)
LEMMA HeardHeeds ==
  ASSUME wired, NEW c, HeedsAll(c), c.stage = "judging", c.judged, c.pending # {},
         NEW p, p = FirstOf(c.pending), NEW job, job = JobAt(c.call, p),
         NEW d, d = Heard(c, job, Verdict(c, job)), NEW i \in DOMAIN Order
  PROVE  p \in c.pending /\ Heeds(d, i)
<1>. DEFINE v == Order[i]
            answer == RuleFor(c, v)
            verdict == Verdict(c, job)
            o == [validator |-> job.validator, ref |-> verdict.ref]
<1>1. /\ DOMAIN c = Fields /\ c.settings = Load(c.under)
      /\ c.pending \subseteq Jobs(c.settings, c.call) /\ Heeds(c, i)
  BY DEF HeedsAll
<1>2. p \in c.pending
  <2>1. c.pending \in SUBSET (Nat \X Nat)
    BY <1>1, JobsStayOn
  <2>. QED
    BY <2>1, FirstIsOne
<1>3. p \in (DOMAIN SeenAs(c.call)) \X DOMAIN Order
      /\ Applies(Order[p[2]], SeenAs(c.call)[p[1]])
  BY <1>1, <1>2 DEF Jobs
<1>4. job.validator = Order[p[2]] /\ job.call = SeenAs(c.call)[p[1]]
  BY DEF JobAt
<1>5. /\ d.call = c.call /\ d.settings = c.settings /\ d.pending = c.pending \ {p}
      /\ d.objections = IF verdict.block THEN c.objections \cup {o} ELSE c.objections
  <2>. HIDE DEF verdict
  <2>1. d = Heard(c, job, verdict)
    BY DEF verdict
  <2>. QED
    BY <1>1, <2>1 DEF Heard, Fields
<1>6. RuleFor(d, v) = answer
  BY <1>5 DEF RuleFor
<1>. HIDE DEF verdict, o, answer
<1>7. CASE p[2] # i
  <2>1. job.validator # v
    BY <1>3, <1>4, <1>7, OrderIsDistinct
  <2>2. <<0, i>> \in d.pending <=> <<0, i>> \in c.pending
    BY <1>3, <1>5, <1>7
  <2>3. Silent(d, v) <=> Silent(c, v)
    BY <1>5, <2>1 DEF Silent, o
  <2>4. c.objections \subseteq d.objections
    BY <1>5
  <2>. QED
    BY <1>1, <1>2, <1>5, <1>6, <2>2, <2>3, <2>4 DEF Heeds, answer
<1>8. CASE p[2] = i /\ p[1] = 0
  <2>1. SUFFICES ASSUME v \in Registered(c.settings), Applies(v, c.call), answer # <<>>
                 PROVE  IF <<0, i>> \in d.pending \/ ~answer[1].block THEN Silent(d, v)
                        ELSE [validator |-> v, ref |-> answer[1].ref] \in d.objections
    BY <1>2, <1>5, <1>6 DEF Heeds
  <2>2. p = <<0, i>>
    BY <1>3, <1>8
  <2>3. Silent(c, v)
    BY <1>1, <1>2, <2>1, <2>2 DEF Heeds, answer
  <2>4. job.validator = v /\ job.call = c.call
    BY <1>3, <1>4, <2>2, SeenIsCallOrWrite
  <2>5. RuleAnswer(c.settings, job.validator, job.call) = answer
    BY <2>4 DEF RuleAnswer, answer, RuleFor
  <2>6. verdict = answer[1]
    <3>. HIDE DEF v
    <3>. QED
      BY <2>1, <2>5 DEF verdict, Verdict
  <2>. QED
    BY <1>5, <2>2, <2>3, <2>4, <2>6 DEF Silent, o
<1>9. CASE p[2] = i /\ p[1] # 0
  <2>1. PICK fw : c.call.tool = "Bash" /\ SeenAs(c.call)[p[1]] = WriteOf(fw)
    BY <1>3, <1>9, SeenIsCallOrWrite
  <2>2. ~Applies(v, c.call)
    <3>1. Applies(v, WriteOf(fw))
      BY <1>3, <1>9, <2>1
    <3>. HIDE DEF v
    <3>. QED
      BY <2>1, <3>1, CallOrWrite
  <2>. QED
    BY <1>2, <1>5, <2>2 DEF Heeds
<1>. QED
  BY <1>2, <1>7, <1>8, <1>9

LEMMA HeardHeedsAll ==
  ASSUME wired, NEW c, HeedsAll(c), c.stage = "judging", c.pending # {},
         NEW job, job = JobAt(c.call, FirstOf(c.pending)),
         NEW d, d = Heard(c, job, Verdict(c, job))
  PROVE  d.stage = "judging" /\ HeedsAll(d)
<1>. DEFINE verdict == Verdict(c, job)
<1>1. DOMAIN c = Fields
  BY DEF HeedsAll
<1>. HIDE DEF verdict
<1>2. d = Heard(c, job, verdict)
  BY DEF verdict
<1>3. /\ DOMAIN d = Fields /\ d.stage = c.stage /\ d.judged = c.judged /\ d.call = c.call
      /\ d.under = c.under /\ d.settings = c.settings /\ d.pending \subseteq c.pending
  BY <1>1, <1>2 DEF Heard, Fields
<1>4. c.judged => \A i \in DOMAIN Order : Heeds(d, i)
  BY HeardHeeds
<1>. QED
  BY <1>3, <1>4 DEF HeedsAll

LEMMA RulesKept == RuleInv /\ [Next]_vars => RuleInv'
<1>. SUFFICES ASSUME RuleInv, [Next]_vars PROVE RuleInv'
  OBVIOUS
<1>0. DOMAIN calls = Hook /\ scene \in Scene /\ sources \in scene.sources
  BY DEF RuleInv
<1>1. scene' = scene /\ wired' = wired /\ sources' \in scene.sources
  BY <1>0 DEF Next, vars, Ask, Start, Validate, Answer, Perform, Stop, Refuse, EditSettings
<1>2. CASE UNCHANGED calls
  BY <1>0, <1>1, <1>2 DEF RuleInv, HeedsAll
<1>3. ASSUME NEW h \in Hook, NEW c, calls' = [calls EXCEPT ![h] = c],
             \/ c.stage \in {"idle", "asked"}
             \/ /\ c.stage \in {"judging", "allowed", "refused"}
                /\ wired => HeedsAll(c)
      PROVE  RuleInv'
  <2>1. ASSUME NEW g \in Hook, wired
        PROVE  \/ calls'[g].stage \in {"idle", "asked"}
               \/ calls'[g].stage \in {"judging", "allowed", "refused"} /\ HeedsAll(calls'[g])
    BY <1>0, <1>3, <2>1 DEF RuleInv
  <2>2. ASSUME NEW e, HeedsAll(e) PROVE HeedsAll(e)'
    BY <1>1, <2>2 DEF HeedsAll
  <2>. QED
    BY <1>0, <1>1, <1>3, <2>1, <2>2 DEF RuleInv
<1>4. ASSUME NEW h \in Hook, NEW call, Ask(h, call) PROVE RuleInv'
  <2>. DEFINE c == [stage |-> "asked", call |-> Reading(call)]
  <2>1. calls' = [calls EXCEPT ![h] = c] /\ c.stage = "asked"
    BY <1>4 DEF Ask
  <2>. HIDE DEF c
  <2>. QED
    BY <1>3, <2>1
<1>5. ASSUME NEW h \in Hook, Start(h) PROVE RuleInv'
  <2>. DEFINE c == Started(calls[h].call, Load(sources))
  <2>1. calls' = [calls EXCEPT ![h] = c]
    BY <1>0, <1>5 DEF Start
  <2>2. wired => HeedsAll(c)
    BY <1>0, StartedHeeds
  <2>3. c.stage \in {"judging", "allowed"}
    BY DEF Started
  <2>. HIDE DEF c
  <2>. QED
    BY <1>3, <2>1, <2>2, <2>3
<1>6. ASSUME NEW h \in Hook, Validate(h) PROVE RuleInv'
  <2>. DEFINE c == calls[h]
              job == JobAt(c.call, FirstOf(c.pending))
              d == Heard(c, job, Verdict(c, job))
  <2>1. calls' = [calls EXCEPT ![h] = d] /\ c.stage = "judging" /\ c.pending # {}
    BY <1>0, <1>6 DEF Validate
  <2>2. CASE wired
    <3>1. HeedsAll(c)
      BY <2>1, <2>2 DEF RuleInv
    <3>2. d.stage = "judging" /\ HeedsAll(d)
      BY <2>1, <2>2, <3>1, HeardHeedsAll
    <3>. HIDE DEF c, d
    <3>. QED
      BY <1>3, <2>1, <3>2
  <2>3. CASE ~wired
    <3>. HIDE DEF c, d
    <3>. QED
      BY <1>0, <1>1, <2>1, <2>3 DEF RuleInv
  <2>. QED
    BY <2>2, <2>3
<1>7. ASSUME NEW h \in Hook, Answer(h) PROVE RuleInv'
  <2>. DEFINE s == IF calls[h].objections = {} THEN "allowed" ELSE "refused"
              c == [calls[h] EXCEPT !.stage = s]
  <2>1. /\ calls' = [calls EXCEPT ![h] = c]
        /\ calls[h].stage = "judging" /\ calls[h].pending = {}
    BY <1>7 DEF Answer
  <2>2. s \in {"allowed", "refused"}
    OBVIOUS
  <2>. HIDE DEF s
  <2>3. CASE wired
    <3>1. HeedsAll(calls[h])
      BY <2>1, <2>3 DEF RuleInv
    <3>2. /\ DOMAIN c = Fields /\ c.stage = s
          /\ \A f \in Fields \ {"stage"} : c[f] = calls[h][f]
      BY <3>1 DEF HeedsAll, Fields
    <3>3. /\ c.judged = calls[h].judged /\ c.under = calls[h].under /\ c.call = calls[h].call
          /\ c.settings = calls[h].settings /\ c.pending = {}
          /\ c.objections = calls[h].objections
      BY <2>1, <3>2 DEF Fields
    <3>. HIDE DEF c
    <3>4. \A i \in DOMAIN Order : Heeds(calls[h], i) => Heeds(c, i)
      BY <2>1, <3>3 DEF Heeds, Silent, RuleFor
    <3>5. HeedsAll(c)
      BY <3>1, <3>2, <3>3, <3>4 DEF HeedsAll
    <3>. QED
      BY <1>3, <2>1, <2>2, <3>2, <3>5
  <2>4. CASE ~wired
    BY <1>0, <1>1, <2>1, <2>4 DEF RuleInv
  <2>. QED
    BY <2>3, <2>4
<1>8. ASSUME NEW h \in Hook, Stop(h) \/ Refuse(h) PROVE RuleInv'
  <2>1. calls' = [calls EXCEPT ![h] = Idle] /\ Idle.stage = "idle"
    BY <1>8 DEF Stop, Refuse, Idle
  <2>. QED
    BY <1>3, <2>1
<1>10. ASSUME NEW h \in Hook, Perform(h) PROVE RuleInv'
  <2>. DEFINE d == [calls[h] EXCEPT !.done = @ + 1]
  <2>1. PICK c \in {Idle, d} : calls' = [calls EXCEPT ![h] = c]
    BY <1>0, <1>10, PerformCounts
  <2>2. calls[h].stage = "allowed" /\ (wired => HeedsAll(calls[h]))
    BY <1>0, <1>10, PerformCounts DEF RuleInv
  <2>3. ASSUME wired PROVE d.stage = "allowed" /\ HeedsAll(d)
    <3>1. DOMAIN d = Fields /\ \A f \in Fields \ {"done"} : d[f] = calls[h][f]
      BY <2>2, <2>3 DEF HeedsAll, Fields
    <3>2. /\ d.stage = calls[h].stage /\ d.judged = calls[h].judged
          /\ d.under = calls[h].under /\ d.call = calls[h].call
          /\ d.settings = calls[h].settings /\ d.pending = calls[h].pending
          /\ d.objections = calls[h].objections
      BY <3>1 DEF Fields
    <3>. HIDE DEF d
    <3>3. \A i \in DOMAIN Order : Heeds(calls[h], i) => Heeds(d, i)
      BY <3>2 DEF Heeds, Silent, RuleFor
    <3>. QED
      BY <2>2, <2>3, <3>1, <3>2, <3>3 DEF HeedsAll
  <2>4. Idle.stage = "idle"
    BY DEF Idle
  <2>5. \/ c.stage = "idle"
        \/ wired /\ c.stage = "allowed" /\ HeedsAll(c)
        \/ ~wired
    BY <2>1, <2>3, <2>4
  <2>6. CASE wired
    <3>. HIDE DEF d
    <3>. QED
      BY <1>3, <2>1, <2>5, <2>6
  <2>7. CASE ~wired
    BY <1>0, <1>1, <2>1, <2>7 DEF RuleInv
  <2>. QED
    BY <2>6, <2>7
<1>9. CASE EditSettings
  BY <1>2, <1>9 DEF EditSettings
<1>. QED
  BY <1>2, <1>4, <1>5, <1>6, <1>7, <1>8, <1>9, <1>10 DEF Next, vars

(* A call that is answered was decided as its rules say.                    *)
LEMMA RulesHeeded ==
  ASSUME \A s \in Scene : \A src \in s.sources : Understood(src), RuleInv
  PROVE  RulesObeyed
<1>. SUFFICES ASSUME wired, NEW h \in Hook, Answered(h), calls[h].judged,
                     NEW v \in Registered(calls[h].settings), Applies(v, calls[h].call),
                     NEW r \in Deciding(calls[h], v)
              PROVE  IF r.action.type \in {"allow", "warn"}
                     THEN \A o \in calls[h].objections : o.validator # v
                     ELSE [validator |-> v, ref |-> r.action.ref] \in calls[h].objections
  BY DEF RulesObeyed, RulesDecide
<1>. DEFINE c == calls[h]
<1>1. /\ c.stage \in {"allowed", "refused"} /\ HeedsAll(c)
      /\ c.under \in scene.sources /\ scene \in Scene
  BY DEF RuleInv, Answered, HeedsAll
<1>2. /\ c.settings = Load(c.under) /\ c.settings.ok /\ ~EngineFails(c.settings.rules)
      /\ c.pending = {} /\ \A i \in DOMAIN Order : Heeds(c, i)
  BY <1>1 DEF HeedsAll
<1>3. Decides(c.under, v, c.call, r)
  BY DEF Deciding, Decides, Before
<1>. HIDE DEF c
<1>4. RuleAnswer(Load(c.under), v, c.call) = <<ConvertResult(r.action)>>
  BY <1>1, <1>2, <1>3, EngineDecides
<1>5. RuleFor(c, v) = <<ConvertResult(r.action)>>
  BY <1>2, <1>4 DEF RuleAnswer, RuleFor
<1>6. PICK i \in DOMAIN Order : Order[i] = v
  <2>1. v \in ToSet(Order)
    BY DEF Registered
  <2>. HIDE DEF Order
  <2>. QED
    BY <2>1 DEF ToSet
<1>7. IF ~ConvertResult(r.action).block THEN Silent(c, v)
      ELSE [validator |-> v, ref |-> ConvertResult(r.action).ref] \in c.objections
  <2>1. Heeds(c, i) /\ <<0, i>> \notin c.pending
    BY <1>2
  <2>2. v \in Registered(c.settings) /\ Applies(v, c.call)
    BY DEF c
  <2>. DEFINE answer == RuleFor(c, v)
  <2>3. answer # <<>> /\ answer[1] = ConvertResult(r.action)
    BY <1>5
  <2>. HIDE DEF answer
  <2>4. IF ~answer[1].block THEN Silent(c, v)
        ELSE [validator |-> v, ref |-> answer[1].ref] \in c.objections
    BY <1>6, <2>1, <2>2, <2>3 DEF Heeds, answer
  <2>. QED
    BY <2>3, <2>4
<1>8. /\ r.action.type \in {"allow", "warn"} => ~ConvertResult(r.action).block
      /\ r.action.type \notin {"allow", "warn"} =>
           ConvertResult(r.action).block /\ ConvertResult(r.action).ref = r.action.ref
  BY DEF ConvertResult, WarnAs, FailAs, Pass
<1>. QED
  BY <1>7, <1>8 DEF Silent, c

(* Where the configuration lists its rules as the loader reads them, a name *)
(* for each in its file and one pattern to a condition, the rule of the     *)
(* highest priority among those that match a call decides for every         *)
(* validator that looks at it.                                              *)
THEOREM RulesAlwaysObeyed ==
  ASSUME \A s \in Scene : \A src \in s.sources : Understood(src)
  PROVE  Spec => []RulesObeyed
<1>1. Init => RuleInv
  BY InitRules
<1>2. RuleInv /\ [Next]_vars => RuleInv'
  BY RulesKept
<1>3. RuleInv => RulesObeyed
  BY RulesHeeded
<1>. QED
  BY <1>1, <1>2, <1>3, PTL DEF Spec
-----------------------------------------------------------------------------
\* What a scene keeps

\* A hook was started for a call of the scene.
Called(c) ==
  /\ \/ c.stage = "asked"
     \/ c.stage \in {"judging", "allowed", "refused"} /\ DOMAIN c = Fields /\ c.done \in Nat
  /\ \E call \in scene.calls : c.call = Reading(call)

\* The types, but for what a hook is told.
WorldInv ==
  /\ scene \in Scene /\ wired \in scene.wired /\ sources \in scene.sources
  /\ repos \in [DOMAIN scene.repos -> Repository]
  /\ \A p \in DOMAIN files : files[p] \in Seq(STRING)
  /\ DOMAIN calls = Hook
  /\ \A h \in Hook : calls[h] = Idle \/ Called(calls[h])

\* Every directory stays in its repository.
HousedInv ==
  \A d \in DOMAIN repos :
     repos[d].inRepo /\ repos[d].root /\ Tracks(repos[d].current, repos[d].tracking)

-----------------------------------------------------------------------------
\* What the git validators mind

PushPlace == 4

\* The directory of the hook, and its repository.
Here == ""
Home == repos[Here]

\* Where a push without arguments goes to, as far as the hook knows.
KnownDestination(c) == IF c.known["tracking"] = "" THEN "origin" ELSE c.known["tracking"]

\* An add is blocked for its paths.
AddForbids(cfg, line) ==
  IF ~line.parses THEN Warn
  ELSE IF \E i \in DOMAIN line.gits :
              /\ FirstWordIs(line.gits[i], "add")
              /\ \E path \in AddedPaths(Tail(line.gits[i].words)) :
                     Blocked(path, ListSetting(cfg, "blocked_patterns", {"tmp"}))
  THEN FailAs("GIT019") ELSE Pass

\* A push is to a blocked remote, by its name or, in the directory of the hook, by
\* the branch.
PushForbids(c, cfg, line) ==
  LET B == Setting(cfg, "blocked_remotes", {}) IN
  \E i \in Calling(line, "push") :
     LET g == line.gits[i] IN
     /\ g.dir \in DOMAIN scene.repos
     /\ \/ g.args # <<>> /\ g.args[1] \in B
        \/ g.args = <<>> /\ g.dir = Here /\ KnownDestination(c) \in B

\* A first commit lacks a flag, or its message breaks a rule.
CommitForbids(cfg, line) ==
  /\ line.parses /\ Calling(line, "commit") # {}
  /\ \/ MissingFlags(cfg, FirstCommit(line)) # {}
     \/ /\ Setting(cfg, "message_enabled", TRUE)
        /\ CheckCommitMessage(cfg, FirstCommit(line)).block

\* What a first squash merge of a request will commit breaks a rule.
MergeForbids(cfg, line) ==
  LET m == FirstMerge(line)  pr == PullRequest(m.number) IN
  /\ line.parses /\ Merges(line) # {} /\ m.number # 0
  /\ "auto" \notin m.on /\ IsSquashMerge(m) /\ pr # NoAnswer
  /\ Setting(cfg, "message_enabled", TRUE)
  /\ \/ MergeTitleRefused(cfg, RequestText(pr.title).title)
     \/ pr.body # Here /\ MergeBodyRefused(cfg, RequestText(pr.body))

\* What a validator blocks in whatever state it finds the repositories.
Forbids(c, v) ==
  LET line == c.call.line  cfg == Cfg(c, v) IN
  \/ v = "no_verify" /\ NoVerify(line).block
  \/ v = "add" /\ AddForbids(cfg, line).block
  \/ v = "branch" /\ Branch(cfg, line).block
  \/ v = "push" /\ PushForbids(c, cfg, line)
  \/ v = "commit" /\ CommitForbids(cfg, line)
  \/ v = "merge" /\ MergeForbids(cfg, line)
  \/ v = "pr" /\ RequestCreate(cfg, line).block

Minding == {"no_verify", "add", "branch", "push", "commit", "merge", "pr"}

Looks(c, i) ==
  Order[i] \in Registered(c.settings) /\ Applies(Order[i], c.call)

\* A validator no rule answers for objects to what it forbids, once it is through.
Minds(c, i) ==
  LET v == Order[i] IN
  /\ Looks(c, i) /\ <<0, i>> \notin c.pending
  /\ RuleAnswer(c.settings, v, c.call) = <<>> /\ Forbids(c, v)
  => ~Silent(c, v)

\* What a hook knows of its branch it learns at once, from its push validator.
Knows(c) ==
  LET branch == {"current", "tracking"} IN
  /\ \A f \in DOMAIN c.known \cap {"inRepo", "root"} : c.known[f]
  /\ <<0, PushPlace>> \in c.pending => DOMAIN c.known \cap branch = {}
  /\ Looks(c, PushPlace) /\ <<0, PushPlace>> \notin c.pending => branch \subseteq DOMAIN c.known
  /\ "tracking" \in DOMAIN c.known =>
       "current" \in DOMAIN c.known /\ Tracks(c.known["current"], c.known["tracking"])

MindsAll(c) ==
  /\ DOMAIN c = Fields
  /\ c.judged =>
       /\ c.pending \subseteq Jobs(c.settings, c.call)
       /\ c.stage # "judging" => c.pending = {}
       /\ c.stage = "allowed" => c.objections = {}
       /\ Knows(c)
       /\ \A i \in DOMAIN Order : Order[i] \in Minding => Minds(c, i)

MindInv ==
  \A h \in Hook :
     \/ calls[h] = Idle
     \/ calls[h].stage = "asked"
     \/ calls[h].stage \in {"judging", "allowed", "refused"} /\ MindsAll(calls[h])

(* What an edit leaves is a text.                                           *)
LEMMA ReplaceIsText ==
  ASSUME NEW text \in Seq(STRING), NEW old \in Seq(STRING), NEW new \in Seq(STRING)
  PROVE  Replace(text, old, new) \in Seq(STRING)
<1>1. CASE Occurrences(text, old) = {}
  BY <1>1 DEF Replace
<1>2. CASE Occurrences(text, old) # {}
  <2>. DEFINE at == Min(Occurrences(text, old))
              before == SubSeq(text, 1, at - 1)
              after == SubSeq(text, at + Len(old), Len(text))
  <2>1. at \in 1..Len(text) - Len(old) + 1
    <3>1. Occurrences(text, old) \in SUBSET (1..Len(text) - Len(old) + 1)
      BY DEF Occurrences
    <3>2. Occurrences(text, old) \in SUBSET Nat
      BY <3>1
    <3>. QED
      BY <1>2, <3>1, <3>2, LeastPosition
  <2>2. Len(text) \in Nat /\ Len(old) \in Nat
    OBVIOUS
  <2>. HIDE DEF at
  <2>3. before \in Seq(STRING)
    BY <2>1, <2>2, SubSeqProperties
  <2>4. after \in Seq(STRING)
    BY <2>1, <2>2, SubSeqProperties
  <2>5. Replace(text, old, new) = before \o new \o after
    BY <1>2 DEF Replace, at
  <2>. HIDE DEF before, after
  <2>. QED
    BY <2>3, <2>4, <2>5, ConcatProperties
<1>. QED
  BY <1>1, <1>2

(* A hook reads of a call nothing else than is in it, and the line.         *)
LEMMA ReadingKeeps ==
  ASSUME NEW s \in Scene, NEW call \in s.calls
  PROVE  LET c == Reading(call) IN
         /\ c.line = Parse(call.script) /\ c.does = call.does
         /\ c.event = call.event /\ c.tool = call.tool /\ c.path = call.path
         /\ c.content = call.content /\ c.old = call.old /\ c.new = call.new
         /\ c.says = call.says /\ Effects(c) = Effects(call)
<1>1. DOMAIN call = {"event", "tool", "command", "says", "script", "line", "path", "content",
                     "old", "new", "does"}
  BY SceneAssumption DEF Tool
<1>. DEFINE c == Reading(call)
<1>2. \A f \in DOMAIN call \ {"line"} : c[f] = call[f]
  BY <1>1 DEF Reading
<1>3. c.line = Parse(call.script)
  BY <1>1 DEF Reading
<1>4. /\ c.event = call.event /\ c.tool = call.tool /\ c.path = call.path /\ c.does = call.does
      /\ c.content = call.content /\ c.old = call.old /\ c.new = call.new
      /\ c.says = call.says
  BY <1>1, <1>2
<1>. HIDE DEF c
<1>5. Effects(c) = Effects(call)
  BY <1>4 DEF Effects
<1>. QED
  BY <1>3, <1>4, <1>5 DEF c

(* The commands of a call are a list.                                       *)
LEMMA EffectsAreList ==
  ASSUME NEW s \in Scene, NEW call \in s.calls
  PROVE  Len(Effects(call)) \in Nat /\ DOMAIN Effects(call) = 1..Len(Effects(call))
<1>1. IsList(call.does)
  BY SceneAssumption
<1>2. CASE call.does # <<>>
  <2>1. Effects(call) = call.does
    BY <1>2 DEF Effects
  <2>. QED
    BY <1>1, <2>1 DEF IsList
<1>3. CASE call.does = <<>> /\ call.tool \in {"Write", "Edit"}
  <2>1. PICK e : Effects(call) = <<e>>
    BY <1>3 DEF Effects
  <2>. QED
    BY <2>1
<1>4. CASE call.does = <<>> /\ call.tool \notin {"Write", "Edit"}
  BY <1>4 DEF Effects
<1>. QED
  BY <1>2, <1>3, <1>4

(* The command of a hook that goes on is one of its call's.                 *)
LEMMA CommandOfCall ==
  ASSUME NEW c, c.done \in Nat, GoesOn(c),
         NEW s \in Scene, NEW call \in s.calls, c.call = Reading(call)
  PROVE  /\ TypedCommand(Command(c))
         /\ \E i \in DOMAIN Effects(call) : Command(c) = Effects(call)[i]
<1>1. Effects(c.call) = Effects(call)
  BY ReadingKeeps
<1>2. Len(Effects(call)) \in Nat /\ DOMAIN Effects(call) = 1..Len(Effects(call))
  BY EffectsAreList
<1>3. c.done + 1 \in 1..Len(Effects(call))
  BY <1>1, <1>2 DEF GoesOn
<1>4. Command(c) = Effects(call)[c.done + 1]
  BY <1>1 DEF Command
<1>. QED
  BY <1>2, <1>3, <1>4, SceneAssumption

LEMMA ChangedRepository ==
  ASSUME NEW D, repos \in [D -> Repository], NEW dir, NEW r,
         dir \in D => r \in Repository
  PROVE  [repos EXCEPT ![dir] = r] \in [D -> Repository]
OBVIOUS

(* A command leaves the repositories those of the scene, and the files      *)
(* texts.                                                                   *)
LEMMA CommandIsTyped ==
  ASSUME NEW e, TypedCommand(e), NEW D, repos \in [D -> Repository],
         \A p \in DOMAIN files : files[p] \in Seq(STRING)
  PROVE  /\ ReposAfter(e) \in [D -> Repository]
         /\ \A p \in DOMAIN FilesAfter(e) : FilesAfter(e)[p] \in Seq(STRING)
<1>1. CASE e.do = "commit"
  <2>. DEFINE r == [repos[e.dir] EXCEPT !.staged = "none"]
  <2>1. ReposAfter(e) = [repos EXCEPT ![e.dir] = r] /\ FilesAfter(e) = files
    BY <1>1 DEF ReposAfter, FilesAfter
  <2>2. e.dir \in D => r \in Repository
    BY DEF Repository
  <2>. HIDE DEF r
  <2>. QED
    BY <2>1, <2>2, ChangedRepository
<1>2. CASE e.do = "stage"
  <2>. DEFINE r == [repos[e.dir] EXCEPT !.staged = "some"]
  <2>1. ReposAfter(e) = [repos EXCEPT ![e.dir] = r] /\ FilesAfter(e) = files
    BY <1>2 DEF ReposAfter, FilesAfter
  <2>2. e.dir \in D => r \in Repository
    BY DEF Repository
  <2>. HIDE DEF r
  <2>. QED
    BY <2>1, <2>2, ChangedRepository
<1>3. CASE e.do = "remote"
  <2>. DEFINE r == [repos[e.dir] EXCEPT !.remotes = @ \cup {e.name}]
  <2>1. /\ ReposAfter(e) = [repos EXCEPT ![e.dir] = r] /\ FilesAfter(e) = files
        /\ e.name \in STRING
    BY <1>3 DEF ReposAfter, FilesAfter, TypedCommand
  <2>2. e.dir \in D => r \in Repository
    BY <2>1 DEF Repository
  <2>. HIDE DEF r
  <2>. QED
    BY <2>1, <2>2, ChangedRepository
<1>4. CASE e.do = "branch"
  <2>. DEFINE r == [repos[e.dir] EXCEPT !.current = e.name, !.tracking = e.tracking]
  <2>1. /\ ReposAfter(e) = [repos EXCEPT ![e.dir] = r] /\ FilesAfter(e) = files
        /\ e.name \in STRING /\ e.tracking \in STRING
    BY <1>4 DEF ReposAfter, FilesAfter, TypedCommand
  <2>2. e.dir \in D => r \in Repository
    <3>. DEFINE q == [repos[e.dir] EXCEPT !.current = e.name]
    <3>1. e.dir \in D => q \in Repository
      BY <2>1 DEF Repository
    <3>2. r = [q EXCEPT !.tracking = e.tracking]
      OBVIOUS
    <3>. HIDE DEF q
    <3>. QED
      BY <2>1, <3>1, <3>2 DEF Repository
  <2>. HIDE DEF r
  <2>. QED
    BY <2>1, <2>2, ChangedRepository
<1>5. CASE e.do = "write"
  <2>1. /\ ReposAfter(e) = repos /\ e.text \in Seq(STRING)
        /\ FilesAfter(e) = Over(files, [p \in {e.path} |-> e.text])
    BY <1>5 DEF ReposAfter, FilesAfter, TypedCommand
  <2>. QED
    BY <2>1 DEF Over
<1>6. CASE e.do = "edit"
  <2>1. /\ ReposAfter(e) = repos /\ e.old \in Seq(STRING) /\ e.new \in Seq(STRING)
        /\ FilesAfter(e) = [files EXCEPT ![e.path] = Replace(@, e.old, e.new)]
    BY <1>6 DEF ReposAfter, FilesAfter, TypedCommand
  <2>. QED
    BY <2>1, ReplaceIsText
<1>7. CASE e.do \notin {"commit", "stage", "remote", "branch", "write", "edit"}
  BY <1>7 DEF ReposAfter, FilesAfter
<1>. QED
  BY <1>1, <1>2, <1>3, <1>4, <1>5, <1>6, <1>7

LEMMA InitWorld == Init => WorldInv
<1>. SUFFICES ASSUME Init PROVE WorldInv
  OBVIOUS
<1>1. /\ scene \in Scene /\ wired \in scene.wired /\ sources \in scene.sources
      /\ repos = scene.repos /\ files = scene.files /\ calls = [h \in Hook |-> Idle]
  BY DEF Init
<1>2. scene.repos \in [DOMAIN scene.repos -> Repository]
      /\ scene.files \in [DOMAIN scene.files -> Seq(STRING)]
  BY <1>1, SceneAssumption
<1>. QED
  BY <1>1, <1>2 DEF WorldInv

(* A hook goes on as the hook it was: nothing it was told of the call       *)
(* changes.                                                                 *)
LEMMA HeardKeeps ==
  ASSUME NEW c, DOMAIN c = Fields, NEW job, NEW verdict, NEW d, d = Heard(c, job, verdict)
  PROVE  /\ DOMAIN d = Fields
         /\ d.stage = c.stage /\ d.call = c.call /\ d.judged = c.judged
         /\ d.settings = c.settings /\ d.under = c.under /\ d.done = c.done
         /\ d.pending = c.pending \ {FirstOf(c.pending)}
         /\ d.known = Answers(c.known, job.validator)
BY DEF Heard, Fields

(* The answer of a validator that blocks is an objection.                   *)
ObjectionOf(job, verdict) == [validator |-> job.validator, ref |-> verdict.ref]

LEMMA HeardObjects ==
  ASSUME NEW c, DOMAIN c = Fields, NEW job, NEW verdict, NEW d, d = Heard(c, job, verdict)
  PROVE  /\ c.objections \subseteq d.objections
         /\ verdict.block => ObjectionOf(job, verdict) \in d.objections
         /\ \A q \in d.objections :
               q \in c.objections \/ (verdict.block /\ q = ObjectionOf(job, verdict))
<1>. DEFINE o == [validator |-> job.validator, ref |-> verdict.ref]
<1>1. d.objections = IF verdict.block THEN c.objections \cup {o} ELSE c.objections
  BY DEF Heard, Fields
<1>2. o = ObjectionOf(job, verdict)
  BY DEF ObjectionOf
<1>. HIDE DEF o
<1>3. CASE verdict.block
  <2>1. d.objections = c.objections \cup {o}
    BY <1>1, <1>3
  <2>2. /\ c.objections \subseteq d.objections /\ o \in d.objections
        /\ \A q \in d.objections : q \in c.objections \/ q = o
    BY <2>1
  <2>. QED
    BY <1>2, <1>3, <2>2
<1>4. CASE ~verdict.block
  <2>1. d.objections = c.objections
    BY <1>1, <1>4
  <2>. QED
    BY <1>4, <2>1
<1>. QED
  BY <1>3, <1>4

LEMMA StageKeeps ==
  ASSUME NEW c, DOMAIN c = Fields, NEW s
  PROVE  LET d == [c EXCEPT !.stage = s] IN
         /\ DOMAIN d = Fields /\ d.stage = s
         /\ d.call = c.call /\ d.judged = c.judged /\ d.settings = c.settings
         /\ d.under = c.under /\ d.done = c.done /\ d.pending = c.pending
         /\ d.known = c.known /\ d.read = c.read /\ d.objections = c.objections
BY DEF Fields

LEMMA DoneKeeps ==
  ASSUME NEW c, DOMAIN c = Fields, NEW n
  PROVE  LET d == [c EXCEPT !.done = n] IN
         /\ DOMAIN d = Fields /\ d.done = n
         /\ d.call = c.call /\ d.judged = c.judged /\ d.settings = c.settings
         /\ d.under = c.under /\ d.stage = c.stage /\ d.pending = c.pending
         /\ d.known = c.known /\ d.read = c.read /\ d.objections = c.objections
BY DEF Fields

(* An allowed hook performs a command of its call, which has its type.      *)
LEMMA PerformsTyped ==
  ASSUME WorldInv, NEW h \in Hook, calls[h].stage = "allowed", GoesOn(calls[h])
  PROVE  LET c == calls[h] IN
         /\ c.done \in Nat /\ DOMAIN c = Fields /\ TypedCommand(Command(c))
         /\ \E call \in scene.calls :
               /\ c.call = Reading(call)
               /\ \E i \in DOMAIN Effects(call) : Command(c) = Effects(call)[i]
<1>. DEFINE c == calls[h]
<1>1. Called(c) /\ scene \in Scene
  BY DEF WorldInv, Idle
<1>2. c.done \in Nat /\ DOMAIN c = Fields
  BY <1>1 DEF Called
<1>3. PICK call \in scene.calls : c.call = Reading(call)
  BY <1>1 DEF Called
<1>. HIDE DEF c
<1>4. GoesOn(c)
  BY DEF c
<1>5. /\ TypedCommand(Command(c))
      /\ \E i \in DOMAIN Effects(call) : Command(c) = Effects(call)[i]
  BY <1>1, <1>2, <1>3, <1>4, CommandOfCall
<1>. QED
  BY <1>2, <1>3, <1>5 DEF c

(* The commands the parser finds in the line of a hook's call are a list.   *)
LEMMA LinesAreLists ==
  ASSUME WorldInv, NEW h \in Hook, calls[h] # Idle PROVE IsList(calls[h].call.line.gits)
<1>1. Called(calls[h]) /\ scene \in Scene
  BY DEF WorldInv
<1>2. PICK call \in scene.calls : calls[h].call = Reading(call)
  BY <1>1 DEF Called
<1>3. calls[h].call.line = Parse(call.script)
  BY <1>1, <1>2, ReadingKeeps
<1>. QED
  BY <1>1, <1>2, <1>3, SceneAssumption

LEMMA WorldKept == WorldInv /\ [Next]_vars => WorldInv'
<1>. SUFFICES ASSUME WorldInv, [Next]_vars PROVE WorldInv'
  OBVIOUS
<1>0. /\ scene \in Scene /\ wired \in scene.wired /\ sources \in scene.sources
      /\ repos \in [DOMAIN scene.repos -> Repository]
      /\ \A p \in DOMAIN files : files[p] \in Seq(STRING)
      /\ DOMAIN calls = Hook /\ \A h \in Hook : calls[h] = Idle \/ Called(calls[h])
  BY DEF WorldInv
<1>1. scene' = scene /\ wired' = wired /\ sources' \in scene.sources
  BY <1>0 DEF Next, vars, Ask, Start, Validate, Answer, Perform, Stop, Refuse, EditSettings
<1>2. /\ repos' \in [DOMAIN scene.repos -> Repository]
      /\ \A p \in DOMAIN files' : files'[p] \in Seq(STRING)
  <2>1. CASE UNCHANGED <<repos, files>>
    BY <1>0, <2>1
  <2>2. ASSUME NEW h \in Hook, Perform(h)
        PROVE  /\ repos' \in [DOMAIN scene.repos -> Repository]
               /\ \A p \in DOMAIN files' : files'[p] \in Seq(STRING)
    <3>. DEFINE e == Command(calls[h])
    <3>1. /\ calls[h].stage = "allowed" /\ GoesOn(calls[h])
          /\ repos' = ReposAfter(e) /\ files' = FilesAfter(e)
      BY <2>2 DEF Perform
    <3>2. TypedCommand(e)
      BY <3>1, PerformsTyped
    <3>. HIDE DEF e
    <3>. QED
      BY <1>0, <3>1, <3>2, CommandIsTyped
  <2>. QED
    BY <2>1, <2>2 DEF Next, vars, Ask, Start, Validate, Answer, Stop, Refuse, EditSettings
<1>3. DOMAIN calls' = Hook /\ \A h \in Hook : calls'[h] = Idle \/ Called(calls'[h])
  <2>1. CASE UNCHANGED calls
    BY <1>0, <2>1
  <2>2. ASSUME NEW h \in Hook, NEW c, calls' = [calls EXCEPT ![h] = c], c = Idle \/ Called(c)
        PROVE  DOMAIN calls' = Hook /\ \A g \in Hook : calls'[g] = Idle \/ Called(calls'[g])
    BY <1>0, <2>2
  <2>3. ASSUME NEW h \in Hook, NEW call \in scene.calls, Ask(h, call)
        PROVE  DOMAIN calls' = Hook /\ \A g \in Hook : calls'[g] = Idle \/ Called(calls'[g])
    <3>. DEFINE c == [stage |-> "asked", call |-> Reading(call)]
    <3>1. calls' = [calls EXCEPT ![h] = c] /\ Called(c)
      BY <2>3 DEF Ask, Called
    <3>. HIDE DEF c
    <3>. QED
      BY <2>2, <3>1
  <2>4. ASSUME NEW h \in Hook, Start(h)
        PROVE  DOMAIN calls' = Hook /\ \A g \in Hook : calls'[g] = Idle \/ Called(calls'[g])
    <3>. DEFINE c == Started(calls[h].call, Load(sources))
    <3>1. calls' = [calls EXCEPT ![h] = c] /\ calls[h].stage = "asked"
      BY <1>0, <2>4 DEF Start
    <3>2. Called(calls[h])
      BY <1>0, <3>1 DEF Idle
    <3>3. /\ c.stage \in {"judging", "allowed"} /\ DOMAIN c = Fields
          /\ c.done = 0 /\ c.call = calls[h].call
      BY DEF Started, Fields
    <3>. HIDE DEF c
    <3>4. Called(c)
      BY <3>2, <3>3 DEF Called
    <3>. QED
      BY <2>2, <3>1, <3>4
  <2>5. ASSUME NEW h \in Hook, Validate(h)
        PROVE  DOMAIN calls' = Hook /\ \A g \in Hook : calls'[g] = Idle \/ Called(calls'[g])
    <3>. DEFINE c == calls[h]
                job == JobAt(c.call, FirstOf(c.pending))
                verdict == Verdict(c, job)
                d == Heard(c, job, verdict)
    <3>1. calls' = [calls EXCEPT ![h] = d] /\ c.stage = "judging"
      BY <1>0, <2>5 DEF Validate
    <3>2. Called(c)
      BY <1>0, <3>1 DEF Idle
    <3>. HIDE DEF c, job, verdict
    <3>5. DOMAIN c = Fields
      BY <3>1, <3>2 DEF Called
    <3>3. DOMAIN d = Fields /\ d.stage = c.stage /\ d.call = c.call /\ d.done = c.done
      BY <3>5, HeardKeeps
    <3>. HIDE DEF d
    <3>4. Called(d)
      BY <3>1, <3>2, <3>3 DEF Called
    <3>. QED
      BY <2>2, <3>1, <3>4
  <2>6. ASSUME NEW h \in Hook, Answer(h)
        PROVE  DOMAIN calls' = Hook /\ \A g \in Hook : calls'[g] = Idle \/ Called(calls'[g])
    <3>. DEFINE s == IF calls[h].objections = {} THEN "allowed" ELSE "refused"
                d == [calls[h] EXCEPT !.stage = s]
    <3>1. /\ calls' = [calls EXCEPT ![h] = d] /\ calls[h].stage = "judging"
          /\ s \in {"allowed", "refused"}
      BY <2>6 DEF Answer
    <3>2. Called(calls[h])
      BY <1>0, <3>1 DEF Idle
    <3>. HIDE DEF s
    <3>3. DOMAIN d = Fields /\ d.stage = s /\ d.call = calls[h].call /\ d.done = calls[h].done
      BY <3>1, <3>2, StageKeeps DEF Called
    <3>. HIDE DEF d
    <3>4. Called(d)
      BY <3>1, <3>2, <3>3 DEF Called
    <3>. QED
      BY <2>2, <3>1, <3>4
  <2>7. ASSUME NEW h \in Hook, Perform(h)
        PROVE  DOMAIN calls' = Hook /\ \A g \in Hook : calls'[g] = Idle \/ Called(calls'[g])
    <3>. DEFINE d == [calls[h] EXCEPT !.done = calls[h].done + 1]
    <3>1. calls[h].stage = "allowed" /\ \E c \in {Idle, d} : calls' = [calls EXCEPT ![h] = c]
      BY <1>0, <2>7, PerformCounts
    <3>2. Called(calls[h])
      BY <1>0, <3>1 DEF Idle
    <3>3. DOMAIN d = Fields /\ d.stage = "allowed" /\ d.call = calls[h].call
          /\ d.done = calls[h].done + 1
      BY <3>1, <3>2, DoneKeeps DEF Called
    <3>. HIDE DEF d
    <3>4. Called(d)
      BY <3>1, <3>2, <3>3 DEF Called
    <3>. QED
      BY <2>2, <3>1, <3>4
  <2>8. ASSUME NEW h \in Hook, Stop(h) \/ Refuse(h)
        PROVE  DOMAIN calls' = Hook /\ \A g \in Hook : calls'[g] = Idle \/ Called(calls'[g])
    BY <2>2, <2>8 DEF Stop, Refuse
  <2>. QED
    BY <1>0, <2>1, <2>3, <2>4, <2>5, <2>6, <2>7, <2>8 DEF Next, vars, EditSettings
<1>4. ASSUME NEW c, Called(c) PROVE Called(c)'
  BY <1>1, <1>4 DEF Called
<1>. QED
  BY <1>0, <1>1, <1>2, <1>3, <1>4 DEF WorldInv

(* The directories stay in their repositories, and what has no branch       *)
(* tracks none.                                                             *)
LEMMA InitHoused ==
  ASSUME \A s \in Scene : Plainly(s) PROVE Init => HousedInv
BY DEF Init, Plainly, Housed, HousedInv

LEMMA HousedKept ==
  ASSUME \A s \in Scene : Plainly(s)
  PROVE  WorldInv /\ HousedInv /\ [Next]_vars => HousedInv'
<1>. SUFFICES ASSUME WorldInv, HousedInv, [Next]_vars PROVE HousedInv'
  OBVIOUS
<1>1. CASE UNCHANGED repos
  BY <1>1 DEF HousedInv
<1>2. ASSUME NEW h \in Hook, Perform(h) PROVE HousedInv'
  <2>. DEFINE e == Command(calls[h])
              R == DOMAIN scene.repos
  <2>1. /\ calls[h].stage = "allowed" /\ GoesOn(calls[h])
        /\ repos' = ReposAfter(e)
    BY <1>2 DEF Perform
  <2>2. PICK call \in scene.calls : \E i \in DOMAIN Effects(call) : e = Effects(call)[i]
    BY <2>1, PerformsTyped
  <2>3. e.do = "branch" => Tracks(e.name, e.tracking)
    <3>1. SUFFICES ASSUME e.do = "branch" PROVE Tracks(e.name, e.tracking)
      OBVIOUS
    <3>2. Effects(call) = call.does
      <4>. HIDE DEF e
      <4>. QED
        BY <2>2, <3>1 DEF Effects
    <3>3. scene \in Scene
      BY DEF WorldInv
    <3>. HIDE DEF e
    <3>. QED
      BY <2>2, <3>1, <3>2, <3>3 DEF Plainly, Housed
  <2>4. repos \in [R -> Repository]
    BY DEF WorldInv
  <2>. HIDE DEF e, R
  <2>5. ASSUME NEW d \in R
        PROVE  /\ repos'[d].inRepo = repos[d].inRepo /\ repos'[d].root = repos[d].root
               /\ \/ Tracks(repos'[d].current, repos'[d].tracking)
                  \/ /\ repos'[d].current = repos[d].current
                     /\ repos'[d].tracking = repos[d].tracking
    <3>. DEFINE r == repos[d]
    <3>1. DOMAIN r = {"inRepo", "root", "staged", "remotes", "current", "tracking"}
      BY <2>4 DEF Repository
    <3>2. \/ repos' = repos
          \/ repos'[d] = r
          \/ repos'[d] = [r EXCEPT !.staged = "none"]
          \/ repos'[d] = [r EXCEPT !.staged = "some"]
          \/ repos'[d] = [r EXCEPT !.remotes = @ \cup {e.name}]
          \/ e.do = "branch" /\ repos'[d] = [r EXCEPT !.current = e.name, !.tracking = e.tracking]
      BY <2>1, <2>4 DEF ReposAfter
    <3>. HIDE DEF r
    <3>3. /\ repos'[d].inRepo = r.inRepo /\ repos'[d].root = r.root
          /\ \/ e.do = "branch" /\ repos'[d].current = e.name /\ repos'[d].tracking = e.tracking
             \/ repos'[d].current = r.current /\ repos'[d].tracking = r.tracking
      BY <3>1, <3>2 DEF r
    <3>. QED
      BY <2>3, <3>3 DEF r
  <2>6. DOMAIN repos' = R
    BY <2>1, <2>4 DEF ReposAfter
  <2>. QED
    BY <2>4, <2>5, <2>6 DEF HousedInv, Tracks
<1>. QED
  BY <1>1, <1>2 DEF Next, vars, Ask, Start, Validate, Answer, Stop, Refuse, EditSettings

-----------------------------------------------------------------------------
\* What a hook knows

(* What is known is not asked again; what is asked is answered by the       *)
(* repository of the hook.                                                  *)
AsksFor(v) == IF v \in DOMAIN Asked THEN Asked[v] ELSE {}

LEMMA AnswersKeep ==
  ASSUME NEW known, NEW v
  PROVE  /\ DOMAIN Answers(known, v) = DOMAIN known \cup AsksFor(v)
         /\ \A f \in DOMAIN known : Answers(known, v)[f] = known[f]
         /\ \A f \in AsksFor(v) \ DOMAIN known : Answers(known, v)[f] = Home[f]
BY DEF Answers, Over, Home, Here, AsksFor

(* The repository of the hook as its validators see it: what is known, and  *)
(* the rest of it as it is.                                                 *)
LEMMA ViewShows ==
  ASSUME NEW known, NEW v, Here \in DOMAIN repos, NEW view, view = View(known, v),
         NEW a, a = Answers(known, v)
  PROVE  /\ \A d \in DOMAIN repos \ {Here} : view[d] = repos[d]
         /\ \A f \in DOMAIN a : view[Here][f] = a[f]
         /\ \A f \in DOMAIN Home \ DOMAIN a : view[Here][f] = Home[f]
<1>1. view = [repos EXCEPT ![Here] = Over(Home, a)]
  BY DEF View, Home, Here
<1>2. view[Here] = Over(Home, a) /\ \A d \in DOMAIN repos \ {Here} : view[d] = repos[d]
  BY <1>1
<1>3. /\ \A f \in DOMAIN a : view[Here][f] = a[f]
      /\ \A f \in DOMAIN Home \ DOMAIN a : view[Here][f] = Home[f]
  BY <1>2 DEF Over
<1>. QED
  BY <1>2, <1>3

(* The hook is in a repository of the scene.                                *)
LEMMA HomeIsHoused ==
  ASSUME WorldInv, HousedInv
  PROVE  /\ Here \in DOMAIN repos /\ DOMAIN repos = DOMAIN scene.repos /\ Home \in Repository
         /\ Home.inRepo /\ Home.root /\ Tracks(Home.current, Home.tracking)
<1>1. Here \in DOMAIN scene.repos
  BY SceneAssumption DEF WorldInv, Here
<1>2. Here \in DOMAIN repos /\ DOMAIN repos = DOMAIN scene.repos /\ Home \in Repository
  BY <1>1 DEF WorldInv, Home
<1>. QED
  BY <1>2 DEF HousedInv, Home

(* A place is of a call or a write, and of a validator.                     *)
LEMMA JobsArePlaces ==
  ASSUME NEW settings, NEW call
  PROVE  /\ Jobs(settings, call) \in SUBSET (Nat \X DOMAIN Order)
         /\ Jobs(settings, call) \in SUBSET (Nat \X Nat)
<1>. DEFINE A == DOMAIN SeenAs(call)
            B == DOMAIN Order
<1>1. A \in SUBSET Nat /\ B \in SUBSET Nat
  BY DEF SeenAs, Order
<1>2. Jobs(settings, call) \in SUBSET (A \X B)
  BY DEF Jobs
<1>. HIDE DEF A, B
<1>3. A \X B \in SUBSET (Nat \X B) /\ A \X B \in SUBSET (Nat \X Nat)
  BY <1>1
<1>4. Jobs(settings, call) \in SUBSET (Nat \X B) /\ Jobs(settings, call) \in SUBSET (Nat \X Nat)
  BY <1>2, <1>3
<1>. QED
  BY <1>4 DEF B

(* What the validator of a command is shown is the command, at place 0.     *)
LEMMA ShellJobsAreFirst ==
  ASSUME NEW settings, NEW call, NEW p \in Jobs(settings, call),
         Order[p[2]] \in DOMAIN Subcommand \cup {"branch"} \cup DOMAIN Phrases
  PROVE  p = <<0, p[2]>>
<1>. DEFINE v == Order[p[2]]
<1>1. p \in (DOMAIN SeenAs(call)) \X DOMAIN Order /\ Applies(v, SeenAs(call)[p[1]])
  BY DEF Jobs
<1>2. SUFFICES ASSUME p[1] # 0 PROVE FALSE
  BY <1>1
<1>3. PICK fw : SeenAs(call)[p[1]] = WriteOf(fw)
  BY <1>1, <1>2, SeenIsCallOrWrite
<1>4. Applies(v, WriteOf(fw)) /\ v \in DOMAIN Subcommand \cup {"branch"} \cup DOMAIN Phrases
  BY <1>1, <1>3
<1>. DEFINE w == WriteOf(fw)
<1>5. w.event = "PreToolUse" /\ w.tool = "Write"
  BY DEF WriteOf, Tool
<1>6. GitsOf(w) = {}
  BY <1>5 DEF GitsOf
<1>7. v # "bell"
  <2>. HIDE DEF v
  <2>. QED
    BY <1>4 DEF Subcommand, Phrases
<1>. HIDE DEF v, w
<1>8. Applies(v, w)
  BY <1>4 DEF w
<1>. QED
  BY <1>4, <1>5, <1>6, <1>7, <1>8 DEF Applies, Subcommand, Phrases

(* The next job of a hook comes before all that are left.                   *)
LEMMA FirstJob ==
  ASSUME NEW c, DOMAIN c = Fields, c.pending \subseteq Jobs(c.settings, c.call), c.pending # {},
         NEW p, p = FirstOf(c.pending)
  PROVE  /\ p \in c.pending /\ p \in Jobs(c.settings, c.call) /\ p \in Nat \X DOMAIN Order
         /\ \A q \in c.pending : ~Earlier(q, p)
<1>1. c.pending \in SUBSET (Nat \X Nat)
  BY JobsArePlaces
<1>2. p \in c.pending /\ \A q \in c.pending : ~Earlier(q, p)
  BY <1>1, FirstIsOne
<1>3. p \in Jobs(c.settings, c.call)
  BY <1>2
<1>. QED
  BY <1>2, <1>3, JobsArePlaces

(* What a hook knows is true of its repositories at the time it asks, and   *)
(* nothing but its push validator, while it is left to run, asks for the    *)
(* branch.                                                                  *)
LEMMA HeardKnows ==
  ASSUME WorldInv, HousedInv, NEW c, DOMAIN c = Fields, c.pending # {},
         c.pending \subseteq Jobs(c.settings, c.call), Knows(c),
         NEW p, p = FirstOf(c.pending), NEW job, job = JobAt(c.call, p),
         NEW verdict, NEW d, d = Heard(c, job, verdict)
  PROVE  /\ Knows(d)
         /\ "tracking" \in DOMAIN c.known =>
              "tracking" \in DOMAIN d.known /\ d.known["tracking"] = c.known["tracking"]
<1>. DEFINE v == job.validator
            asked == AsksFor(v)
            branch == {"current", "tracking"}
            first == <<0, PushPlace>>
<1>1. /\ p \in c.pending /\ p \in Jobs(c.settings, c.call) /\ p \in Nat \X DOMAIN Order
      /\ \A q \in c.pending : ~Earlier(q, p)
  BY FirstJob
<1>2. v = Order[p[2]]
  BY DEF JobAt
<1>. HIDE DEF v, asked
<1>3. /\ d.pending = c.pending \ {p} /\ d.settings = c.settings /\ d.call = c.call
      /\ d.known = Answers(c.known, v)
  BY HeardKeeps DEF v
<1>4. /\ DOMAIN d.known = DOMAIN c.known \cup asked
      /\ \A f \in DOMAIN c.known : d.known[f] = c.known[f]
      /\ \A f \in asked \ DOMAIN c.known : d.known[f] = Home[f]
  <2>. DEFINE a == Answers(c.known, v)
  <2>1. /\ DOMAIN a = DOMAIN c.known \cup AsksFor(v)
        /\ \A f \in DOMAIN c.known : a[f] = c.known[f]
        /\ \A f \in AsksFor(v) \ DOMAIN c.known : a[f] = Home[f]
    BY AnswersKeep
  <2>. HIDE DEF a
  <2>2. d.known = a
    BY <1>3 DEF a
  <2>. QED
    BY <2>1, <2>2 DEF asked
<1>5. Home.inRepo /\ Home.root /\ Tracks(Home.current, Home.tracking)
  BY HomeIsHoused
<1>6. /\ v = "push" => branch \subseteq asked
      /\ asked \cap branch # {} => v \in {"push", "merge"}
      /\ "tracking" \in asked => v = "push"
  BY DEF asked, AsksFor, Asked
<1>7. /\ p[2] \in 1..20
      /\ v = "push" <=> p[2] = PushPlace
      /\ v = "merge" => p[2] = 8
  BY <1>1, <1>2 DEF Order, PushPlace
<1>8. v \in {"push", "merge"} => p = <<0, p[2]>>
  BY <1>1, <1>2, ShellJobsAreFirst DEF Subcommand, Phrases
<1>9. first \in c.pending => v # "merge"
  <2>1. SUFFICES ASSUME first \in c.pending, v = "merge" PROVE FALSE
    OBVIOUS
  <2>2. p = <<0, 8>>
    BY <1>7, <1>8, <2>1
  <2>3. Earlier(first, p)
    BY <2>2 DEF Earlier, PushPlace
  <2>. QED
    BY <1>1, <2>1, <2>3
<1>10. \A f \in DOMAIN d.known \cap {"inRepo", "root"} : d.known[f]
  BY <1>4, <1>5 DEF Knows
<1>11. first \in d.pending => DOMAIN d.known \cap branch = {}
  <2>1. SUFFICES ASSUME first \in c.pending, first # p PROVE DOMAIN d.known \cap branch = {}
    BY <1>3
  <2>2. v # "push"
    BY <1>7, <1>8, <2>1
  <2>3. asked \cap branch = {}
    BY <1>6, <1>9, <2>1, <2>2
  <2>. QED
    BY <1>4, <2>1, <2>3 DEF Knows
<1>12. Looks(d, PushPlace) /\ first \notin d.pending => branch \subseteq DOMAIN d.known
  <2>1. SUFFICES ASSUME Looks(c, PushPlace), first \notin c.pending \/ first = p
                 PROVE  branch \subseteq DOMAIN d.known
    BY <1>3 DEF Looks
  <2>2. CASE first \notin c.pending
    BY <1>4, <2>1, <2>2 DEF Knows
  <2>3. CASE first = p
    <3>1. v = "push"
      BY <1>7, <2>3
    <3>. QED
      BY <1>4, <1>6, <3>1
  <2>. QED
    BY <2>1, <2>2, <2>3
<1>13. "tracking" \in DOMAIN d.known =>
         "current" \in DOMAIN d.known /\ Tracks(d.known["current"], d.known["tracking"])
  <2>1. CASE "tracking" \in DOMAIN c.known
    BY <1>4, <2>1 DEF Knows
  <2>2. CASE "tracking" \notin DOMAIN c.known /\ "tracking" \in asked
    <3>1. v = "push" /\ p = first
      BY <1>6, <1>7, <1>8, <2>2
    <3>2. branch \cap DOMAIN c.known = {} /\ branch \subseteq asked
      BY <1>1, <1>6, <3>1 DEF Knows
    <3>. QED
      BY <1>4, <1>5, <3>2
  <2>. QED
    BY <1>4, <2>1, <2>2
<1>. QED
  BY <1>4, <1>10, <1>11, <1>12, <1>13 DEF Knows

-----------------------------------------------------------------------------
\* What a hook minds

(* Of results that do not all pass the first that does not is taken.        *)
LEMMA FirstFailureFails ==
  ASSUME NEW I \in SUBSET Nat, NEW results, DOMAIN results = I,
         \A j \in I : results[j].passed \/ results[j].block,
         NEW i \in I, ~results[i].passed
  PROVE  FirstFailure(results).block
<1>. DEFINE failing == {j \in I : ~results[j].passed}
<1>1. failing \in SUBSET Nat /\ failing # {}
  OBVIOUS
<1>. HIDE DEF failing
<1>2. Min(failing) \in failing
  BY <1>1, LeastPosition
<1>3. FirstFailure(results) = results[Min(failing)]
  BY <1>1 DEF FirstFailure, failing
<1>. QED
  BY <1>2, <1>3 DEF failing

(* A push to a blocked remote is blocked, whatever comes before it.         *)
LEMMA PushBlocks ==
  ASSUME NEW cfg, NEW line, IsList(line.gits), NEW view,
         NEW i \in Calling(line, "push"),
         view[line.gits[i].dir].inRepo,
         PushRemote(line.gits[i], view[line.gits[i].dir]) \in Setting(cfg, "blocked_remotes", {})
  PROVE  Push(cfg, line, view).block
<1>. DEFINE I == Calling(line, "push")
            results == [j \in I |-> CheckPush(cfg, line.gits[j], view[line.gits[j].dir])]
<1>1. I \in SUBSET Nat
  BY DEF Calling, IsList
<1>2. ASSUME NEW g, NEW repo
      PROVE  CheckPush(cfg, g, repo) \in {Pass, FailAs("GIT025"), FailAs("GIT007")}
  BY DEF CheckPush, RemoteExists
<1>3. /\ Pass.passed /\ ~Pass.block
      /\ ~FailAs("GIT025").passed /\ FailAs("GIT025").block
      /\ ~FailAs("GIT007").passed /\ FailAs("GIT007").block
  BY DEF Pass, FailAs
<1>4. CheckPush(cfg, line.gits[i], view[line.gits[i].dir]) = FailAs("GIT025")
  BY DEF CheckPush
<1>. HIDE DEF I
<1>5. i \in I
  BY DEF I
<1>6. \A j \in I : results[j] \in {Pass, FailAs("GIT025"), FailAs("GIT007")}
  BY <1>2
<1>7. \A j \in I : results[j].passed \/ results[j].block
  <2>. HIDE DEF results
  <2>. QED
    BY <1>3, <1>6
<1>8. DOMAIN results = I /\ ~results[i].passed
  BY <1>3, <1>4, <1>5
<1>. HIDE DEF results
<1>9. FirstFailure(results).block
  BY <1>1, <1>5, <1>7, <1>8, FirstFailureFails
<1>. QED
  BY <1>9 DEF Push, results, I

(* A validator that does not ask for what may change blocks what it forbids *)
(* however the repositories are.                                            *)
LEMMA CommitBlocks ==
  ASSUME NEW cfg, NEW line, CommitForbids(cfg, line), NEW view
  PROVE  Commit(cfg, line, view).block
<1>. DEFINE g == FirstCommit(line)
            repo == view[Here]
            added == AddsInChain(line.gits)
<1>1. Commit(cfg, line, view) = ValidateCommand(cfg, g, added, repo)
  BY DEF Commit, CommitForbids, Here
<1>2. \A r : FailAs(r).block
  BY DEF FailAs
<1>3. \/ MissingFlags(cfg, g) # {}
      \/ Setting(cfg, "message_enabled", TRUE) /\ CheckCommitMessage(cfg, g).block
  BY DEF CommitForbids
<1>. HIDE DEF g, repo, added
<1>. QED
  BY <1>1, <1>2, <1>3 DEF ValidateCommand

LEMMA MergeBlocks ==
  ASSUME NEW cfg, NEW line, MergeForbids(cfg, line), NEW repo
  PROVE  Merge(cfg, cfg, line, repo).block
<1>. DEFINE m == FirstMerge(line)
            pr == PullRequest(m.number)
<1>1. Merge(cfg, cfg, line, repo) = ValidateMerge(cfg, cfg, m, repo)
  BY DEF Merge, MergeForbids
<1>2. /\ m.number # 0 /\ "auto" \notin m.on /\ IsSquashMerge(m) /\ pr # NoAnswer
      /\ Setting(cfg, "message_enabled", TRUE)
      /\ \/ MergeTitleRefused(cfg, RequestText(pr.title).title)
         \/ pr.body # Here /\ MergeBodyRefused(cfg, RequestText(pr.body))
  BY DEF MergeForbids
<1>. HIDE DEF m
<1>3. Fetched(m, repo) = pr
  BY <1>2 DEF Fetched
<1>. HIDE DEF pr
<1>4. ValidateMerge(cfg, cfg, m, repo) = FailAs("GIT017")
  BY Zenon, <1>2, <1>3 DEF ValidateMerge, Here
<1>5. FailAs("GIT017").block
  BY DEF FailAs
<1>. QED
  BY <1>1, <1>4, <1>5

LEMMA LineForbidden ==
  ASSUME NEW c, NEW v \in Minding \ {"push"}, Forbids(c, v), NEW view,
         view[Here].inRepo, view[Here].root
  PROVE  ValidateOne(v, Cfg(c, v), c.call, view).block
<1>1. CASE v = "no_verify"
  BY <1>1 DEF Forbids, ValidateOne
<1>2. CASE v = "branch"
  BY <1>2 DEF Forbids, ValidateOne
<1>3. CASE v = "add"
  <2>1. Add(Cfg(c, v), c.call.line, view) = AddForbids(Cfg(c, v), c.call.line)
    BY DEF Add, AddForbids, Here
  <2>2. AddForbids(Cfg(c, v), c.call.line).block
    BY <1>3 DEF Forbids
  <2>3. ValidateOne(v, Cfg(c, v), c.call, view) = Add(Cfg(c, v), c.call.line, view)
    BY <1>3 DEF ValidateOne
  <2>. QED
    BY <2>1, <2>2, <2>3
<1>4. CASE v = "commit"
  BY <1>4, CommitBlocks DEF Forbids, ValidateOne
<1>5. CASE v = "merge"
  BY <1>5, MergeBlocks DEF Forbids, ValidateOne
<1>6. CASE v = "pr"
  BY <1>6 DEF Forbids, ValidateOne
<1>. QED
  BY <1>1, <1>2, <1>3, <1>4, <1>5, <1>6 DEF Minding

(* The push validator blocks what it forbids when it asks for the branch.   *)
LEMMA PushForbidden ==
  ASSUME WorldInv, HousedInv, NEW c, IsList(c.call.line.gits), Knows(c),
         NEW d, d.call = c.call, d.settings = c.settings,
         d.known = Answers(c.known, "push"), Knows(d), Forbids(d, "push")
  PROVE  ValidateOne("push", Cfg(c, "push"), c.call, View(c.known, "push")).block
<1>. DEFINE line == c.call.line
            cfg == Cfg(c, "push")
            view == View(c.known, "push")
            B == Setting(cfg, "blocked_remotes", {})
<1>1. Here \in DOMAIN repos /\ DOMAIN repos = DOMAIN scene.repos /\ Home \in Repository
      /\ Home.inRepo
  BY HomeIsHoused
<1>2. PICK i \in Calling(line, "push") :
         LET g == line.gits[i] IN
         /\ g.dir \in DOMAIN repos
         /\ \/ g.args # <<>> /\ g.args[1] \in B
            \/ g.args = <<>> /\ g.dir = Here /\ KnownDestination(d) \in B
  <2>1. PushForbids(d, cfg, line)
    BY DEF Forbids, Cfg
  <2>. QED
    BY <1>1, <2>1 DEF PushForbids
<1>. DEFINE g == line.gits[i]
<1>3. /\ \A p \in DOMAIN repos \ {Here} : view[p] = repos[p]
      /\ \A f \in DOMAIN d.known : view[Here][f] = d.known[f]
      /\ \A f \in DOMAIN Home \ DOMAIN d.known : view[Here][f] = Home[f]
  BY <1>1, ViewShows
<1>4. view[Here].inRepo
  <2>1. "inRepo" \in DOMAIN Home /\ Home.inRepo
    BY <1>1 DEF Repository
  <2>2. "inRepo" \in DOMAIN d.known => d.known["inRepo"]
    BY DEF Knows
  <2>. QED
    BY <1>3, <2>1, <2>2
<1>5. /\ {"current", "tracking"} \subseteq DOMAIN d.known
      /\ Tracks(d.known["current"], d.known["tracking"])
  <2>1. "push" \in DOMAIN Asked /\ {"current", "tracking"} \subseteq Asked["push"]
    BY DEF Asked
  <2>2. {"current", "tracking"} \subseteq DOMAIN d.known
    <3>1. DOMAIN Answers(c.known, "push") = DOMAIN c.known \cup AsksFor("push")
      BY AnswersKeep
    <3>2. Asked["push"] = AsksFor("push")
      BY <2>1 DEF AsksFor
    <3>. QED
      BY <2>1, <3>1, <3>2
  <2>. QED
    BY <2>2 DEF Knows
<1>6. view[Here].current = d.known["current"] /\ view[Here].tracking = d.known["tracking"]
  BY <1>3, <1>5
<1>. HIDE DEF view, line, B, cfg
<1>7. view[g.dir].inRepo
  BY <1>2, <1>3, <1>4 DEF HousedInv
<1>8. PushRemote(g, view[g.dir]) \in B
  <2>1. CASE g.args # <<>>
    BY <1>2, <2>1 DEF PushRemote
  <2>2. CASE g.args = <<>>
    <3>1. g.dir = Here /\ KnownDestination(d) \in B
      BY <1>2, <2>2
    <3>2. PushRemote(g, view[Here]) = KnownDestination(d)
      BY <1>5, <1>6, <2>2 DEF PushRemote, KnownDestination, Tracks
    <3>. QED
      BY <3>1, <3>2
  <2>. QED
    BY <2>1, <2>2
<1>9. Push(cfg, line, view).block
  <2>1. IsList(line.gits)
    BY DEF line
  <2>. QED
    BY <1>2, <1>7, <1>8, <2>1, PushBlocks DEF B
<1>10. ValidateOne("push", cfg, c.call, view) = Push(cfg, line, view)
  BY DEF ValidateOne, line
<1>. QED
  BY <1>9, <1>10 DEF cfg, view

(* Where a hook has asked for the branch it stays with the answer.          *)
LEMMA ForbidsKeeps ==
  ASSUME NEW c, NEW d, d.call = c.call, d.settings = c.settings, NEW v \in Minding,
         v = "push" => d.known["tracking"] = c.known["tracking"]
  PROVE  Forbids(d, v) <=> Forbids(c, v)
<1>1. Cfg(d, v) = Cfg(c, v)
  BY DEF Cfg
<1>2. v = "push" => KnownDestination(d) = KnownDestination(c)
  BY DEF KnownDestination
<1>3. v = "push" => (PushForbids(d, Cfg(d, v), d.call.line) <=> PushForbids(c, Cfg(c, v), c.call.line))
  BY <1>1, <1>2 DEF PushForbids
<1>. QED
  BY <1>1, <1>3 DEF Forbids

(* The next validator objects to what it forbids, and the objections of the *)
(* others stay.                                                             *)
LEMMA HeardMinds ==
  ASSUME WorldInv, HousedInv, NEW c, DOMAIN c = Fields, c.pending # {},
         c.pending \subseteq Jobs(c.settings, c.call), Knows(c), IsList(c.call.line.gits),
         NEW p, p = FirstOf(c.pending), NEW job, job = JobAt(c.call, p),
         NEW verdict, verdict = Verdict(c, job), NEW d, d = Heard(c, job, verdict),
         NEW i \in DOMAIN Order, Order[i] \in Minding, Minds(c, i)
  PROVE  Minds(d, i)
<1>. DEFINE v == Order[i]
<1>1. p \in c.pending /\ p \in Nat \X DOMAIN Order
  BY FirstJob
<1>2. /\ d.pending = c.pending \ {p} /\ d.settings = c.settings /\ d.call = c.call
      /\ d.known = Answers(c.known, job.validator)
  BY HeardKeeps
<1>3. /\ c.objections \subseteq d.objections
      /\ verdict.block => ObjectionOf(job, verdict) \in d.objections
  BY HeardObjects
<1>4. /\ Knows(d)
      /\ "tracking" \in DOMAIN c.known => d.known["tracking"] = c.known["tracking"]
  BY HeardKnows
<1>. HIDE DEF v
<1>5. SUFFICES ASSUME Looks(c, i), <<0, i>> \notin d.pending,
                      RuleAnswer(c.settings, v, c.call) = <<>>, Forbids(d, v)
               PROVE  ~Silent(d, v)
  BY <1>2 DEF Minds, Looks, v
<1>6. CASE p # <<0, i>>
  <2>1. <<0, i>> \notin c.pending
    BY <1>2, <1>5, <1>6
  <2>2. v = "push" => d.known["tracking"] = c.known["tracking"]
    <3>1. v = "push" => i = PushPlace
      <4>1. i \in 1..20
        BY DEF Order
      <4>. QED
        BY <4>1 DEF v, Order, PushPlace
    <3>. QED
      BY <1>4, <1>5, <2>1, <3>1 DEF Knows
  <2>3. v \in Minding
    BY DEF v
  <2>4. Forbids(c, v)
    BY <1>2, <1>5, <2>2, <2>3, ForbidsKeeps
  <2>5. ~Silent(c, v)
    BY <1>5, <2>1, <2>4 DEF Minds, v
  <2>. QED
    BY <1>3, <2>5 DEF Silent
<1>7. CASE p = <<0, i>>
  <2>1. job.validator = v /\ job.call = c.call
    <3>1. 0 \in DOMAIN SeenAs(c.call) /\ SeenAs(c.call)[0] = c.call
      BY DEF SeenAs
    <3>. QED
      BY <1>7, <3>1 DEF JobAt, v
  <2>2. verdict = ValidateOne(v, Cfg(c, v), c.call, View(c.known, v))
    BY <1>5, <2>1 DEF Verdict, Cfg
  <2>3. verdict.block
    <3>1. CASE v = "push"
      BY <1>2, <1>4, <1>5, <2>1, <2>2, <3>1, PushForbidden
    <3>2. CASE v # "push"
      <4>. DEFINE view == View(c.known, v)
      <4>1. v \in Minding \ {"push"}
        BY <3>2 DEF v
      <4>2. Here \in DOMAIN repos /\ Home \in Repository /\ Home.inRepo /\ Home.root
        BY HomeIsHoused
      <4>3. d.known = Answers(c.known, v)
        BY <1>2, <2>1
      <4>4. /\ \A f \in DOMAIN Answers(c.known, v) : view[Here][f] = Answers(c.known, v)[f]
            /\ \A f \in DOMAIN Home \ DOMAIN Answers(c.known, v) : view[Here][f] = Home[f]
        BY <4>2, ViewShows
      <4>. HIDE DEF view
      <4>5. \A f \in DOMAIN d.known \cap {"inRepo", "root"} : d.known[f]
        BY <1>4 DEF Knows
      <4>6. "inRepo" \in DOMAIN Home /\ "root" \in DOMAIN Home
        BY <4>2 DEF Repository
      <4>7. view[Here].inRepo /\ view[Here].root
        BY <4>2, <4>3, <4>4, <4>5, <4>6
      <4>8. Forbids(c, v)
        BY <1>2, <1>5, <3>2, <4>1, ForbidsKeeps DEF Minding
      <4>9. ValidateOne(v, Cfg(c, v), c.call, view).block
        BY <4>1, <4>7, <4>8, LineForbidden
      <4>. QED
        BY <2>2, <4>9 DEF view
    <3>. QED
      BY <3>1, <3>2
  <2>. QED
    BY <1>3, <2>1, <2>3 DEF Silent, ObjectionOf
<1>. QED
  BY <1>6, <1>7

LEMMA HeardMindsAll ==
  ASSUME WorldInv, HousedInv, NEW c, MindsAll(c), c.stage = "judging", c.pending # {},
         IsList(c.call.line.gits),
         NEW job, job = JobAt(c.call, FirstOf(c.pending)),
         NEW verdict, verdict = Verdict(c, job), NEW d, d = Heard(c, job, verdict)
  PROVE  d.stage = "judging" /\ MindsAll(d)
<1>1. DOMAIN c = Fields
  BY DEF MindsAll
<1>2. /\ DOMAIN d = Fields /\ d.stage = "judging" /\ d.judged = c.judged /\ d.call = c.call
      /\ d.settings = c.settings /\ d.pending \subseteq c.pending
  BY <1>1, HeardKeeps
<1>3. ASSUME c.judged
      PROVE  Knows(d) /\ \A i \in DOMAIN Order : Order[i] \in Minding => Minds(d, i)
  <2>1. /\ c.pending \subseteq Jobs(c.settings, c.call) /\ Knows(c)
        /\ \A i \in DOMAIN Order : Order[i] \in Minding => Minds(c, i)
    BY <1>3 DEF MindsAll
  <2>2. Knows(d)
    BY <1>1, <2>1, HeardKnows
  <2>3. \A i \in DOMAIN Order : Order[i] \in Minding => Minds(d, i)
    BY <1>1, <2>1, HeardMinds
  <2>. QED
    BY <2>2, <2>3
<1>. QED
  BY <1>2, <1>3 DEF MindsAll

(* A hook that has loaded its configuration has all before it.              *)
LEMMA StartedMinds ==
  ASSUME NEW call
  PROVE  LET c == Started(call, Load(sources))
         IN  c.stage \in {"judging", "allowed"} /\ MindsAll(c)
<1>. DEFINE settings == Load(sources)
            fails == ~settings.ok \/ (wired /\ EngineFails(settings.rules))
            c == Started(call, settings)
<1>1. /\ DOMAIN c = Fields /\ c.stage = IF fails THEN "allowed" ELSE "judging"
      /\ c.objections = {} /\ c.settings = settings /\ c.call = call /\ c.known = <<>>
      /\ c.judged = ~fails /\ c.pending = IF fails THEN {} ELSE Jobs(settings, call)
  BY DEF Started, Fields
<1>. HIDE DEF c, settings, fails
<1>2. ASSUME c.judged, NEW i \in DOMAIN Order, Looks(c, i) PROVE <<0, i>> \in c.pending
  <2>1. 0 \in DOMAIN SeenAs(call) /\ SeenAs(call)[0] = call
    BY DEF SeenAs
  <2>2. <<0, i>> \in Jobs(settings, call)
    BY <1>1, <1>2, <2>1 DEF Jobs, Looks
  <2>. QED
    BY <1>1, <1>2, <2>2
<1>3. ASSUME c.judged PROVE Knows(c)
  <2>1. DOMAIN c.known = {}
    BY <1>1
  <2>2. PushPlace \in DOMAIN Order
    BY DEF PushPlace, Order
  <2>. QED
    BY <1>2, <1>3, <2>1, <2>2 DEF Knows
<1>4. c.judged => \A i \in DOMAIN Order : Minds(c, i)
  BY <1>2 DEF Minds
<1>. QED
  BY <1>1, <1>3, <1>4 DEF MindsAll, c, settings

(* What a hook minds does not depend on how far it is.                      *)
LEMMA SameMinds ==
  ASSUME NEW c, MindsAll(c), NEW d, DOMAIN d = Fields, d.judged = c.judged, d.call = c.call,
         d.settings = c.settings, d.pending = c.pending, d.known = c.known,
         d.objections = c.objections,
         d.stage # "judging" => d.pending = {},
         d.stage = "allowed" /\ d.judged => d.objections = {}
  PROVE  MindsAll(d)
<1>1. SUFFICES ASSUME c.judged
               PROVE  Knows(d) /\ \A i \in DOMAIN Order : Order[i] \in Minding => Minds(d, i)
  BY DEF MindsAll
<1>2. Knows(d)
  BY <1>1 DEF MindsAll, Knows, Looks
<1>3. ASSUME NEW i \in DOMAIN Order, Order[i] \in Minding PROVE Minds(d, i)
  <2>1. Minds(c, i)
    BY <1>1, <1>3 DEF MindsAll
  <2>2. Forbids(d, Order[i]) <=> Forbids(c, Order[i])
    BY <1>3, ForbidsKeeps
  <2>. QED
    BY <2>1, <2>2 DEF Minds, Looks, Silent
<1>. QED
  BY <1>2, <1>3

LEMMA InitMind == Init => MindInv
BY DEF Init, MindInv

LEMMA MindKept ==
  ASSUME \A s \in Scene : Plainly(s)
  PROVE  WorldInv /\ HousedInv /\ MindInv /\ [Next]_vars => MindInv'
<1>. SUFFICES ASSUME WorldInv, HousedInv, MindInv, [Next]_vars PROVE MindInv'
  OBVIOUS
<1>0. DOMAIN calls = Hook /\ scene \in Scene
  BY DEF WorldInv
<1>1. scene' = scene /\ wired' = wired
  BY DEF Next, vars, Ask, Start, Validate, Answer, Perform, Stop, Refuse, EditSettings
<1>2. ASSUME NEW e, MindsAll(e) PROVE MindsAll(e)'
  <2>1. ASSUME NEW i, Minds(e, i) PROVE Minds(e, i)'
    BY <1>1, <2>1 DEF Minds, RuleAnswer, Forbids, PushForbids
  <2>. QED
    BY <1>2, <2>1 DEF MindsAll
<1>3. CASE UNCHANGED calls
  BY <1>2, <1>3 DEF MindInv
<1>4. ASSUME NEW h \in Hook, NEW c, calls' = [calls EXCEPT ![h] = c],
             \/ c = Idle
             \/ c.stage = "asked"
             \/ c.stage \in {"judging", "allowed", "refused"} /\ MindsAll(c)
      PROVE  MindInv'
  <2>1. \A g \in Hook : \/ calls'[g] = Idle
                        \/ calls'[g].stage = "asked"
                        \/ /\ calls'[g].stage \in {"judging", "allowed", "refused"}
                           /\ MindsAll(calls'[g])
    BY <1>0, <1>4 DEF MindInv
  <2>. QED
    BY <1>2, <2>1 DEF MindInv
<1>5. ASSUME NEW h \in Hook, NEW call, Ask(h, call) PROVE MindInv'
  <2>. DEFINE c == [stage |-> "asked", call |-> Reading(call)]
  <2>1. calls' = [calls EXCEPT ![h] = c] /\ c.stage = "asked"
    BY <1>5 DEF Ask
  <2>. HIDE DEF c
  <2>. QED
    BY <1>4, <2>1
<1>6. ASSUME NEW h \in Hook, Start(h) PROVE MindInv'
  <2>. DEFINE c == Started(calls[h].call, Load(sources))
  <2>1. calls' = [calls EXCEPT ![h] = c]
    BY <1>0, <1>6 DEF Start
  <2>2. c.stage \in {"judging", "allowed"} /\ MindsAll(c)
    BY StartedMinds
  <2>. HIDE DEF c
  <2>. QED
    BY <1>4, <2>1, <2>2
<1>7. ASSUME NEW h \in Hook, Validate(h) PROVE MindInv'
  <2>. DEFINE c == calls[h]
              job == JobAt(c.call, FirstOf(c.pending))
              verdict == Verdict(c, job)
              d == Heard(c, job, verdict)
  <2>1. calls' = [calls EXCEPT ![h] = d] /\ c.stage = "judging" /\ c.pending # {}
    BY <1>0, <1>7 DEF Validate
  <2>2. MindsAll(c)
    BY <2>1 DEF MindInv, Idle
  <2>3. IsList(c.call.line.gits)
    <3>1. c # Idle
      BY <2>1 DEF Idle
    <3>. QED
      BY <3>1, LinesAreLists
  <2>. HIDE DEF c, job, verdict
  <2>4. job = JobAt(c.call, FirstOf(c.pending)) /\ verdict = Verdict(c, job)
    BY DEF job, verdict
  <2>5. d.stage = "judging" /\ MindsAll(d)
    BY <2>1, <2>2, <2>3, <2>4, HeardMindsAll
  <2>. HIDE DEF d
  <2>. QED
    BY <1>4, <2>1, <2>5 DEF c
<1>8. ASSUME NEW h \in Hook, Answer(h) PROVE MindInv'
  <2>. DEFINE s == IF calls[h].objections = {} THEN "allowed" ELSE "refused"
              d == [calls[h] EXCEPT !.stage = s]
  <2>1. /\ calls' = [calls EXCEPT ![h] = d]
        /\ calls[h].stage = "judging" /\ calls[h].pending = {}
    BY <1>8 DEF Answer
  <2>2. s \in {"allowed", "refused"} /\ (s = "allowed" => calls[h].objections = {})
    OBVIOUS
  <2>. HIDE DEF s
  <2>3. MindsAll(calls[h])
    BY <2>1 DEF MindInv, Idle
  <2>4. DOMAIN calls[h] = Fields
    BY <2>3 DEF MindsAll
  <2>5. /\ DOMAIN d = Fields /\ d.stage = s /\ d.call = calls[h].call
        /\ d.judged = calls[h].judged /\ d.settings = calls[h].settings
        /\ d.pending = calls[h].pending /\ d.known = calls[h].known
        /\ d.objections = calls[h].objections
    BY <2>4, StageKeeps
  <2>. HIDE DEF d
  <2>6. MindsAll(d)
    BY <2>1, <2>2, <2>3, <2>5, SameMinds
  <2>. QED
    BY <1>4, <2>1, <2>2, <2>5, <2>6
<1>9. ASSUME NEW h \in Hook, Perform(h) PROVE MindInv'
  <2>. DEFINE n == calls[h].done + 1
              d == [calls[h] EXCEPT !.done = n]
  <2>1. calls[h].stage = "allowed" /\ \E c \in {Idle, d} : calls' = [calls EXCEPT ![h] = c]
    BY <1>0, <1>9, PerformCounts
  <2>2. MindsAll(calls[h])
    BY <2>1 DEF MindInv, Idle
  <2>3. DOMAIN calls[h] = Fields
    BY <2>2 DEF MindsAll
  <2>. HIDE DEF n
  <2>4. /\ DOMAIN d = Fields /\ d.stage = "allowed" /\ d.call = calls[h].call
        /\ d.judged = calls[h].judged /\ d.settings = calls[h].settings
        /\ d.pending = calls[h].pending /\ d.known = calls[h].known
        /\ d.objections = calls[h].objections
    BY <2>1, <2>3, DoneKeeps
  <2>. HIDE DEF d
  <2>5. d.pending = {} \/ ~d.judged
    BY <2>1, <2>2, <2>4 DEF MindsAll
  <2>6. d.judged => d.objections = {}
    BY <2>1, <2>2, <2>4 DEF MindsAll
  <2>7. MindsAll(d)
    <3>1. CASE d.judged
      BY <2>2, <2>4, <2>5, <2>6, <3>1, SameMinds
    <3>2. CASE ~d.judged
      BY <2>4, <3>2 DEF MindsAll
    <3>. QED
      BY <3>1, <3>2
  <2>. QED
    BY <1>4, <2>1, <2>4, <2>7
<1>10. ASSUME NEW h \in Hook, Stop(h) \/ Refuse(h) PROVE MindInv'
  BY <1>4, <1>10 DEF Stop, Refuse
<1>11. CASE EditSettings
  BY <1>3, <1>11 DEF EditSettings
<1>. QED
  BY <1>3, <1>5, <1>6, <1>7, <1>8, <1>9, <1>10, <1>11 DEF Next, vars

-----------------------------------------------------------------------------
\* What an allowed call may do

(* The parser has read the command that an allowed hook performs.           *)
LEMMA PerformedIsRead ==
  ASSUME \A s \in Scene : Plainly(s), WorldInv,
         NEW h \in Hook, NEW c, c = calls[h], c.stage = "allowed", GoesOn(c),
         NEW e, e = Command(c),
         e.do \in {"commit", "stage", "branch", "push", "merge", "request"}
  PROVE  /\ c.call.event = "PreToolUse" /\ c.call.tool = "Bash" /\ c.call.line.parses
         /\ IsList(c.call.line.gits) /\ GitsOf(c.call) = ToSet(c.call.line.gits)
         /\ ReadIn(c.call.line, e)
         /\ e.do = "push" => e.dir \in DOMAIN scene.repos
<1>1. scene \in Scene /\ Plainly(scene)
  BY DEF WorldInv
<1>2. PICK call \in scene.calls : /\ c.call = Reading(call)
                                  /\ \E i \in DOMAIN Effects(call) : e = Effects(call)[i]
  BY PerformsTyped
<1>3. /\ c.call.line = Parse(call.script) /\ c.call.event = call.event
      /\ c.call.tool = call.tool
  BY <1>1, <1>2, ReadingKeeps
<1>4. Effects(call) = call.does
  BY <1>2 DEF Effects
<1>5. PICK i \in DOMAIN call.does : e = call.does[i]
  BY <1>2, <1>4
<1>6. Truthful(call) /\ Housed(scene)
  BY <1>1, <1>2 DEF Plainly
<1>7. /\ c.call.event = "PreToolUse" /\ c.call.tool = "Bash" /\ c.call.line.parses
      /\ IsList(c.call.line.gits) /\ ReadIn(c.call.line, e)
  <2>1. /\ c.call.event = "PreToolUse" /\ c.call.tool = "Bash" /\ c.call.line.parses
        /\ ReadIn(c.call.line, e)
    BY <1>3, <1>5, <1>6 DEF Truthful
  <2>2. c # Idle
    BY DEF Idle
  <2>. QED
    BY <2>1, <2>2, LinesAreLists
<1>8. GitsOf(c.call) = ToSet(c.call.line.gits)
  BY <1>7 DEF GitsOf
<1>9. e.do = "push" => e.dir \in DOMAIN scene.repos
  BY <1>2, <1>5, <1>6 DEF Housed
<1>. QED
  BY <1>7, <1>8, <1>9

(* An allowed call is clear of what its validators forbid.                  *)
LEMMA AllowedIsNotForbidden ==
  ASSUME MindInv, NEW h \in Hook, NEW c, c = calls[h], c.stage = "allowed",
         NEW v \in Minding, Governs(c, v), Applies(v, c.call)
  PROVE  ~Forbids(c, v)
<1>1. MindsAll(c) /\ c.judged
  BY DEF MindInv, Idle, Governs, GovernsSeen
<1>2. v \in ToSet(Order) /\ v \in Registered(c.settings)
  <2>1. v \in ToSet(Order)
    BY DEF Minding, ToSet, Order
  <2>. QED
    BY <2>1 DEF Registered, Governs, GovernsSeen
<1>3. PICK i \in DOMAIN Order : Order[i] = v
  BY <1>2 DEF ToSet
<1>4. Looks(c, i) /\ RuleAnswer(c.settings, Order[i], c.call) = <<>>
  BY <1>2, <1>3 DEF Looks, Governs, GovernsSeen
<1>5. Minds(c, i) /\ c.pending = {} /\ c.objections = {}
  BY <1>1, <1>3 DEF MindsAll
<1>. QED
  BY <1>3, <1>4, <1>5 DEF Minds, Silent

(* A git command of a call is seen by its validator.                        *)
LEMMA GitApplies ==
  ASSUME NEW v \in DOMAIN Subcommand, NEW call, call.event = "PreToolUse",
         NEW g \in GitsOf(call), g.sub = Subcommand[v]
  PROVE  Applies(v, call)
<1>1. v # "bell" /\ v # "branch" /\ v # "secrets" /\ v \notin DOMAIN Phrases
  BY DEF Subcommand, Phrases
<1>2. \E k \in GitsOf(call) : k.sub = Subcommand[v]
  OBVIOUS
<1>. QED
  BY <1>1, <1>2 DEF Applies

LEMMA BranchApplies ==
  ASSUME NEW call, call.event = "PreToolUse", NEW g \in GitsOf(call), AsksForBranch(g)
  PROVE  Applies("branch", call)
<1>1. "branch" \notin DOMAIN Subcommand /\ "branch" \notin DOMAIN Phrases
  BY DEF Subcommand, Phrases
<1>2. \E k \in GitsOf(call) : AsksForBranch(k)
  OBVIOUS
<1>. QED
  BY <1>1, <1>2 DEF Applies

(* A commit without the git hooks is seen in the flags of the commit.       *)
LEMMA UnverifiedIsForbidden ==
  ASSUME \A s \in Scene : Plainly(s), WorldInv,
         NEW h \in Hook, NEW c, c = calls[h], c.stage = "allowed", GoesOn(c),
         NEW e, e = Command(c), e.do = "commit", e.plain, e.unverified
  PROVE  Applies("no_verify", c.call) /\ Forbids(c, "no_verify")
<1>. DEFINE line == c.call.line
<1>1. /\ c.call.event = "PreToolUse" /\ line.parses /\ GitsOf(c.call) = ToSet(line.gits)
      /\ ReadIn(line, e)
  BY PerformedIsRead
<1>2. PICK i \in Calling(line, "commit") : /\ FirstWordIs(line.gits[i], "commit")
                                           /\ HasAnyFlag(line.gits[i], {"--no-verify", "-n"})
  BY <1>1 DEF ReadIn
<1>3. i \in DOMAIN line.gits /\ line.gits[i].sub = "commit"
  BY <1>2 DEF Calling
<1>4. line.gits[i] \in GitsOf(c.call)
  BY <1>1, <1>3 DEF ToSet
<1>5. Applies("no_verify", c.call)
  BY <1>1, <1>3, <1>4, GitApplies DEF Subcommand
<1>6. NoVerify(line) = FailAs("GIT021")
  BY <1>1, <1>2, <1>3 DEF NoVerify
<1>7. FailAs("GIT021").block
  BY DEF FailAs
<1>. QED
  BY <1>5, <1>6, <1>7 DEF Forbids

(* Of what an add stages the blocked directory is among its paths.          *)
LEMMA StagedIsForbidden ==
  ASSUME \A s \in Scene : Plainly(s), WorldInv,
         NEW h \in Hook, NEW c, c = calls[h], c.stage = "allowed", GoesOn(c),
         NEW e, e = Command(c), e.do = "stage", e.plain,
         NEW dir \in e.dirs, dir \in ListSetting(Cfg(c, "add"), "blocked_patterns", {"tmp"})
  PROVE  Applies("add", c.call) /\ Forbids(c, "add")
<1>. DEFINE line == c.call.line
            patterns == ListSetting(Cfg(c, "add"), "blocked_patterns", {"tmp"})
<1>1. /\ c.call.event = "PreToolUse" /\ line.parses /\ GitsOf(c.call) = ToSet(line.gits)
      /\ ReadIn(line, e)
  BY PerformedIsRead
<1>2. PICK i \in Calling(line, "add") :
         /\ FirstWordIs(line.gits[i], "add")
         /\ \E path \in AddedPaths(Tail(line.gits[i].words)) : Blocked(path, {dir})
  BY <1>1 DEF ReadIn
<1>3. i \in DOMAIN line.gits /\ line.gits[i].sub = "add"
  BY <1>2 DEF Calling
<1>4. line.gits[i] \in GitsOf(c.call)
  BY <1>1, <1>3 DEF ToSet
<1>5. Applies("add", c.call)
  BY <1>1, <1>3, <1>4, GitApplies DEF Subcommand
<1>6. \E path \in AddedPaths(Tail(line.gits[i].words)) : Blocked(path, patterns)
  BY <1>2 DEF Blocked
<1>7. AddForbids(Cfg(c, "add"), line) = FailAs("GIT019")
  BY <1>1, <1>2, <1>3, <1>6 DEF AddForbids
<1>8. FailAs("GIT019").block
  BY DEF FailAs
<1>. QED
  BY <1>5, <1>7, <1>8 DEF Forbids

(* A command that creates a branch names it.                                *)
LEMMA BadBranchIsForbidden ==
  ASSUME \A s \in Scene : Plainly(s), WorldInv,
         NEW h \in Hook, NEW c, c = calls[h], c.stage = "allowed", GoesOn(c),
         NEW e, e = Command(c), e.do = "branch", e.new, BadName(Cfg(c, "branch"), e.name)
  PROVE  Applies("branch", c.call) /\ Forbids(c, "branch")
<1>. DEFINE line == c.call.line
<1>1. /\ c.call.event = "PreToolUse" /\ line.parses /\ GitsOf(c.call) = ToSet(line.gits)
      /\ ReadIn(line, e)
  BY PerformedIsRead
<1>2. PICK i \in DOMAIN line.gits : /\ CreatesBranch(line.gits[i])
                                    /\ BranchName(line.gits[i]) = e.name /\ e.name # ""
  BY <1>1 DEF ReadIn
<1>. DEFINE g == line.gits[i]
<1>3. g \in ToSet(line.gits)
  BY DEF ToSet
<1>. HIDE DEF g, line
<1>4. AsksForBranch(g)
  BY <1>2 DEF AsksForBranch, CreatesBranch, g, HasAnyFlag
<1>5. Applies("branch", c.call)
  BY <1>1, <1>3, <1>4, BranchApplies
<1>6. Branch(Cfg(c, "branch"), line) = FailAs("GIT020")
  BY <1>1, <1>2, <1>3 DEF Branch, g
<1>7. FailAs("GIT020").block
  BY DEF FailAs
<1>. QED
  BY <1>5, <1>6, <1>7 DEF Forbids, line

(* A push to a blocked remote is one by what it names, or by the branch.    *)
LEMMA BlockedPushIsForbidden ==
  ASSUME \A s \in Scene : Plainly(s), WorldInv,
         NEW h \in Hook, NEW c, c = calls[h], c.stage = "allowed", GoesOn(c),
         NEW e, e = Command(c), e.do = "push",
         e.remote # "" \/ (e.dir = "" /\ c.known["tracking"] = repos[""].tracking),
         Destination(e) \in Setting(Cfg(c, "push"), "blocked_remotes", {})
  PROVE  Applies("push", c.call) /\ Forbids(c, "push")
<1>. DEFINE line == c.call.line
            B == Setting(Cfg(c, "push"), "blocked_remotes", {})
<1>1. /\ c.call.event = "PreToolUse" /\ line.parses /\ GitsOf(c.call) = ToSet(line.gits)
      /\ ReadIn(line, e) /\ e.dir \in DOMAIN scene.repos
  BY PerformedIsRead
<1>2. PICK i \in Calling(line, "push") :
         LET g == line.gits[i] IN
         /\ g.dir = e.dir
         /\ IF e.remote = "" THEN g.args = <<>> ELSE g.args # <<>> /\ g.args[1] = e.remote
  BY <1>1 DEF ReadIn
<1>. DEFINE g == line.gits[i]
<1>3. g \in ToSet(line.gits) /\ g.sub = "push"
  BY <1>2 DEF Calling, ToSet
<1>4. Applies("push", c.call)
  BY <1>1, <1>3, GitApplies DEF Subcommand
<1>. HIDE DEF B, g
<1>5. \/ g.args # <<>> /\ g.args[1] \in B
      \/ g.args = <<>> /\ g.dir = Here /\ KnownDestination(c) \in B
  <2>1. CASE e.remote # ""
    BY <1>2, <2>1 DEF Destination, B, g
  <2>2. CASE e.remote = ""
    <3>1. Destination(e) = KnownDestination(c)
      BY <2>2 DEF Destination, KnownDestination
    <3>. QED
      BY <1>2, <2>2, <3>1 DEF B, g, Here
  <2>. QED
    BY <2>1, <2>2
<1>6. g.dir \in DOMAIN scene.repos
  BY <1>1, <1>2 DEF g
<1>7. PushForbids(c, Cfg(c, "push"), line)
  BY <1>2, <1>5, <1>6 DEF PushForbids, g, B
<1>. QED
  BY <1>4, <1>7 DEF Forbids

(* Of an allowed line every command is clear of what its validator forbids, *)
(* wherever it stands in the line and whatever the other hooks allow in the *)
(* meantime, in scenes whose commands the parser reads.                     *)
THEOREM ChainsStayClear ==
  ASSUME \A s \in Scene : Plainly(s)
  PROVE  Spec => ChainsAreClear
<1>. DEFINE Inv == WorldInv /\ HousedInv /\ MindInv
            Step == \A h \in Hook : Performs(h) =>
              LET c == calls[h]  e == Command(c) IN
              /\ Governs(c, "no_verify") /\ e.do = "commit" /\ e.plain => ~e.unverified
              /\ Governs(c, "add") /\ e.do = "stage" /\ e.plain =>
                    e.dirs \cap ListSetting(Cfg(c, "add"), "blocked_patterns", {"tmp"}) = {}
              /\ Governs(c, "branch") /\ e.do = "branch" /\ e.new =>
                    ~BadName(Cfg(c, "branch"), e.name)
<1>1. Init => Inv
  BY InitWorld, InitHoused, InitMind
<1>2. Inv /\ [Next]_vars => Inv'
  BY WorldKept, HousedKept, MindKept
<1>3. Inv => Step
  <2>1. SUFFICES ASSUME Inv, NEW h \in Hook, Performs(h),
                        NEW c, c = calls[h], NEW e, e = Command(c)
                 PROVE  /\ Governs(c, "no_verify") /\ e.do = "commit" /\ e.plain => ~e.unverified
                        /\ Governs(c, "add") /\ e.do = "stage" /\ e.plain =>
                              e.dirs \cap ListSetting(Cfg(c, "add"), "blocked_patterns", {"tmp"}) = {}
                        /\ Governs(c, "branch") /\ e.do = "branch" /\ e.new =>
                              ~BadName(Cfg(c, "branch"), e.name)
    OBVIOUS
  <2>2. c.stage = "allowed" /\ GoesOn(c)
    BY <2>1 DEF Performs
  <2>3. {"no_verify", "add", "branch"} \subseteq Minding
    BY DEF Minding
  <2>4. ASSUME Governs(c, "no_verify"), e.do = "commit", e.plain, e.unverified PROVE FALSE
    BY <2>1, <2>2, <2>3, <2>4, UnverifiedIsForbidden, AllowedIsNotForbidden
  <2>5. ASSUME Governs(c, "add"), e.do = "stage", e.plain, NEW dir \in e.dirs,
               dir \in ListSetting(Cfg(c, "add"), "blocked_patterns", {"tmp"})
        PROVE  FALSE
    BY <2>1, <2>2, <2>3, <2>5, StagedIsForbidden, AllowedIsNotForbidden
  <2>6. ASSUME Governs(c, "branch"), e.do = "branch", e.new, BadName(Cfg(c, "branch"), e.name)
        PROVE  FALSE
    BY <2>1, <2>2, <2>3, <2>6, BadBranchIsForbidden, AllowedIsNotForbidden
  <2>. QED
    BY <2>4, <2>5, <2>6
<1>4. ChainsAreClear <=> [][Step]_vars
  BY DEF ChainsAreClear
<1>. HIDE DEF Inv, Step
<1>. QED
  BY <1>1, <1>2, <1>3, <1>4, PTL DEF Spec

(* An allowed push goes to no blocked remote, in scenes whose commands the  *)
(* parser reads and whose hooks run in repositories: what the push hook     *)
(* knows of the branch it has asked for itself, and remembers.              *)
THEOREM PushesStayAllowed ==
  ASSUME \A s \in Scene : Plainly(s)
  PROVE  Spec => PushesAvoidBlocked
<1>. DEFINE Inv == WorldInv /\ HousedInv /\ MindInv
            Step == \A h \in Hook : Performs(h) =>
              LET c == calls[h]  e == Command(c) IN
              /\ Governs(c, "push") /\ e.do = "push"
              /\ \/ e.remote # ""
                 \/ e.dir = "" /\ c.known["tracking"] = repos[""].tracking
              => Destination(e) \notin Setting(Cfg(c, "push"), "blocked_remotes", {})
<1>1. Init => Inv
  BY InitWorld, InitHoused, InitMind
<1>2. Inv /\ [Next]_vars => Inv'
  BY WorldKept, HousedKept, MindKept
<1>3. Inv => Step
  <2>1. SUFFICES ASSUME Inv, NEW h \in Hook, Performs(h),
                        NEW c, c = calls[h], NEW e, e = Command(c),
                        Governs(c, "push"), e.do = "push",
                        \/ e.remote # ""
                        \/ e.dir = "" /\ c.known["tracking"] = repos[""].tracking,
                        Destination(e) \in Setting(Cfg(c, "push"), "blocked_remotes", {})
                 PROVE  FALSE
    OBVIOUS
  <2>2. c.stage = "allowed" /\ GoesOn(c)
    BY <2>1 DEF Performs
  <2>3. "push" \in Minding
    BY DEF Minding
  <2>4. Applies("push", c.call) /\ Forbids(c, "push")
    BY <2>1, <2>2, BlockedPushIsForbidden
  <2>. QED
    BY <2>1, <2>2, <2>3, <2>4, AllowedIsNotForbidden
<1>4. PushesAvoidBlocked <=> [][Step]_vars
  BY DEF PushesAvoidBlocked
<1>. HIDE DEF Inv, Step
<1>. QED
  BY <1>1, <1>2, <1>3, <1>4, PTL DEF Spec

-----------------------------------------------------------------------------
\* Messages

(* A message that is not refused breaks none of the rules.                  *)
LEMMA FaultlessMessage ==
  ASSUME NEW cfg, NEW text, text.title.form # "empty", ~ValidateMessage(cfg, text).block,
         NEW ref \in {"GIT004", "GIT005", "GIT011", "GIT012", "GIT013", "GIT014"}
  PROVE  ~Fault(cfg, text, ref)
<1>1. ValidateMessage(cfg, text) = Refused(Faults(cfg, text))
  BY DEF ValidateMessage
<1>2. Faults(cfg, text) # {} => Refused(Faults(cfg, text)).block
  <2>1. \A r : FailAs(r).block
    BY DEF FailAs
  <2>. QED
    BY <2>1 DEF Refused
<1>3. Faults(cfg, text) = {}
  BY <1>1, <1>2
<1>4. ref \in ToSet(ReferencePriority)
  BY DEF ToSet, ReferencePriority
<1>. QED
  BY <1>3, <1>4 DEF Faults

(* The rules of a body are those of a message.                              *)
LEMMA FaultsOfBody ==
  ASSUME NEW cfg, NEW text
  PROVE  /\ BodyFault(cfg, text, "GIT005") <=> LongBodyLine(text, LineLimit(cfg))
         /\ BodyFault(cfg, text, "GIT011") <=>
              Setting(cfg, "block_pr_references", TRUE) /\ "pr" \in text.finds
         /\ BodyFault(cfg, text, "GIT012") <=>
              Setting(cfg, "block_ai_attribution", TRUE) /\ "claude" \in text.finds
         /\ BodyFault(cfg, text, "GIT014") <=>
              ListSetting(cfg, "forbidden_patterns", ForbiddenByDefault) \cap text.finds # {}
BY DEF BodyFault

LEMMA FaultsOfMessage ==
  ASSUME NEW cfg, NEW text
  PROVE  /\ Fault(cfg, text, "GIT004") <=>
              TooLong(text.title, text.title.runes, Setting(cfg, "title_max_length", 50),
                      Setting(cfg, "allow_unlimited_revert_title", TRUE))
         /\ Fault(cfg, text, "GIT013") <=>
              /\ Setting(cfg, "conventional_commits", TRUE)
              /\ NotConventional(text.title, ListSetting(cfg, "valid_types", DefaultTypes),
                                 Setting(cfg, "require_scope", TRUE))
         /\ BodyFault(cfg, text, "GIT005") => Fault(cfg, text, "GIT005")
         /\ \A ref \in {"GIT011", "GIT012", "GIT014"} :
               Fault(cfg, text, ref) <=> BodyFault(cfg, text, ref)
BY DEF Fault

(* A title and a text without a fault conform to the settings.              *)
LEMMA FaultlessConforms ==
  ASSUME NEW cfg, NEW title, NEW size, NEW text,
         Setting(cfg, "message_enabled", TRUE) =>
            /\ ~TooLong(title, size, Setting(cfg, "title_max_length", 50),
                        Setting(cfg, "allow_unlimited_revert_title", TRUE))
            /\ ~(/\ Setting(cfg, "conventional_commits", TRUE)
                 /\ NotConventional(title, ListSetting(cfg, "valid_types", DefaultTypes),
                                    Setting(cfg, "require_scope", TRUE)))
            /\ \A ref \in {"GIT005", "GIT011", "GIT012", "GIT014"} : ~BodyFault(cfg, text, ref)
  PROVE  Conforms(cfg, title, size, text)
<1>. SUFFICES ASSUME Setting(cfg, "message_enabled", TRUE)
              PROVE  Conforms(cfg, title, size, text)
  BY DEF Conforms
<1>1. Setting(cfg, "conventional_commits", TRUE) /\ title.form # "revert" =>
        /\ title.form = "conventional"
        /\ title.type \in ListSetting(cfg, "valid_types", DefaultTypes)
        /\ Setting(cfg, "require_scope", TRUE) => title.scope # ""
  BY Zenon DEF NotConventional, ValidTitle
<1>2. title.form # "revert" => ~(size > Setting(cfg, "title_max_length", 50))
  BY DEF TooLong
<1>3. \A i \in 2..Len(text.lines) :
         LET line == text.lines[i] IN line.blank \/ line.url \/ ~(line.bytes > LineLimit(cfg))
  BY FaultsOfBody DEF LongBodyLine
<1>4. /\ Setting(cfg, "block_pr_references", TRUE) => "pr" \notin text.finds
      /\ Setting(cfg, "block_ai_attribution", TRUE) => "claude" \notin text.finds
      /\ ListSetting(cfg, "forbidden_patterns", ForbiddenByDefault) \cap text.finds = {}
  BY FaultsOfBody
<1>. QED
  BY Zenon, <1>1, <1>2, <1>3, <1>4 DEF Conforms

(* An allowed commit has its flags, and a message that conforms.            *)
LEMMA CommitConforms ==
  ASSUME NEW cfg, NEW line, line.parses, NEW e, CommitReadIn(line, e), ~CommitForbids(cfg, line)
  PROVE  LET text == TextOf(e.message) IN
         /\ Conforms(cfg, text.title, text.title.runes, text)
         /\ {"-s", "-S"} \cap ListSetting(cfg, "required_flags", {"-s", "-S"}) \subseteq e.trailers
<1>. DEFINE g == FirstCommit(line)
            file == FirstValue(g, <<"-F", "--file">>)
            inline == FirstValue(g, <<"-m", "--message">>)
            text == TextOf(e.message)
<1>1. /\ Calling(line, "commit") # {}
      /\ file # Here \/ inline # Here
      /\ Message(file, inline) = text
      /\ file # Here => text # Unreadable
      /\ text.title.form # "empty"
      /\ \A f \in {"-s", "-S"} : HasAnyFlag(g, {f} \cup LongForm(f)) => f \in e.trailers
  BY Zenon DEF CommitReadIn, Here
<1>2. /\ MissingFlags(cfg, g) = {}
      /\ Setting(cfg, "message_enabled", TRUE) => ~CheckCommitMessage(cfg, g).block
  BY <1>1 DEF CommitForbids
<1>3. CheckCommitMessage(cfg, g) = CheckMessage(cfg, file, inline)
  BY DEF CheckCommitMessage
<1>. HIDE DEF g, file, inline, text
<1>4. CheckMessage(cfg, file, inline) = ValidateMessage(cfg, text)
  BY Zenon, <1>1 DEF CheckMessage, Here
<1>5. Conforms(cfg, text.title, text.title.runes, text)
  <2>1. ASSUME Setting(cfg, "message_enabled", TRUE),
               NEW ref \in {"GIT004", "GIT005", "GIT011", "GIT012", "GIT013", "GIT014"}
        PROVE  ~Fault(cfg, text, ref)
    BY <1>1, <1>2, <1>3, <1>4, <2>1, FaultlessMessage
  <2>. QED
    BY <2>1, FaultsOfMessage, FaultlessConforms
<1>6. {"-s", "-S"} \cap ListSetting(cfg, "required_flags", {"-s", "-S"}) \subseteq e.trailers
  BY <1>1, <1>2 DEF MissingFlags
<1>. QED
  BY <1>5, <1>6 DEF text

(* An allowed merge commits a message that conforms.                        *)
LEMMA MergeConforms ==
  ASSUME NEW cfg, NEW line, line.parses, NEW e, MergeReadIn(line, e), ~MergeForbids(cfg, line),
         NEW pr, pr = PullRequest(e.number), pr # NoAnswer,
         NEW title, title = RequestText(pr.title).title
  PROVE  Conforms(cfg, title, title.bytes, RequestText(pr.body))
<1>. DEFINE m == FirstMerge(line)
            text == RequestText(pr.body)
<1>1. /\ Merges(line) # {} /\ m.number = e.number /\ m.number # 0
      /\ "auto" \notin m.on /\ IsSquashMerge(m)
  BY DEF MergeReadIn
<1>2. PullRequest(m.number) = pr
  BY <1>1
<1>3. Setting(cfg, "message_enabled", TRUE) =>
        ~MergeTitleRefused(cfg, title) /\ ~(pr.body # Here /\ MergeBodyRefused(cfg, text))
  BY <1>1, <1>2 DEF MergeForbids
<1>. HIDE DEF m, text
<1>4. ~MergeTitleRefused(cfg, title) =>
        /\ ~TooLong(title, title.bytes, Setting(cfg, "title_max_length", 50),
                    Setting(cfg, "allow_unlimited_revert_title", TRUE))
        /\ ~(/\ Setting(cfg, "conventional_commits", TRUE)
             /\ NotConventional(title, ListSetting(cfg, "valid_types", DefaultTypes),
                                Setting(cfg, "require_scope", TRUE)))
  BY DEF MergeTitleRefused
<1>5. ASSUME NEW ref \in {"GIT005", "GIT011", "GIT012", "GIT014"},
             ~(pr.body # Here /\ MergeBodyRefused(cfg, text))
      PROVE  ~BodyFault(cfg, text, ref)
  <2>1. CASE pr.body # Here
    BY <1>5, <2>1 DEF MergeBodyRefused
  <2>2. CASE pr.body = Here
    <3>1. RequestText(Here).lines = <<>> /\ RequestText(Here).finds = {}
      BY Zenon, EmptyTextAssumption DEF Here
    <3>2. text.lines = <<>> /\ text.finds = {}
      BY <2>2, <3>1 DEF text
    <3>3. ~LongBodyLine(text, LineLimit(cfg))
      BY <3>2 DEF LongBodyLine
    <3>. QED
      BY <1>5, <3>2, <3>3, FaultsOfBody
  <2>. QED
    BY <2>1, <2>2
<1>. QED
  BY <1>3, <1>4, <1>5, FaultlessConforms DEF text

(* A request that is opened has a title of the right form and a motivation. *)
LEMMA RequestConforms ==
  ASSUME NEW cfg, NEW line, line.parses, NEW e, RequestReadIn(line, e),
         ~RequestCreate(cfg, line).block
  PROVE  /\ Setting(cfg, "title_conventional_commits", TRUE) =>
              RequestText(e.title).title.form \in {"conventional", "revert"}
         /\ IF e.body = "" THEN ~Setting(cfg, "require_body", TRUE)
            ELSE RequestOf(e.body).motivation
<1>. DEFINE words == LineWords(line)
            base == QuotedAfter(words, "--base")
            label == QuotedAfter(words, "--label")
            title == RequestText(e.title).title
<1>1. /\ Holds(line, "pr", "create") /\ e.title # Here
      /\ QuotedAfter(words, "--title") = e.title /\ BodyText(words) = e.body
  BY Zenon DEF RequestReadIn, Here
<1>. HIDE DEF words
<1>2. RequestCreate(cfg, line) = ValidateRequest(cfg, e.title, e.body, base, label)
  BY <1>1 DEF RequestCreate, words
<1>. HIDE DEF base, label
<1>3. ~RequestRefused(cfg, e.title, e.body, base, label)
  <2>1. FailAs("GIT023").block
    BY DEF FailAs
  <2>. QED
    BY <1>2, <2>1 DEF ValidateRequest
<1>4. /\ ~TitleRefused(cfg, title)
      /\ IF e.body = Here THEN ~Setting(cfg, "require_body", TRUE)
         ELSE ~BodyRefused(cfg, RequestOf(e.body))
  BY Zenon, <1>1, <1>3 DEF RequestRefused, Here
<1>5. Setting(cfg, "title_conventional_commits", TRUE) =>
        title.form \in {"conventional", "revert"}
  BY <1>4 DEF TitleRefused, ValidTitle
<1>6. IF e.body = Here THEN ~Setting(cfg, "require_body", TRUE)
      ELSE RequestOf(e.body).motivation
  BY <1>4 DEF BodyRefused
<1>. QED
  BY Zenon, <1>5, <1>6 DEF Here

(* The parsers have read the message of a command that an allowed hook      *)
(* performs.                                                                *)
LEMMA MessageIsRead ==
  ASSUME \A s \in Scene : \A call \in s.calls : Worded(call), WorldInv,
         NEW h \in Hook, NEW c, c = calls[h], c.stage = "allowed", GoesOn(c),
         NEW e, e = Command(c), e.do \in {"commit", "merge", "request"}
  PROVE  /\ FirstIs(c, "commit") => CommitReadIn(c.call.line, e)
         /\ FirstIs(c, "merge") /\ e.squash =>
              MergeReadIn(c.call.line, e) /\ "gh pr merge" \in c.call.says
         /\ e.do = "request" /\ Len(Effects(c.call)) = 1 =>
              RequestReadIn(c.call.line, e) /\ "gh pr create" \in c.call.says
<1>1. scene \in Scene /\ c.done \in Nat
  BY PerformsTyped DEF WorldInv
<1>2. PICK call \in scene.calls : /\ c.call = Reading(call)
                                  /\ \E i \in DOMAIN Effects(call) : e = Effects(call)[i]
  BY PerformsTyped
<1>. DEFINE i == c.done + 1
            line == Parse(call.script)
            First == \A j \in 1..i - 1 : call.does[j].do # call.does[i].do
<1>3. /\ c.call.line = line /\ c.call.says = call.says /\ c.call.does = call.does
      /\ Effects(c.call) = Effects(call)
  BY <1>1, <1>2, ReadingKeeps
<1>4. Effects(call) = call.does
  BY <1>2 DEF Effects
<1>5. i \in DOMAIN call.does /\ e = call.does[i]
  <2>1. Len(Effects(call)) \in Nat /\ DOMAIN Effects(call) = 1..Len(Effects(call))
    BY <1>1, <1>2, EffectsAreList
  <2>2. c.done < Len(Effects(call))
    BY <1>3 DEF GoesOn
  <2>. QED
    BY <1>1, <1>3, <1>4, <2>1, <2>2 DEF Command
<1>6. \A kind : FirstIs(c, kind) => e.do = kind /\ First
  <2>. SUFFICES ASSUME NEW kind, FirstIs(c, kind) PROVE e.do = kind /\ First
    OBVIOUS
  <2>1. i - 1 = c.done
    BY <1>1
  <2>. QED
    BY <1>3, <1>4, <1>5, <2>1 DEF FirstIs
<1>7. Worded(call)
  BY <1>1, <1>2
<1>. HIDE DEF i, First
<1>8. /\ e.do = "commit" /\ First => CommitReadIn(line, e)
      /\ e.do = "merge" /\ First /\ e.squash =>
           MergeReadIn(line, e) /\ "gh pr merge" \in call.says
      /\ e.do = "request" /\ Len(call.does) = 1 =>
           RequestReadIn(line, e) /\ "gh pr create" \in call.says
  BY <1>5, <1>7 DEF Worded, First
<1>. QED
  BY <1>3, <1>4, <1>6, <1>8

(* A call is seen by the validator of what it says.                         *)
LEMMA PhraseApplies ==
  ASSUME NEW v \in {"pr", "merge"}, NEW call, call.event = "PreToolUse", call.tool = "Bash",
         Phrases[v] \cap call.says # {}
  PROVE  Applies(v, call)
<1>1. v # "bell" /\ v # "branch" /\ v \notin DOMAIN Subcommand /\ v \in DOMAIN Phrases
  BY DEF Subcommand, Phrases
<1>. QED
  BY <1>1 DEF Applies

(* The validator of commits looks at a line whose commit it reads.          *)
LEMMA CommitApplies ==
  ASSUME NEW call, call.event = "PreToolUse", NEW e, CommitReadIn(call.line, e),
         GitsOf(call) = ToSet(call.line.gits)
  PROVE  Applies("commit", call)
<1>1. PICK i \in Calling(call.line, "commit") : TRUE
  BY DEF CommitReadIn
<1>2. i \in DOMAIN call.line.gits /\ call.line.gits[i].sub = "commit"
  BY <1>1 DEF Calling
<1>3. call.line.gits[i] \in GitsOf(call)
  BY <1>2 DEF ToSet
<1>. QED
  BY <1>2, <1>3, GitApplies DEF Subcommand

(* The messages an allowed hook passes conform to its settings.             *)
LEMMA CommitPassed ==
  ASSUME \A s \in Scene : Plainly(s) /\ \A call \in s.calls : Worded(call), WorldInv, MindInv,
         NEW h \in Hook, NEW c, c = calls[h], c.stage = "allowed", GoesOn(c),
         NEW e, e = Command(c), Governs(c, "commit"), FirstIs(c, "commit")
  PROVE  LET text == TextOf(e.message)  cfg == Cfg(c, "commit") IN
         /\ Conforms(cfg, text.title, text.title.runes, text)
         /\ {"-s", "-S"} \cap ListSetting(cfg, "required_flags", {"-s", "-S"}) \subseteq e.trailers
<1>1. e.do = "commit"
  BY DEF FirstIs
<1>2. CommitReadIn(c.call.line, e)
  BY <1>1, MessageIsRead
<1>3. /\ c.call.event = "PreToolUse" /\ c.call.line.parses
      /\ GitsOf(c.call) = ToSet(c.call.line.gits)
  BY <1>1, PerformedIsRead
<1>4. Applies("commit", c.call)
  BY <1>2, <1>3, CommitApplies
<1>5. ~CommitForbids(Cfg(c, "commit"), c.call.line)
  BY <1>4, AllowedIsNotForbidden DEF Forbids, Minding
<1>. QED
  BY <1>2, <1>3, <1>5, CommitConforms

LEMMA MergePassed ==
  ASSUME \A s \in Scene : Plainly(s) /\ \A call \in s.calls : Worded(call), WorldInv, MindInv,
         NEW h \in Hook, NEW c, c = calls[h], c.stage = "allowed", GoesOn(c),
         NEW e, e = Command(c), Governs(c, "merge"), FirstIs(c, "merge"), e.squash,
         NEW pr, pr = PullRequest(e.number), pr # NoAnswer,
         NEW title, title = RequestText(pr.title).title
  PROVE  Conforms(Cfg(c, "merge"), title, title.bytes, RequestText(pr.body))
<1>1. e.do = "merge"
  BY DEF FirstIs
<1>2. MergeReadIn(c.call.line, e) /\ "gh pr merge" \in c.call.says
  BY <1>1, MessageIsRead
<1>3. c.call.event = "PreToolUse" /\ c.call.tool = "Bash" /\ c.call.line.parses
  BY <1>1, PerformedIsRead
<1>4. Applies("merge", c.call)
  BY <1>2, <1>3, PhraseApplies DEF Phrases
<1>5. ~MergeForbids(Cfg(c, "merge"), c.call.line)
  BY <1>4, AllowedIsNotForbidden DEF Forbids, Minding
<1>. QED
  BY <1>2, <1>3, <1>5, MergeConforms

LEMMA RequestPassed ==
  ASSUME \A s \in Scene : Plainly(s) /\ \A call \in s.calls : Worded(call), WorldInv, MindInv,
         NEW h \in Hook, NEW c, c = calls[h], c.stage = "allowed", GoesOn(c),
         NEW e, e = Command(c), Governs(c, "pr"), e.do = "request", Len(Effects(c.call)) = 1
  PROVE  LET cfg == Cfg(c, "pr") IN
         /\ Setting(cfg, "title_conventional_commits", TRUE) =>
              RequestText(e.title).title.form \in {"conventional", "revert"}
         /\ IF e.body = "" THEN ~Setting(cfg, "require_body", TRUE)
            ELSE RequestOf(e.body).motivation
<1>1. RequestReadIn(c.call.line, e) /\ "gh pr create" \in c.call.says
  BY MessageIsRead
<1>2. c.call.event = "PreToolUse" /\ c.call.tool = "Bash" /\ c.call.line.parses
  BY PerformedIsRead
<1>3. Applies("pr", c.call)
  BY <1>1, <1>2, PhraseApplies DEF Phrases
<1>4. ~RequestCreate(Cfg(c, "pr"), c.call.line).block
  BY <1>3, AllowedIsNotForbidden DEF Forbids, Minding
<1>. QED
  BY Zenon, <1>1, <1>2, <1>4, RequestConforms

(* The message of the first commit of an allowed line, of the first squash  *)
(* merge and of a request of its own obeys the settings its hook loaded, in *)
(* scenes whose messages the parsers read.                                  *)
THEOREM MessagesStayConform ==
  ASSUME \A s \in Scene : Plainly(s) /\ \A call \in s.calls : Worded(call)
  PROVE  Spec => MessagesConform
<1>. DEFINE Inv == WorldInv /\ HousedInv /\ MindInv
            Committed(c, e) ==
              LET text == TextOf(e.message)  cfg == Cfg(c, "commit") IN
              /\ Conforms(cfg, text.title, text.title.runes, text)
              /\ {"-s", "-S"} \cap ListSetting(cfg, "required_flags", {"-s", "-S"})
                    \subseteq e.trailers
            Merged(c, e) ==
              LET pr == PullRequest(e.number)  title == RequestText(pr.title).title IN
              pr # NoAnswer =>
                  Conforms(Cfg(c, "merge"), title, title.bytes, RequestText(pr.body))
            Opened(c, e) ==
              LET cfg == Cfg(c, "pr") IN
              /\ Setting(cfg, "title_conventional_commits", TRUE) =>
                    RequestText(e.title).title.form \in {"conventional", "revert"}
              /\ IF e.body = "" THEN ~Setting(cfg, "require_body", TRUE)
                 ELSE RequestOf(e.body).motivation
            Step == \A h \in Hook : Performs(h) =>
              LET c == calls[h]  e == Command(c) IN
              /\ Governs(c, "commit") /\ FirstIs(c, "commit") => Committed(c, e)
              /\ Governs(c, "merge") /\ FirstIs(c, "merge") /\ e.squash => Merged(c, e)
              /\ Governs(c, "pr") /\ e.do = "request" /\ Len(Effects(c.call)) = 1 => Opened(c, e)
<1>1. Init => Inv
  BY InitWorld, InitHoused, InitMind
<1>2. Inv /\ [Next]_vars => Inv'
  BY WorldKept, HousedKept, MindKept
<1>3. Inv => Step
  <2>1. SUFFICES ASSUME Inv, NEW h \in Hook, Performs(h),
                        NEW c, c = calls[h], NEW e, e = Command(c)
                 PROVE  /\ Governs(c, "commit") /\ FirstIs(c, "commit") => Committed(c, e)
                        /\ Governs(c, "merge") /\ FirstIs(c, "merge") /\ e.squash => Merged(c, e)
                        /\ Governs(c, "pr") /\ e.do = "request" /\ Len(Effects(c.call)) = 1 =>
                              Opened(c, e)
    <3>. HIDE DEF Inv, Committed, Merged, Opened
    <3>. QED
      OBVIOUS
  <2>2. c.stage = "allowed" /\ GoesOn(c)
    BY <2>1 DEF Performs
  <2>3. ASSUME Governs(c, "commit"), FirstIs(c, "commit") PROVE Committed(c, e)
    BY <2>1, <2>2, <2>3, CommitPassed
  <2>4. ASSUME Governs(c, "merge"), FirstIs(c, "merge"), e.squash PROVE Merged(c, e)
    BY <2>1, <2>2, <2>4, MergePassed
  <2>5. ASSUME Governs(c, "pr"), e.do = "request", Len(Effects(c.call)) = 1 PROVE Opened(c, e)
    BY Zenon, <2>1, <2>2, <2>5, RequestPassed
  <2>. QED
    BY <2>3, <2>4, <2>5
<1>4. MessagesConform <=> [][Step]_vars
  BY DEF MessagesConform
<1>. HIDE DEF Inv, Step
<1>. QED
  BY <1>1, <1>2, <1>3, <1>4, PTL DEF Spec


-----------------------------------------------------------------------------
\* What the validators answer

\* No reference at all.
None == ""

Result == [passed : BOOLEAN, block : BOOLEAN, ref : {None} \cup Codes]

LEMMA CodedResults ==
  ASSUME NEW r \in Codes PROVE FailAs(r) \in Result /\ WarnAs(r) \in Result
BY DEF FailAs, WarnAs, Result

LEMMA PlainResults ==
  /\ Pass \in Result /\ Warn \in Result /\ Fail \in Result
  /\ \A r \in Codes : FailAs(r) \in Result /\ WarnAs(r) \in Result
<1>1. Pass.ref = None /\ Warn.ref = None /\ Fail.ref = None
  BY DEF Pass, Warn, Fail, None
<1>2. Pass \in Result /\ Warn \in Result /\ Fail \in Result
  BY Zenon, <1>1 DEF Pass, Warn, Fail, Result, None
<1>. QED
  BY <1>2, CodedResults

(* A message is refused under a reference.                                  *)
LEMMA RefusedIsResult ==
  ASSUME NEW refs, refs \subseteq ToSet(ReferencePriority) PROVE Refused(refs) \in Result
<1>1. /\ DOMAIN ReferencePriority \in SUBSET Nat
      /\ \A i \in DOMAIN ReferencePriority : ReferencePriority[i] \in Codes
  BY DEF ReferencePriority, Codes
<1>2. CASE refs # {}
  <2>. DEFINE T == {i \in DOMAIN ReferencePriority : ReferencePriority[i] \in refs}
  <2>1. T \in SUBSET Nat
    BY <1>1
  <2>2. T # {}
    BY <1>2 DEF ToSet
  <2>. HIDE DEF T
  <2>3. Min(T) \in T
    BY <2>1, <2>2, LeastPosition
  <2>4. PrimaryReference(refs) = ReferencePriority[Min(T)]
    BY DEF PrimaryReference, T
  <2>5. PrimaryReference(refs) \in Codes
    BY <1>1, <2>3, <2>4 DEF T
  <2>. QED
    BY <1>2, <2>5, CodedResults DEF Refused
<1>3. CASE refs = {}
  BY <1>3, PlainResults DEF Refused
<1>. QED
  BY <1>2, <1>3

LEMMA CommitIsResult ==
  ASSUME NEW cfg, NEW line, NEW view PROVE Commit(cfg, line, view) \in Result
<1>1. ASSUME NEW text PROVE ValidateMessage(cfg, text) \in Result
  <2>1. Refused(Faults(cfg, text)) \in Result
    BY RefusedIsResult DEF Faults
  <2>2. FailAs("GIT013") \in Result
    BY PlainResults DEF Codes
  <2>. QED
    BY <2>1, <2>2 DEF ValidateMessage
<1>2. ASSUME NEW file, NEW inline PROVE CheckMessage(cfg, file, inline) \in Result
  BY <1>1, PlainResults DEF CheckMessage
<1>3. ASSUME NEW g, NEW added, NEW repo PROVE ValidateCommand(cfg, g, added, repo) \in Result
  <2>1. CheckCommitMessage(cfg, g) \in Result
    BY <1>2 DEF CheckCommitMessage
  <2>2. FailAs("GIT010") \in Result /\ FailAs("GIT003") \in Result /\ Pass \in Result
    BY PlainResults DEF Codes
  <2>. QED
    BY <2>1, <2>2 DEF ValidateCommand
<1>. QED
  BY <1>3, PlainResults DEF Commit

LEMMA GitResults ==
  ASSUME NEW cfg, NEW line, NEW view
  PROVE  /\ Add(cfg, line, view) \in Result /\ NoVerify(line) \in Result
         /\ Branch(cfg, line) \in Result
<1>1. /\ Pass \in Result /\ Warn \in Result
      /\ FailAs("GIT019") \in Result /\ FailAs("GIT020") \in Result /\ FailAs("GIT021") \in Result
  BY PlainResults DEF Codes
<1>2. Add(cfg, line, view) \in Result
  BY <1>1 DEF Add
<1>3. NoVerify(line) \in Result
  BY <1>1 DEF NoVerify
<1>4. Branch(cfg, line) \in Result
  BY <1>1 DEF Branch
<1>. QED
  BY <1>2, <1>3, <1>4

LEMMA FirstFailureIsResult ==
  ASSUME NEW I \in SUBSET Nat, NEW results, DOMAIN results = I,
         \A i \in I : results[i] \in Result
  PROVE  FirstFailure(results) \in Result
<1>. DEFINE failing == {i \in I : ~results[i].passed}
<1>1. FirstFailure(results) = IF failing = {} THEN Pass ELSE results[Min(failing)]
  BY DEF FirstFailure
<1>2. failing \in SUBSET Nat /\ failing \subseteq I
  OBVIOUS
<1>. HIDE DEF failing
<1>3. failing # {} => Min(failing) \in failing
  BY <1>2, LeastPosition
<1>4. Pass \in Result
  BY PlainResults
<1>. QED
  BY <1>1, <1>2, <1>3, <1>4

LEMMA RemoteResults ==
  ASSUME NEW cfg, NEW line, IsList(line.gits), NEW view
  PROVE  Push(cfg, line, view) \in Result /\ Fetch(line, view) \in Result
<1>0. ASSUME NEW sub PROVE Calling(line, sub) \in SUBSET Nat
  BY DEF Calling, IsList
<1>1. /\ Pass \in Result /\ FailAs("GIT025") \in Result /\ FailAs("GIT007") \in Result
      /\ FailAs("GIT024") \in Result
  BY PlainResults DEF Codes
<1>2. ASSUME NEW g, NEW repo PROVE CheckPush(cfg, g, repo) \in Result
  BY <1>1 DEF CheckPush, RemoteExists
<1>3. ASSUME NEW g, NEW repo PROVE CheckFetch(g, repo) \in Result
  BY <1>1 DEF CheckFetch, RemoteExists
<1>4. Push(cfg, line, view) \in Result
  <2>. DEFINE I == Calling(line, "push")
              results == [i \in I |-> CheckPush(cfg, line.gits[i], view[line.gits[i].dir])]
  <2>1. DOMAIN results = I /\ \A i \in I : results[i] \in Result
    BY <1>2
  <2>2. I \in SUBSET Nat
    BY <1>0
  <2>3. Push(cfg, line, view) = FirstFailure(results)
    BY DEF Push
  <2>. HIDE DEF I, results
  <2>. QED
    BY <2>1, <2>2, <2>3, FirstFailureIsResult
<1>5. Fetch(line, view) \in Result
  <2>. DEFINE I == Calling(line, "fetch")
              results == [i \in I |-> CheckFetch(line.gits[i], view[line.gits[i].dir])]
  <2>1. DOMAIN results = I /\ \A i \in I : results[i] \in Result
    BY <1>3
  <2>2. I \in SUBSET Nat
    BY <1>0
  <2>3. Fetch(line, view) = FirstFailure(results)
    BY DEF Fetch
  <2>. HIDE DEF I, results
  <2>. QED
    BY <2>1, <2>2, <2>3, FirstFailureIsResult
<1>. QED
  BY <1>4, <1>5

LEMMA GitHubResults ==
  ASSUME NEW cfg, NEW line, NEW repo
  PROVE  /\ RequestCreate(cfg, line) \in Result /\ Merge(cfg, cfg, line, repo) \in Result
         /\ Issue(cfg, line) \in Result
<1>1. /\ Pass \in Result /\ Warn \in Result
      /\ FailAs("GIT023") \in Result /\ WarnAs("GIT023") \in Result
      /\ FailAs("GIT015") \in Result /\ FailAs("GIT017") \in Result /\ FailAs("GIT018") \in Result
      /\ FailAs("GH001") \in Result /\ WarnAs("GH001") \in Result
  BY PlainResults DEF Codes
<1>2. \A title, text, base, label : ValidateRequest(cfg, title, text, base, label) \in Result
  BY <1>1 DEF ValidateRequest
<1>3. RequestCreate(cfg, line) \in Result
  BY <1>1, <1>2 DEF RequestCreate
<1>4. \A m : MergeSignoff(cfg, m) \in Result
  BY <1>1 DEF MergeSignoff
<1>5. \A m : ValidateMerge(cfg, cfg, m, repo) \in Result
  BY <1>1, <1>4 DEF ValidateMerge
<1>6. Merge(cfg, cfg, line, repo) \in Result
  BY <1>1, <1>5 DEF Merge
<1>7. \A body : ValidateIssue(cfg, body) \in Result
  BY <1>1 DEF ValidateIssue
<1>8. Issue(cfg, line) \in Result
  BY <1>1, <1>7 DEF Issue
<1>. QED
  BY <1>3, <1>6, <1>8

LEMMA FileResults ==
  ASSUME NEW cfg, NEW call, NEW file,
         NEW v \in {"markdown", "terraform", "shellscript", "workflow", "gofumpt", "python",
                    "javascript", "rust"}
  PROVE  ValidateFile(v, cfg, call, file) \in Result
<1>1. Pass \in Result /\ Warn \in Result /\ FailAs("FILE004") \in Result
  BY PlainResults DEF Codes
<1>2. ASSUME NEW kind \in DOMAIN Reference, NEW text
      PROVE  Lint(kind, cfg, call, text) \in Result
  <2>1. Reference[kind] \in Codes
    BY DEF Reference, Codes
  <2>2. FailAs(Reference[kind]) \in Result
    BY <2>1, CodedResults
  <2>. QED
    BY <1>1, <2>2 DEF Lint
<1>3. \A k \in {"shellscript", "markdown", "gofumpt", "python", "javascript", "rust"} :
        k \in DOMAIN Reference
  BY DEF Reference
<1>4. CASE v = "markdown"
  BY <1>2, <1>3, <1>4 DEF ValidateFile, Markdown
<1>5. CASE v = "terraform"
  BY <1>1, <1>5 DEF ValidateFile, Terraform
<1>6. CASE v = "shellscript"
  BY <1>1, <1>2, <1>3, <1>6 DEF ValidateFile, ShellScript
<1>7. CASE v = "workflow"
  BY <1>1, <1>7 DEF ValidateFile, Workflow
<1>8. CASE v = "gofumpt"
  BY <1>2, <1>3, <1>8 DEF ValidateFile, Gofumpt
<1>9. CASE v = "python"
  BY <1>2, <1>3, <1>9 DEF ValidateFile, Python
<1>10. CASE v = "javascript"
  BY <1>2, <1>3, <1>10 DEF ValidateFile, JavaScript
<1>11. CASE v = "rust"
  BY <1>2, <1>3, <1>11 DEF ValidateFile, Rust
<1>. QED
  BY <1>4, <1>5, <1>6, <1>7, <1>8, <1>9, <1>10, <1>11

LEMMA SecretsAnswers ==
  ASSUME NEW cfg, NEW call
  PROVE  Secrets(cfg, call) \in {Pass, FailAs("SEC001"), WarnAs("SEC001")}
<1>. DEFINE text == SecretsText(call)
            skip == \/ text = NoText
                    \/ SizeOf(text) > SizeLimit(cfg)
                    \/ SecretsFound(cfg, text) = {}
<1>1. Secrets(cfg, call) =
        IF skip THEN Pass
        ELSE IF Setting(cfg, "block_on_detection", TRUE) THEN FailAs("SEC001") ELSE WarnAs("SEC001")
  BY DEF Secrets
<1>. HIDE DEF skip
<1>. QED
  BY <1>1

(* Every validator answers with a result.                                   *)
LEMMA ValidatorsAnswer ==
  ASSUME NEW v \in ToSet(Order), NEW cfg, NEW call,
         v \in {"push", "fetch"} => IsList(call.line.gits), NEW view
  PROVE  ValidateOne(v, cfg, call, view) \in Result
<1>1. v \in {"add", "no_verify", "commit", "push", "fetch", "pr", "branch", "merge", "issue",
             "markdown", "terraform", "shellscript", "workflow", "gofumpt", "python",
             "javascript", "rust", "bell", "secrets", "backtick"}
  BY DEF ToSet, Order
<1>2. Pass \in Result /\ FailAs("SEC001") \in Result /\ WarnAs("SEC001") \in Result
      /\ FailAs("SHELL001") \in Result
  BY PlainResults DEF Codes
<1>3. Secrets(cfg, call) \in Result
  BY <1>2, SecretsAnswers
<1>4. Backticks(cfg, call.line) \in Result
  BY <1>2 DEF Backticks
<1>5. CASE v \in {"add", "no_verify", "branch"}
  BY <1>5, GitResults DEF ValidateOne
<1>6. CASE v = "commit"
  BY <1>6, CommitIsResult DEF ValidateOne
<1>7. CASE v \in {"push", "fetch"}
  BY <1>7, RemoteResults DEF ValidateOne
<1>8. CASE v \in {"pr", "merge", "issue"}
  BY <1>8, GitHubResults DEF ValidateOne
<1>9. CASE v \in {"bell", "secrets", "backtick"}
  BY <1>2, <1>3, <1>4, <1>9 DEF ValidateOne
<1>10. CASE v \in {"markdown", "terraform", "shellscript", "workflow", "gofumpt", "python",
                   "javascript", "rust"}
  <2>1. ValidateOne(v, cfg, call, view) = ValidateFile(v, cfg, call, FileAt(call.path))
    BY <1>10 DEF ValidateOne
  <2>. QED
    BY <1>10, <2>1, FileResults
<1>. QED
  BY <1>1, <1>5, <1>6, <1>7, <1>8, <1>9, <1>10

-----------------------------------------------------------------------------
\* What a hook is told

(* An answer that blocks has a reference of a validator or of an enabled    *)
(* rule of the configuration.                                               *)
Referenced(src, verdict) ==
  verdict.block => verdict.ref \in {None} \cup Codes \cup RuleCodes(src)

(* So has what the rule engine answers in a validator's place.              *)
LEMMA EngineAnswers ==
  ASSUME NEW src, Understood(src), Load(src).ok, wired => ~EngineFails(Load(src).rules),
         NEW v, NEW call, NEW answer, answer = RuleAnswer(Load(src), v, call), answer # <<>>
  PROVE  Referenced(src, answer[1])
<1>. DEFINE ctx == RuleContext(v, call)
            S == {s \in Written(src) : s.enabled}
            E == CreateRuleEngine(Load(src).rules)
            hits == {i \in DOMAIN E : Matches(E[i], ctx)}
            M == MergedRules(Said(src.global, <<>>), src.project)
<1>1. wired /\ answer = CheckRules(E, ctx)
  BY DEF RuleAnswer
<1>2. hits # {} /\ answer = <<ConvertResult(E[Min(hits)].action)>>
  BY <1>1 DEF CheckRules
<1>3. src.rulesEnabled
  <2>1. SUFFICES ASSUME ~src.rulesEnabled PROVE FALSE
    OBVIOUS
  <2>. HIDE DEF M
  <2>2. Load(src).rules = [enabled |-> src.rulesEnabled, rules |-> M]
    BY LoadKeepsRules DEF M
  <2>3. ~Load(src).rules.enabled
    BY <2>1, <2>2
  <2>4. E = <<>>
    BY <2>3 DEF CreateRuleEngine
  <2>. QED
    BY <1>2, <2>4
<1>4. /\ OneOfEach(S) /\ IsFiniteSet(S) /\ E \in SetToSeqs(S) /\ InOrder(E)
      /\ \A s \in S : s.action # Missing
  BY <1>1, <1>3, EngineMade
<1>5. DOMAIN E \in SUBSET Nat /\ S = {E[i] : i \in DOMAIN E}
  <2>. HIDE DEF S, E
  <2>. QED
    BY <1>4, EngineSorted
<1>. HIDE DEF E
<1>6. Min(hits) \in DOMAIN E
  <2>1. hits \in SUBSET Nat /\ hits \subseteq DOMAIN E
    BY <1>5
  <2>. HIDE DEF hits
  <2>. QED
    BY <1>2, <2>1, LeastPosition
<1>. DEFINE r == E[Min(hits)]
<1>7. r \in Written(src) /\ r.enabled /\ r.action # Missing
  BY <1>4, <1>5, <1>6
<1>8. r.action.ref \in RuleCodes(src)
  <2>. HIDE DEF r
  <2>. QED
    BY <1>7 DEF RuleCodes
<1>9. answer[1] = ConvertResult(r.action)
  BY <1>2
<1>. HIDE DEF r
<1>10. ConvertResult(r.action).block => ConvertResult(r.action).ref = r.action.ref
  BY Zenon DEF ConvertResult, FailAs, WarnAs, Pass
<1>. QED
  BY <1>8, <1>9, <1>10 DEF Referenced

\* The objections there can be of a configuration.
Objections(settings, src) ==
  [validator : DOMAIN settings.sections, ref : {None} \cup Codes \cup RuleCodes(src)]

\* A hook at work has the configuration that its sources made, jobs in it, objections
\* from it, and knows answers to questions there are.
Told(c) ==
  /\ DOMAIN c = Fields
  /\ c.under \in scene.sources /\ c.settings = Load(c.under)
  /\ c.pending \subseteq Jobs(c.settings, c.call)
  /\ c.pending # {} => c.settings.ok /\ (wired => ~EngineFails(c.settings.rules))
  /\ \A o \in c.objections : o \in Objections(c.settings, c.under)
  /\ DOMAIN c.known \subseteq DOMAIN Home

ToldInv ==
  \A h \in Hook :
     \/ calls[h] = Idle
     \/ calls[h].stage = "asked"
     \/ calls[h].stage \in {"judging", "allowed", "refused"} /\ Told(calls[h])

LEMMA InitTold == Init => ToldInv
BY DEF Init, ToldInv

(* The answer to a job is referenced.                                       *)
LEMMA VerdictReferenced ==
  ASSUME NEW c, Told(c), c.pending # {}, Understood(c.under), IsList(c.call.line.gits),
         NEW job, job = JobAt(c.call, FirstOf(c.pending))
  PROVE  /\ job.validator \in DOMAIN c.settings.sections
         /\ Referenced(c.under, Verdict(c, job))
<1>. DEFINE p == FirstOf(c.pending)
            v == job.validator
            answer == RuleAnswer(c.settings, v, job.call)
            own == ValidateOne(v, c.settings.sections[v], job.call, View(c.known, v))
<1>1. p \in Jobs(c.settings, c.call) /\ p \in Nat \X DOMAIN Order
  BY FirstJob DEF Told
<1>2. v = Order[p[2]] /\ job.call = SeenAs(c.call)[p[1]]
  BY DEF JobAt
<1>3. v \in Registered(c.settings)
  <2>. HIDE DEF v, p
  <2>. QED
    BY <1>1, <1>2 DEF Jobs
<1>4. v \in ToSet(Order) /\ v \in DOMAIN c.settings.sections
  <2>. HIDE DEF v
  <2>. QED
    BY <1>3 DEF Registered, IsEnabled
<1>5. v \in {"push", "fetch"} => IsList(job.call.line.gits)
  <2>1. SUFFICES ASSUME v \in {"push", "fetch"} PROVE job.call = c.call
    OBVIOUS
  <2>2. Order[p[2]] \in DOMAIN Subcommand
    BY <1>2, <2>1 DEF Subcommand
  <2>. HIDE DEF v, p
  <2>3. p = <<0, p[2]>>
    BY <1>1, <2>2, ShellJobsAreFirst
  <2>4. SeenAs(c.call)[0] = c.call
    BY DEF SeenAs
  <2>. QED
    BY <1>2, <2>3, <2>4
<1>6. Verdict(c, job) = IF answer # <<>> THEN answer[1] ELSE own
  BY DEF Verdict
<1>. HIDE DEF v, own, answer
<1>7. answer # <<>> => Referenced(c.under, answer[1])
  <2>1. c.settings = Load(c.under) /\ Load(c.under).ok
        /\ (wired => ~EngineFails(Load(c.under).rules))
    BY DEF Told
  <2>2. answer = RuleAnswer(Load(c.under), v, job.call)
    BY <2>1 DEF answer
  <2>. QED
    BY <2>1, <2>2, EngineAnswers
<1>8. Referenced(c.under, own)
  <2>1. own \in Result
    BY <1>4, <1>5, ValidatorsAnswer DEF own
  <2>. HIDE DEF own
  <2>. QED
    BY <2>1 DEF Referenced, Result
<1>. QED
  BY <1>4, <1>6, <1>7, <1>8 DEF v

LEMMA StartedTold ==
  ASSUME sources \in scene.sources, NEW call, NEW c, c = Started(call, Load(sources))
  PROVE  c.stage \in {"judging", "allowed"} /\ Told(c)
<1>. DEFINE settings == Load(sources)
            fails == ~settings.ok \/ (wired /\ EngineFails(settings.rules))
<1>1. /\ DOMAIN c = Fields /\ c.stage = IF fails THEN "allowed" ELSE "judging"
      /\ c.objections = {} /\ c.under = sources /\ c.settings = settings /\ c.call = call
      /\ c.known = <<>> /\ c.pending = IF fails THEN {} ELSE Jobs(settings, call)
  BY DEF Started, Fields
<1>. HIDE DEF settings
<1>2. DOMAIN c.known = {}
  BY <1>1
<1>3. c.settings = Load(c.under)
  BY <1>1 DEF settings
<1>4. /\ c.pending \subseteq Jobs(c.settings, c.call)
      /\ c.pending # {} => c.settings.ok /\ (wired => ~EngineFails(c.settings.rules))
  BY <1>1
<1>. QED
  BY <1>1, <1>2, <1>3, <1>4 DEF Told

(* What the next validator answers leaves a hook told what it should be.    *)
LEMMA HeardTold ==
  ASSUME NEW c, Told(c), c.pending # {}, Understood(c.under), IsList(c.call.line.gits),
         Home \in Repository,
         NEW job, job = JobAt(c.call, FirstOf(c.pending)),
         NEW d, d = Heard(c, job, Verdict(c, job))
  PROVE  d.stage = c.stage /\ Told(d)
<1>. DEFINE verdict == Verdict(c, job)
<1>1. job.validator \in DOMAIN c.settings.sections /\ Referenced(c.under, verdict)
  BY VerdictReferenced
<1>. HIDE DEF verdict
<1>2. DOMAIN c = Fields /\ d = Heard(c, job, verdict)
  BY DEF Told, verdict
<1>3. /\ DOMAIN d = Fields
      /\ d.stage = c.stage /\ d.call = c.call /\ d.judged = c.judged
      /\ d.settings = c.settings /\ d.under = c.under /\ d.done = c.done
      /\ d.pending = c.pending \ {FirstOf(c.pending)}
      /\ d.known = Answers(c.known, job.validator)
  BY <1>2, HeardKeeps
<1>4. \A q \in d.objections :
         q \in c.objections \/ (verdict.block /\ q = ObjectionOf(job, verdict))
  BY <1>2, HeardObjects
<1>5. \A q \in d.objections : q \in Objections(c.settings, c.under)
  <2>1. verdict.block => ObjectionOf(job, verdict) \in Objections(c.settings, c.under)
    BY ONLY <1>1 DEF ObjectionOf, Objections, Referenced
  <2>2. \A q \in c.objections : q \in Objections(c.settings, c.under)
    BY DEF Told
  <2>. QED
    BY ONLY <1>4, <2>1, <2>2
<1>6. DOMAIN d.known \subseteq DOMAIN Home
  <2>1. DOMAIN d.known = DOMAIN c.known \cup AsksFor(job.validator)
    <3>. DEFINE a == Answers(c.known, job.validator)
    <3>1. DOMAIN a = DOMAIN c.known \cup AsksFor(job.validator)
      BY AnswersKeep
    <3>. HIDE DEF a
    <3>2. d.known = a
      BY <1>3 DEF a
    <3>. QED
      BY <3>1, <3>2
  <2>2. DOMAIN Home = {"inRepo", "root", "staged", "remotes", "current", "tracking"}
    BY DEF Repository
  <2>3. AsksFor(job.validator) \subseteq DOMAIN Home
    BY <2>2 DEF AsksFor, Asked
  <2>. QED
    BY <2>1, <2>3 DEF Told
<1>7. /\ d.pending \subseteq c.pending
      /\ d.pending # {} => c.pending # {}
  BY <1>3
<1>. QED
  BY <1>3, <1>5, <1>6, <1>7 DEF Told

(* A hook that moves on is told nothing new.                                *)
LEMMA SameTold ==
  ASSUME NEW c, Told(c), NEW d, DOMAIN d = Fields, d.call = c.call,
         d.settings = c.settings, d.under = c.under, d.pending = c.pending,
         d.known = c.known, d.objections = c.objections
  PROVE  Told(d)
BY DEF Told

LEMMA ToldKept ==
  ASSUME \A s \in Scene : \A src \in s.sources : Understood(src)
  PROVE  WorldInv /\ ToldInv /\ [Next]_vars => ToldInv'
<1>. SUFFICES ASSUME WorldInv, ToldInv, [Next]_vars PROVE ToldInv'
  OBVIOUS
<1>0. /\ DOMAIN calls = Hook /\ scene \in Scene /\ sources \in scene.sources
      /\ Here \in DOMAIN scene.repos
      /\ repos \in [DOMAIN scene.repos -> Repository] /\ WorldInv'
  BY WorldKept, SceneAssumption DEF WorldInv, Here
<1>1. scene' = scene /\ wired' = wired
  BY DEF Next, vars, Ask, Start, Validate, Answer, Perform, Stop, Refuse, EditSettings
<1>2. Home \in Repository /\ DOMAIN Home' = DOMAIN Home
  <2>1. repos' \in [DOMAIN scene.repos -> Repository]
    BY <1>0, <1>1 DEF WorldInv
  <2>2. Home \in Repository /\ Home' \in Repository
    BY <1>0, <2>1 DEF Home, Here
  <2>. QED
    BY <2>2 DEF Repository
<1>3. ASSUME NEW c, Told(c) PROVE Told(c)'
  BY <1>1, <1>2, <1>3 DEF Told
<1>4. CASE UNCHANGED calls
  BY <1>3, <1>4 DEF ToldInv
<1>5. ASSUME NEW h \in Hook, NEW c, calls' = [calls EXCEPT ![h] = c],
             \/ c = Idle
             \/ c.stage = "asked"
             \/ c.stage \in {"judging", "allowed", "refused"} /\ Told(c)
      PROVE  ToldInv'
  <2>1. ASSUME NEW g \in Hook
        PROVE  \/ calls'[g] = Idle
               \/ calls'[g].stage = "asked"
               \/ calls'[g].stage \in {"judging", "allowed", "refused"} /\ Told(calls'[g])
    BY <1>0, <1>5 DEF ToldInv
  <2>. QED
    BY <1>3, <2>1 DEF ToldInv
<1>6. ASSUME NEW h \in Hook, NEW call, Ask(h, call) PROVE ToldInv'
  <2>. DEFINE c == [stage |-> "asked", call |-> Reading(call)]
  <2>1. calls' = [calls EXCEPT ![h] = c] /\ c.stage = "asked"
    BY <1>6 DEF Ask
  <2>. HIDE DEF c
  <2>. QED
    BY <1>5, <2>1
<1>7. ASSUME NEW h \in Hook, Start(h) PROVE ToldInv'
  <2>. DEFINE c == Started(calls[h].call, Load(sources))
  <2>1. calls' = [calls EXCEPT ![h] = c]
    BY <1>0, <1>7 DEF Start
  <2>2. c.stage \in {"judging", "allowed"} /\ Told(c)
    BY <1>0, StartedTold
  <2>. HIDE DEF c
  <2>. QED
    BY <1>5, <2>1, <2>2
<1>8. ASSUME NEW h \in Hook, Validate(h) PROVE ToldInv'
  <2>. DEFINE c == calls[h]
              job == JobAt(c.call, FirstOf(c.pending))
              d == Heard(c, job, Verdict(c, job))
  <2>1. calls' = [calls EXCEPT ![h] = d] /\ c.stage = "judging" /\ c.pending # {}
    BY <1>0, <1>8 DEF Validate
  <2>2. Told(c) /\ c # Idle
    BY <2>1 DEF ToldInv, Idle
  <2>3. IsList(c.call.line.gits)
    BY <2>2, LinesAreLists
  <2>4. Understood(c.under)
    BY <1>0, <2>2 DEF Told
  <2>. HIDE DEF c
  <2>5. d.stage = c.stage /\ Told(d)
    BY <1>2, <2>1, <2>2, <2>3, <2>4, HeardTold
  <2>. HIDE DEF d
  <2>. QED
    BY <1>5, <2>1, <2>5
<1>9. ASSUME NEW h \in Hook, Answer(h) PROVE ToldInv'
  <2>. DEFINE s == IF calls[h].objections = {} THEN "allowed" ELSE "refused"
              d == [calls[h] EXCEPT !.stage = s]
  <2>1. /\ calls' = [calls EXCEPT ![h] = d] /\ calls[h].stage = "judging"
        /\ s \in {"allowed", "refused"}
    BY <1>9 DEF Answer
  <2>2. Told(calls[h]) /\ DOMAIN calls[h] = Fields
    BY <2>1 DEF ToldInv, Idle, Told
  <2>. HIDE DEF s
  <2>3. /\ DOMAIN d = Fields /\ d.stage = s
        /\ d.call = calls[h].call /\ d.settings = calls[h].settings
        /\ d.under = calls[h].under /\ d.pending = calls[h].pending
        /\ d.known = calls[h].known /\ d.objections = calls[h].objections
    BY <2>2, StageKeeps
  <2>. HIDE DEF d
  <2>4. Told(d)
    BY <2>2, <2>3, SameTold
  <2>. QED
    BY <1>5, <2>1, <2>3, <2>4
<1>10. ASSUME NEW h \in Hook, Perform(h) PROVE ToldInv'
  <2>. DEFINE d == [calls[h] EXCEPT !.done = calls[h].done + 1]
  <2>1. calls[h].stage = "allowed" /\ \E c \in {Idle, d} : calls' = [calls EXCEPT ![h] = c]
    BY <1>0, <1>10, PerformCounts
  <2>2. Told(calls[h]) /\ DOMAIN calls[h] = Fields
    BY <2>1 DEF ToldInv, Idle, Told
  <2>3. /\ DOMAIN d = Fields /\ d.stage = "allowed"
        /\ d.call = calls[h].call /\ d.settings = calls[h].settings
        /\ d.under = calls[h].under /\ d.pending = calls[h].pending
        /\ d.known = calls[h].known /\ d.objections = calls[h].objections
    BY <2>1, <2>2, DoneKeeps
  <2>. HIDE DEF d
  <2>4. Told(d)
    BY <2>2, <2>3, SameTold
  <2>. QED
    BY <1>5, <2>1, <2>3, <2>4
<1>11. ASSUME NEW h \in Hook, Stop(h) \/ Refuse(h) PROVE ToldInv'
  BY <1>5, <1>11 DEF Stop, Refuse
<1>. QED
  BY <1>4, <1>6, <1>7, <1>8, <1>9, <1>10, <1>11 DEF Next, vars, EditSettings

(* Whatever the assistant calls and whenever the user edits the settings,   *)
(* the repositories and files stay what they are, a hook is left with jobs  *)
(* of validators that exist, and every objection is that of a section it    *)
(* loaded, under a reference there is.                                      *)
THEOREM GateTyped ==
  ASSUME \A s \in Scene : \A src \in s.sources : Understood(src)
  PROVE  Spec => []TypeOK
<1>1. Init => WorldInv /\ ToldInv
  BY InitWorld, InitTold
<1>2. WorldInv /\ ToldInv /\ [Next]_vars => (WorldInv /\ ToldInv)'
  BY WorldKept, ToldKept
<1>3. WorldInv /\ ToldInv => TypeOK
  <2>1. SUFFICES ASSUME WorldInv, ToldInv PROVE TypeOK
    OBVIOUS
  <2>2. ASSUME NEW c, Told(c)
        PROVE  /\ c.pending \subseteq Nat \X DOMAIN Order
               /\ c.objections \subseteq [validator : DOMAIN c.settings.sections,
                                          ref : {""} \cup Codes \cup RuleCodes(c.under)]
               /\ DOMAIN c.known \subseteq DOMAIN repos[""]
    <3>1. c.pending \subseteq Nat \X DOMAIN Order
      BY <2>2, JobsArePlaces DEF Told
    <3>2. c.objections \subseteq [validator : DOMAIN c.settings.sections,
                                  ref : {None} \cup Codes \cup RuleCodes(c.under)]
      BY <2>2 DEF Told, Objections
    <3>3. DOMAIN c.known \subseteq DOMAIN Home
      BY <2>2 DEF Told
    <3>. QED
      BY Zenon, <3>1, <3>2, <3>3 DEF None, Home, Here
  <2>. QED
    BY <2>1, <2>2 DEF TypeOK, WorldInv, ToldInv
<1>. QED
  BY <1>1, <1>2, <1>3, PTL DEF Spec

-----------------------------------------------------------------------------
\* Fragments of files

(* The lines of a text are counted by the NLs before a position.            *)
LEMMA LinesCounted ==
  ASSUME NEW text \in Seq(STRING), NEW i \in 1..Len(text) + 1
  PROVE  /\ LineOf(text, i) \in Nat \ {0}
         /\ LineOf(text, 1) = 1
         /\ i \in DOMAIN text =>
              LineOf(text, i + 1) = LineOf(text, i) + IF text[i] = NL THEN 1 ELSE 0
<1>. DEFINE Ends(n) == {k \in 1..n - 1 : text[k] = NL}
<1>1. \A n \in Nat : IsFiniteSet(Ends(n)) /\ Cardinality(Ends(n)) \in Nat
  <2>. SUFFICES ASSUME NEW n \in Nat PROVE IsFiniteSet(Ends(n)) /\ Cardinality(Ends(n)) \in Nat
    OBVIOUS
  <2>1. IsFiniteSet(1..n - 1)
    BY FS_Interval
  <2>2. Ends(n) \in SUBSET (1..n - 1)
    OBVIOUS
  <2>. QED
    BY <2>1, <2>2, FS_Subset, FS_CardinalityType
<1>2. \A n \in Nat : LineOf(text, n) = 1 + Cardinality(Ends(n))
  BY DEF LineOf
<1>3. Ends(1) = {}
  OBVIOUS
<1>4. LineOf(text, 1) = 1
  BY <1>2, <1>3, FS_EmptySet
<1>5. ASSUME i \in DOMAIN text
      PROVE  LineOf(text, i + 1) = LineOf(text, i) + IF text[i] = NL THEN 1 ELSE 0
  <2>1. i \in Nat /\ i + 1 \in Nat
    OBVIOUS
  <2>2. CASE text[i] = NL
    <3>1. Ends(i + 1) = Ends(i) \cup {i} /\ i \notin Ends(i)
      BY <2>2
    <3>. HIDE DEF Ends
    <3>2. Cardinality(Ends(i + 1)) = Cardinality(Ends(i)) + 1
      BY <1>1, <2>1, <3>1, FS_AddElement
    <3>. QED
      BY <1>1, <1>2, <2>1, <2>2, <3>2
  <2>3. CASE text[i] # NL
    <3>1. Ends(i + 1) = Ends(i)
      BY <2>3
    <3>. HIDE DEF Ends
    <3>. QED
      BY <1>1, <1>2, <2>1, <2>3, <3>1
  <2>. QED
    BY <2>2, <2>3
<1>6. LineOf(text, i) \in Nat \ {0}
  <2>1. i \in Nat
    OBVIOUS
  <2>. HIDE DEF Ends
  <2>2. LineOf(text, i) = 1 + Cardinality(Ends(i)) /\ Cardinality(Ends(i)) \in Nat
    BY <1>1, <1>2, <2>1
  <2>. QED
    BY <2>2
<1>. QED
  BY <1>4, <1>5, <1>6

LEMMA LinesOrdered ==
  ASSUME NEW text \in Seq(STRING), NEW j \in 1..Len(text) + 1, NEW i \in 1..j
  PROVE  LineOf(text, i) <= LineOf(text, j)
<1>. DEFINE Ends(n) == {k \in 1..n - 1 : text[k] = NL}
<1>1. Ends(j) \in SUBSET (1..j - 1) /\ Ends(i) \in SUBSET Ends(j)
  OBVIOUS
<1>2. IsFiniteSet(1..j - 1)
  BY FS_Interval
<1>3. LineOf(text, i) = 1 + Cardinality(Ends(i)) /\ LineOf(text, j) = 1 + Cardinality(Ends(j))
  BY DEF LineOf
<1>. HIDE DEF Ends
<1>4. IsFiniteSet(Ends(j)) /\ IsFiniteSet(Ends(i)) /\ Cardinality(Ends(i)) <= Cardinality(Ends(j))
  BY <1>1, <1>2, FS_Subset
<1>5. Cardinality(Ends(j)) \in Nat /\ Cardinality(Ends(i)) \in Nat
  BY <1>4, FS_CardinalityType
<1>. QED
  BY <1>3, <1>4, <1>5

(* The first and the last number of an interval.                            *)
LEMMA EndsOfInterval ==
  ASSUME NEW p \in Nat, NEW q \in Nat, p <= q
  PROVE  Min(p..q) = p /\ Max(p..q) = q
<1>1. \A x \in p..q : (\A y \in p..q : x =< y) => x = p
  OBVIOUS
<1>2. \A x \in p..q : (\A y \in p..q : x >= y) => x = q
  OBVIOUS
<1>3. p \in p..q /\ q \in p..q /\ \A y \in p..q : p =< y /\ q >= y
  OBVIOUS
<1>4. Min(p..q) = p
  BY <1>1, <1>3 DEF Min
<1>5. Max(p..q) = q
  BY <1>2, <1>3 DEF Max
<1>. QED
  BY <1>4, <1>5

\* From p to q are the marks of lines first to last, but for the NL after them.
Spans(text, first, last, p, q) ==
    /\ Cut(text, p, q) /\ Lines(text, first, last) = SubSeq(text, p, q)
    /\ p > 1 <=> first > 1
    /\ \A i \in 1..Len(text) :
          /\ LineOf(text, i) >= first => i >= p
          /\ LineOf(text, i) \in first..last /\ ~(text[i] = NL /\ LineOf(text, i) = last)
             => i <= q

(* Lines of a text are a cut of it, from the first that is at the first of  *)
(* them to the last that is not the NL after them.                          *)
LEMMA LinesAreCut ==
  ASSUME NEW text \in Seq(STRING), NEW first \in Nat \ {0}, NEW last \in Nat,
         first <= last, last <= LastLine(text)
  PROVE  \E p \in 1..Len(text) + 1 : \E q \in p - 1..Len(text) : Spans(text, first, last, p, q)
<1>. DEFINE n == Len(text)
            L(i) == LineOf(text, i)
            Late == {i \in 1..n + 1 : L(i) >= first}
<1>1. n \in Nat /\ DOMAIN text = 1..n
  OBVIOUS
<1>2. /\ \A i \in 1..n + 1 : L(i) \in Nat \ {0}
      /\ L(1) = 1
      /\ \A i \in 1..n : L(i + 1) = L(i) + IF text[i] = NL THEN 1 ELSE 0
      /\ \A j \in 1..n + 1 : \A i \in 1..j : L(i) <= L(j)
      /\ L(n + 1) = LastLine(text)
  <2>1. 1 \in 1..Len(text) + 1 /\ n + 1 = Len(text) + 1 /\ \A i \in 1..n : i \in 1..Len(text) + 1 /\ i \in DOMAIN text
    BY <1>1
  <2>2. \A i \in 1..Len(text) + 1 :
           /\ LineOf(text, i) \in Nat \ {0}
           /\ LineOf(text, 1) = 1
           /\ i \in DOMAIN text =>
                LineOf(text, i + 1) = LineOf(text, i) + IF text[i] = NL THEN 1 ELSE 0
    BY LinesCounted
  <2>3. \A j \in 1..Len(text) + 1 : \A i \in 1..j : LineOf(text, i) <= LineOf(text, j)
    BY LinesOrdered
  <2>4. L(n + 1) = LastLine(text)
    BY DEF LastLine
  <2>5. \A i \in 1..n : L(i + 1) = L(i) + IF text[i] = NL THEN 1 ELSE 0
    BY <2>1, <2>2
  <2>. QED
    BY <2>1, <2>2, <2>3, <2>4, <2>5
<1>. HIDE DEF L, n
<1>3. n + 1 \in Late /\ Late \in SUBSET Nat
  <2>1. n + 1 \in 1..n + 1 /\ L(n + 1) \in Nat
    BY <1>1, <1>2
  <2>2. L(n + 1) >= first
    BY <1>2, <2>1
  <2>. QED
    BY <1>1, <2>1, <2>2
<1>4. PICK p \in Late : \A i \in Late : p <= i
  <2>. HIDE DEF Late
  <2>1. Late # {}
    BY <1>3
  <2>2. Min(Late) \in Late /\ \A i \in Late : Min(Late) =< i
    BY <1>3, <2>1, LeastPosition
  <2>. QED
    BY <2>2
<1>5. p \in 1..n + 1 /\ L(p) >= first /\ \A i \in 1..p - 1 : L(i) < first
  BY <1>1, <1>2, <1>4
<1>6. /\ L(p) = first
      /\ p > 1 <=> first > 1
      /\ p = 1 \/ text[p - 1] = NL
  <2>1. CASE p = 1
    BY <1>2, <1>5, <2>1
  <2>2. CASE p > 1
    <3>1. p - 1 \in 1..n /\ L(p - 1) < first /\ (p - 1) + 1 = p
      BY <1>1, <1>5, <2>2
    <3>2. L(p) = L(p - 1) + IF text[p - 1] = NL THEN 1 ELSE 0
      BY <1>2, <3>1
    <3>3. L(p - 1) \in Nat \ {0} /\ L(p) \in Nat
      BY <1>1, <1>2, <1>5, <3>1
    <3>. QED
      BY <1>5, <2>2, <3>1, <3>2, <3>3
  <2>. QED
    BY <1>1, <1>5, <2>1, <2>2
<1>. HIDE DEF Late
<1>. DEFINE Ending == {j \in p..n + 1 : j = n + 1 \/ (text[j] = NL /\ L(j) = last)}
<1>7. n + 1 \in Ending /\ Ending \in SUBSET Nat
  <2>1. p \in Nat /\ n + 1 \in p..n + 1 /\ p..n + 1 \in SUBSET Nat
    BY <1>1, <1>5
  <2>. QED
    BY <2>1
<1>8. PICK e \in Ending : \A j \in Ending : e <= j
  <2>. HIDE DEF Ending
  <2>1. Ending # {}
    BY <1>7
  <2>2. Min(Ending) \in Ending /\ \A i \in Ending : Min(Ending) =< i
    BY <1>7, <2>1, LeastPosition
  <2>. QED
    BY <2>2
<1>9. /\ e \in p..n + 1 /\ (e = n + 1 \/ (text[e] = NL /\ L(e) = last))
      /\ \A j \in p..e - 1 : ~(text[j] = NL /\ L(j) = last)
  BY <1>1, <1>5, <1>8
<1>. HIDE DEF Ending
<1>. DEFINE q == e - 1
            inside == {i \in DOMAIN text : /\ LineOf(text, i) \in first..last
                                           /\ ~(text[i] = NL /\ LineOf(text, i) = last)}
<1>10. ASSUME NEW i \in p..q PROVE L(i) \in first..last
  <2>. DEFINE Beyond == {j \in p..q : L(j) > last}
  <2>1. SUFFICES ASSUME Beyond # {} PROVE FALSE
    <3>1. i \in 1..n + 1 /\ p \in 1..i
      BY <1>1, <1>5, <1>9
    <3>2. L(i) >= first /\ L(i) \in Nat
      BY <1>2, <1>6, <3>1
    <3>. QED
      BY <2>1, <3>2
  <2>2. Beyond \in SUBSET Nat
    BY <1>1, <1>5, <1>9
  <2>3. PICK b \in Beyond : \A j \in Beyond : b <= j
    BY <2>1, <2>2, LeastPosition
  <2>4. b \in p..q /\ L(b) > last
    OBVIOUS
  <2>5. b # p
    BY <1>6, <2>4
  <2>6. b - 1 \in p..q /\ b - 1 \in 1..n /\ b - 1 \notin Beyond /\ (b - 1) + 1 = b
    <3>1. p \in Nat /\ q \in Nat /\ b \in Nat /\ b - 1 \in p..q /\ (b - 1) + 1 = b
      BY <1>1, <1>5, <1>9, <2>4, <2>5
    <3>2. b - 1 \in 1..n
      BY <1>1, <1>5, <1>9, <3>1
    <3>3. b - 1 \notin Beyond
      <4>. HIDE DEF Beyond
      <4>. QED
        BY <2>3, <3>1
    <3>. QED
      BY <3>1, <3>2, <3>3
  <2>7. L(b - 1) <= last /\ L(b - 1) \in Nat
    <3>1. b - 1 \in 1..n + 1 /\ ~(L(b - 1) > last)
      BY <1>1, <2>6
    <3>2. L(b - 1) \in Nat
      BY <1>2, <3>1
    <3>. QED
      BY <3>1, <3>2
  <2>8. L(b) = L(b - 1) + IF text[b - 1] = NL THEN 1 ELSE 0
    BY <1>2, <2>6
  <2>9. text[b - 1] = NL /\ L(b - 1) = last
    BY <2>4, <2>7, <2>8
  <2>. QED
    BY <1>9, <2>6, <2>9
<1>11. ASSUME NEW i \in 1..n, i > e, e <= n PROVE L(i) > last
  <2>1. e \in 1..n /\ e + 1 \in 1..i /\ i \in 1..n + 1
    BY <1>1, <1>5, <1>9, <1>11
  <2>2. L(e + 1) = last + 1
    BY <1>1, <1>2, <1>9, <2>1
  <2>. QED
    BY <1>2, <2>1, <2>2
<1>12. inside = p..q
  <2>1. ASSUME NEW i \in inside PROVE i \in p..q
    <3>1. i \in 1..n /\ L(i) \in first..last /\ ~(text[i] = NL /\ L(i) = last)
      BY <1>1 DEF L
    <3>2. i >= p
      BY <1>1, <1>2, <1>5, <3>1
    <3>3. ~(i > e)
      <4>1. i > e /\ e <= n => L(i) > last
        BY <1>11, <3>1
      <4>2. L(i) \in Nat /\ last \in Nat /\ ~(L(i) > last)
        BY <3>1
      <4>. QED
        BY <1>1, <1>9, <3>1, <4>1, <4>2
    <3>4. i # e
      <4>1. e # n + 1 => text[e] = NL /\ L(e) = last
        BY <1>9
      <4>2. i # n + 1
        BY <1>1, <3>1
      <4>. QED
        BY <3>1, <4>1, <4>2
    <3>. QED
      BY <1>1, <1>5, <1>9, <3>1, <3>2, <3>3, <3>4
  <2>2. ASSUME NEW i \in p..q PROVE i \in inside
    <3>1. i \in 1..n
      BY <1>1, <1>5, <1>9
    <3>2. L(i) \in first..last /\ ~(text[i] = NL /\ L(i) = last)
      BY <1>9, <1>10
    <3>. QED
      BY <1>1, <3>1, <3>2 DEF L
  <2>. QED
    BY <2>1, <2>2
<1>13. p \in Nat /\ p >= 1 /\ q \in p - 1..n /\ q \in Nat
  BY <1>1, <1>5, <1>9
<1>14. Lines(text, first, last) = SubSeq(text, p, q)
  <2>1. Lines(text, first, last) = IF inside = {} THEN <<>> ELSE SubSeq(text, Min(inside), Max(inside))
    BY DEF Lines
  <2>. HIDE DEF inside, q
  <2>2. CASE p <= q
    <3>1. p \in p..q
      <4>1. p \in Nat /\ q \in Nat
        BY <1>13
      <4>. QED
        BY <2>2, <4>1
    <3>2. Min(p..q) = p /\ Max(p..q) = q
      BY <1>13, <2>2, EndsOfInterval
    <3>. QED
      BY <1>12, <2>1, <3>1, <3>2
  <2>3. CASE ~(p <= q)
    <3>1. p..q = {} /\ q = p - 1
      BY <1>13, <2>3
    <3>2. SubSeq(text, p, q) = <<>>
      BY <1>1, <1>13, <3>1
    <3>. QED
      BY <1>12, <2>1, <3>1, <3>2
  <2>. QED
    BY <2>2, <2>3
<1>15. Cut(text, p, q)
  BY <1>1, <1>5, <1>6, <1>9, <1>13 DEF Cut, n
<1>16. \A i \in 1..n :
          /\ L(i) >= first => i >= p
          /\ L(i) \in first..last /\ ~(text[i] = NL /\ L(i) = last) => i <= q
  <2>. SUFFICES ASSUME NEW i \in 1..n
                PROVE  /\ L(i) >= first => i >= p
                       /\ L(i) \in first..last /\ ~(text[i] = NL /\ L(i) = last) => i <= q
    OBVIOUS
  <2>1. L(i) >= first => i >= p
    BY <1>1, <1>2, <1>5
  <2>2. L(i) \in first..last /\ ~(text[i] = NL /\ L(i) = last) => i \in inside
    BY <1>1 DEF L
  <2>. QED
    BY <1>12, <1>13, <2>1, <2>2
<1>17. Spans(text, first, last, p, q)
  BY <1>6, <1>14, <1>15, <1>16 DEF L, n, Spans
<1>18. p \in 1..Len(text) + 1 /\ q \in p - 1..Len(text)
  BY <1>5, <1>13 DEF n
<1>. QED
  BY <1>17, <1>18


LEMMA GreatestIsMax ==
  ASSUME NEW n \in Nat, NEW T \in SUBSET (0..n), T # {}
  PROVE  Max(T) \in T /\ \A y \in T : Max(T) >= y
<1>1. PICK x \in T : \A y \in T : y <= x
  BY GreatestPosition
<1>2. \A y \in T : x >= y
  BY <1>1
<1>. QED
  BY <1>2 DEF Max

(* A part of a text.                                                        *)
LEMMA PartOfText ==
  ASSUME NEW text \in Seq(STRING), NEW p \in 1..Len(text) + 1, NEW q \in p - 1..Len(text)
  PROVE  /\ SubSeq(text, p, q) \in Seq(STRING)
         /\ Len(SubSeq(text, p, q)) = q - p + 1
         /\ DOMAIN SubSeq(text, p, q) = 1..q - p + 1
         /\ \A i \in 1..q - p + 1 : SubSeq(text, p, q)[i] = text[p + i - 1]
<1>1. Len(text) \in Nat /\ p \in Int /\ q \in Int /\ q >= p - 1
  OBVIOUS
<1>2. \A i \in p..q : i \in 1..Len(text)
  BY <1>1
<1>3. \A i \in p..q : text[i] \in STRING
  BY <1>2, ElementOfSeq
<1>4. /\ SubSeq(text, p, q) \in Seq(STRING)
      /\ Len(SubSeq(text, p, q)) = IF p <= q THEN q - p + 1 ELSE 0
      /\ \A i \in 1..q - p + 1 : SubSeq(text, p, q)[i] = text[p + i - 1]
  BY <1>1, <1>3, SubSeqProperties
<1>5. Len(SubSeq(text, p, q)) = q - p + 1
  <2>1. CASE p <= q
    BY <1>4, <2>1
  <2>2. CASE ~(p <= q)
    <3>1. q - p + 1 = 0
      BY <1>1, <2>2
    <3>. QED
      BY <1>4, <2>2, <3>1
  <2>. QED
    BY <2>1, <2>2
<1>6. DOMAIN SubSeq(text, p, q) = 1..Len(SubSeq(text, p, q))
  BY <1>4, LenProperties
<1>. QED
  BY <1>4, <1>5, <1>6

LEMMA PartOfPart ==
  ASSUME NEW text \in Seq(STRING), NEW p \in 1..Len(text) + 1, NEW q \in p - 1..Len(text),
         NEW a \in 1..q - p + 2, NEW b \in a - 1..q - p + 1
  PROVE  /\ SubSeq(SubSeq(text, p, q), a, b) = SubSeq(text, p + a - 1, p + b - 1)
         /\ p + a - 1 \in 1..Len(text) + 1 /\ p + b - 1 \in p + a - 2..Len(text)
<1>. DEFINE s == SubSeq(text, p, q)
            u == SubSeq(text, p + a - 1, p + b - 1)
            t == SubSeq(s, a, b)
<1>1. Len(text) \in Nat /\ p \in Int /\ q \in Int /\ a \in Int /\ b \in Int /\ q >= p - 1
  OBVIOUS
<1>2. p + a - 1 \in 1..Len(text) + 1 /\ p + b - 1 \in p + a - 2..Len(text)
  BY <1>1
<1>3. s \in Seq(STRING) /\ Len(s) = q - p + 1 /\ \A i \in 1..q - p + 1 : s[i] = text[p + i - 1]
  BY PartOfText
<1>4. /\ u \in Seq(STRING) /\ Len(u) = (p + b - 1) - (p + a - 1) + 1
      /\ \A i \in 1..(p + b - 1) - (p + a - 1) + 1 : u[i] = text[(p + a - 1) + i - 1]
  <2>1. p + b - 1 \in (p + a - 1) - 1..Len(text)
    BY <1>1, <1>2
  <2>. QED
    BY <1>2, <2>1, PartOfText
<1>. HIDE DEF s
<1>5. a \in 1..Len(s) + 1 /\ b \in a - 1..Len(s)
  BY <1>1, <1>3
<1>6. t \in Seq(STRING) /\ Len(t) = b - a + 1 /\ \A i \in 1..b - a + 1 : t[i] = s[a + i - 1]
  BY <1>3, <1>5, PartOfText
<1>. HIDE DEF t, u
<1>7. Len(t) = Len(u)
  BY <1>1, <1>4, <1>6
<1>8. ASSUME NEW i \in 1..Len(t) PROVE t[i] = u[i]
  <2>1. i \in 1..b - a + 1 /\ a + i - 1 \in 1..q - p + 1 /\ i \in 1..(p + b - 1) - (p + a - 1) + 1
    BY <1>1, <1>6
  <2>2. p + (a + i - 1) - 1 = (p + a - 1) + i - 1
    BY <1>1, <2>1
  <2>3. t[i] = text[p + (a + i - 1) - 1]
    BY <1>3, <1>6, <2>1
  <2>4. u[i] = text[(p + a - 1) + i - 1]
    BY <1>4, <2>1
  <2>. QED
    BY <2>2, <2>3, <2>4
<1>9. t = u
  BY <1>4, <1>6, <1>7, <1>8, SeqEqual
<1>. QED
  BY <1>2, <1>9 DEF s, t, u

(* What is trimmed off a cut leaves a cut, with all its lines that have text. *)
LEMMA TrimmedIsCut ==
  ASSUME NEW text \in Seq(STRING), NEW p \in 1..Len(text) + 1, NEW q \in p - 1..Len(text),
         Cut(text, p, q)
  PROVE  \E r \in p - 1..q :
            /\ Cut(text, p, r)
            /\ TrimTrailingEmptyLines(SubSeq(text, p, q)) = SubSeq(text, p, r)
            /\ \A i \in p..q : text[i] # NL => i <= r /\ (i < q => i < r)
<1>. DEFINE s == SubSeq(text, p, q)
            n == Len(text)
            kept == {i \in DOMAIN s : s[i] # NL}
<1>1. n \in Nat /\ p \in Nat /\ q \in Int /\ q >= p - 1 /\ p >= 1 /\ q <= n
  OBVIOUS
<1>2. Len(s) = q - p + 1 /\ DOMAIN s = 1..q - p + 1 /\ \A i \in 1..q - p + 1 : s[i] = text[p + i - 1]
  BY PartOfText
<1>3. (p = 1 \/ text[p - 1] = NL) /\ (q = n \/ text[q + 1] = NL)
  BY DEF Cut
<1>. HIDE DEF s
<1>4. kept = {i \in 1..q - p + 1 : text[p + i - 1] # NL}
  BY <1>2
<1>5. TrimTrailingEmptyLines(s) =
         IF kept = {} THEN <<>> ELSE SubSeq(s, 1, Min({Max(kept) + 1, Len(s)}))
  BY DEF TrimTrailingEmptyLines
<1>. HIDE DEF kept
<1>6. CASE kept = {}
  <2>1. \A i \in p..q : text[i] = NL
    <3>. SUFFICES ASSUME NEW i \in p..q, text[i] # NL PROVE FALSE
      OBVIOUS
    <3>1. i - p + 1 \in 1..q - p + 1 /\ p + (i - p + 1) - 1 = i
      BY <1>1
    <3>2. i - p + 1 \in kept
      BY <1>4, <3>1
    <3>. QED
      BY <1>6, <3>2
  <2>2. p - 1 = n \/ text[(p - 1) + 1] = NL
    <3>1. CASE p <= q
      <4>1. p \in p..q /\ (p - 1) + 1 = p
        BY <1>1, <3>1
      <4>. QED
        BY <2>1, <4>1
    <3>2. CASE ~(p <= q)
      <4>1. q = p - 1
        BY <1>1, <3>2
      <4>. QED
        BY <1>3, <4>1
    <3>. QED
      BY <3>1, <3>2
  <2>3. p - 1 \in p - 1..q /\ p - 1 \in p - 1..n
    BY <1>1
  <2>4. Cut(text, p, p - 1)
    BY <1>3, <2>2, <2>3 DEF Cut
  <2>5. SubSeq(text, p, p - 1) = <<>>
    BY <1>1, SubSeqEmpty
  <2>6. TrimTrailingEmptyLines(s) = SubSeq(text, p, p - 1)
    BY <1>5, <1>6, <2>5
  <2>. QED
    BY <2>1, <2>3, <2>4, <2>6 DEF s
<1>7. CASE kept # {}
  <2>. DEFINE m == Max(kept)
              k == Min({m + 1, Len(s)})
              r == p + k - 1
  <2>1. m \in kept /\ \A y \in kept : m >= y
    <3>1. kept \in SUBSET (0..q - p + 1) /\ q - p + 1 \in Nat
      BY <1>1, <1>4
    <3>. QED
      BY <1>7, <3>1, GreatestIsMax
  <2>. HIDE DEF m
  <2>2. m \in 1..q - p + 1 /\ text[p + m - 1] # NL
    BY <1>4, <2>1
  <2>3. k \in {m + 1, Len(s)} /\ k <= m + 1 /\ k <= Len(s)
    <3>. DEFINE two == {m + 1, Len(s)}
    <3>1. two \in SUBSET Nat /\ two # {}
      BY <1>1, <1>2, <2>2
    <3>2. Min(two) \in two /\ \A y \in two : Min(two) =< y
      <4>. HIDE DEF two
      <4>. QED
        BY <3>1, LeastPosition
    <3>. QED
      BY <3>2
  <2>. HIDE DEF k
  <2>4. k \in 1..q - p + 1 /\ (k = m + 1 \/ k = q - p + 1)
    BY <1>1, <1>2, <2>2, <2>3
  <2>5. SubSeq(s, 1, k) = SubSeq(text, p, r)
    <3>1. 1 \in 1..q - p + 2 /\ k \in 1 - 1..q - p + 1
      BY <1>1, <2>4
    <3>2. SubSeq(SubSeq(text, p, q), 1, k) = SubSeq(text, p + 1 - 1, p + k - 1)
      BY <3>1, PartOfPart
    <3>3. p + 1 - 1 = p
      BY <1>1
    <3>. QED
      BY <3>2, <3>3 DEF s
  <2>6. TrimTrailingEmptyLines(s) = SubSeq(text, p, r)
    BY <1>5, <1>7, <2>5 DEF k, m
  <2>7. r \in p - 1..q /\ r \in p - 1..n
    BY <1>1, <2>4
  <2>8. ASSUME NEW i \in p..q, text[i] # NL PROVE i <= p + m - 1
    <3>1. i - p + 1 \in 1..q - p + 1 /\ p + (i - p + 1) - 1 = i
      BY <1>1
    <3>2. i - p + 1 \in kept
      BY <1>4, <2>8, <3>1
    <3>3. m >= i - p + 1
      BY <2>1, <3>2
    <3>. QED
      BY <1>1, <2>2, <3>3
  <2>9. r = n \/ text[r + 1] = NL
    <3>1. CASE r = q
      BY <1>3, <3>1
    <3>2. CASE r # q
      <4>1. k = m + 1 /\ r + 1 \in p..q /\ r + 1 > p + m - 1
        BY <1>1, <2>2, <2>4, <3>2
      <4>2. text[r + 1] = NL
        BY <1>1, <2>2, <2>8, <4>1
      <4>. QED
        BY <4>2
    <3>. QED
      BY <3>1, <3>2
  <2>10. Cut(text, p, r)
    BY <1>3, <2>7, <2>9 DEF Cut
  <2>11. ASSUME NEW i \in p..q, text[i] # NL PROVE i <= r /\ (i < q => i < r)
    <3>1. i <= p + m - 1
      BY <2>8, <2>11
    <3>. QED
      BY <1>1, <2>2, <2>4, <3>1
  <2>. HIDE DEF r
  <2>. QED
    BY <2>6, <2>7, <2>10, <2>11 DEF s
<1>. QED
  BY <1>6, <1>7

LEMMA LeastIs ==
  ASSUME NEW T \in SUBSET Nat, NEW x \in T, \A y \in T : x <= y
  PROVE  Min(T) = x
<1>1. Min(T) \in T /\ Min(T) =< x /\ x <= Min(T)
  <2>1. Min(T) \in T /\ \A y \in T : Min(T) =< y
    BY LeastPosition
  <2>. QED
    BY <2>1
<1>2. Min(T) \in Nat /\ x \in Nat
  BY <1>1
<1>. QED
  BY <1>1, <1>2

LEMMA FirstOccurrence ==
  ASSUME NEW text \in Seq(STRING), NEW old \in Seq(STRING), Occurrences(text, old) # {}
  PROVE  /\ Occurrences(text, old) \in SUBSET Nat
         /\ Min(Occurrences(text, old)) \in Occurrences(text, old)
         /\ \A i \in Occurrences(text, old) : Min(Occurrences(text, old)) <= i
         /\ Min(Occurrences(text, old)) \in 1..Len(text) - Len(old) + 1
<1>1. Occurrences(text, old) \in SUBSET (1..Len(text) - Len(old) + 1)
  BY DEF Occurrences
<1>2. Occurrences(text, old) \in SUBSET Nat
  BY <1>1
<1>3. Min(Occurrences(text, old)) \in Occurrences(text, old) /\ \A i \in Occurrences(text, old) : Min(Occurrences(text, old)) =< i
  BY <1>2, LeastPosition
<1>. QED
  BY <1>1, <1>2, <1>3

(* What an occurrence has in it.                                            *)
LEMMA OccurrenceIsOld ==
  ASSUME NEW text \in Seq(STRING), NEW old \in Seq(STRING), NEW at \in Occurrences(text, old)
  PROVE  /\ at \in 1..Len(text) - Len(old) + 1
         /\ \A i \in 1..Len(old) : text[at + i - 1] = old[i]
<1>1. at \in 1..Len(text) - Len(old) + 1 /\ SubSeq(text, at, at + Len(old) - 1) = old
  BY DEF Occurrences
<1>2. Len(text) \in Nat /\ Len(old) \in Nat
  OBVIOUS
<1>. DEFINE b == at + Len(old) - 1
<1>3. at \in 1..Len(text) + 1 /\ b \in at - 1..Len(text) /\ b - at + 1 = Len(old)
  BY <1>1, <1>2
<1>. HIDE DEF b
<1>4. \A i \in 1..b - at + 1 : SubSeq(text, at, b)[i] = text[at + i - 1]
  BY <1>3, PartOfText
<1>. QED
  BY <1>1, <1>3, <1>4 DEF b

LEMMA OccurrencesInPart ==
  ASSUME NEW text \in Seq(STRING), NEW p \in 1..Len(text) + 1, NEW r \in p - 1..Len(text),
         NEW old \in Seq(STRING), old # <<>>, NEW j \in Nat
  PROVE  j \in Occurrences(SubSeq(text, p, r), old) <=>
           j \in 1..r - p + 1 - Len(old) + 1 /\ p + j - 1 \in Occurrences(text, old)
<1>1. Len(text) \in Nat /\ Len(old) \in Nat \ {0} /\ p \in Nat /\ r \in Int
  BY EmptySeq
<1>2. Len(SubSeq(text, p, r)) = r - p + 1
  BY PartOfText
<1>3. CASE j \in 1..r - p + 1 - Len(old) + 1
  <2>1. j \in 1..r - p + 2 /\ j + Len(old) - 1 \in j - 1..r - p + 1
    BY <1>1, <1>3
  <2>2. SubSeq(SubSeq(text, p, r), j, j + Len(old) - 1)
          = SubSeq(text, p + j - 1, p + (j + Len(old) - 1) - 1)
    BY <2>1, PartOfPart
  <2>3. /\ p + (j + Len(old) - 1) - 1 = (p + j - 1) + Len(old) - 1
        /\ p + j - 1 \in 1..Len(text) - Len(old) + 1
    BY <1>1, <1>3
  <2>. DEFINE part == SubSeq(text, p, r)
              here == SubSeq(part, j, j + Len(old) - 1)
              there == SubSeq(text, (p + j - 1), (p + j - 1) + Len(old) - 1)
  <2>4. here = there
    BY <2>2, <2>3
  <2>5. j \in 1..Len(part) - Len(old) + 1
    BY <1>2, <1>3
  <2>6. j \in Occurrences(part, old) <=> here = old
    BY <2>5 DEF Occurrences
  <2>7. p + j - 1 \in Occurrences(text, old) <=> there = old
    BY <2>3 DEF Occurrences
  <2>. QED
    BY <1>3, <2>4, <2>6, <2>7
<1>4. CASE ~(j \in 1..r - p + 1 - Len(old) + 1)
  BY <1>2, <1>4 DEF Occurrences
<1>. QED
  BY <1>3, <1>4

LEMMA ThreeParts ==
  ASSUME NEW x \in Seq(STRING), NEW y \in Seq(STRING), NEW z \in Seq(STRING)
  PROVE  LET w == x \o y \o z IN
         /\ w \in Seq(STRING)
         /\ Len(w) = Len(x) + Len(y) + Len(z)
         /\ \A i \in 1..Len(x) : w[i] = x[i]
         /\ \A i \in 1..Len(y) : w[Len(x) + i] = y[i]
         /\ \A i \in 1..Len(z) : w[Len(x) + Len(y) + i] = z[i]
<1>. DEFINE v == x \o y
            w == v \o z
<1>1. Len(x) \in Nat /\ Len(y) \in Nat /\ Len(z) \in Nat
  OBVIOUS
<1>2. /\ v \in Seq(STRING) /\ Len(v) = Len(x) + Len(y)
      /\ \A i \in 1..Len(x) + Len(y) : v[i] = IF i <= Len(x) THEN x[i] ELSE y[i - Len(x)]
  BY ConcatProperties
<1>. HIDE DEF v
<1>3. /\ w \in Seq(STRING) /\ Len(w) = Len(v) + Len(z)
      /\ \A i \in 1..Len(v) + Len(z) : w[i] = IF i <= Len(v) THEN v[i] ELSE z[i - Len(v)]
  <2>1. v \in Seq(STRING)
    BY <1>2
  <2>. QED
    BY <2>1, ConcatProperties
<1>. HIDE DEF w
<1>4. Len(w) = Len(x) + Len(y) + Len(z)
  BY <1>2, <1>3
<1>5. ASSUME NEW i \in 1..Len(x) PROVE w[i] = x[i]
  <2>1. i \in 1..Len(x) + Len(y) /\ i <= Len(x) /\ i <= Len(v) /\ i \in 1..Len(v) + Len(z)
    BY <1>1, <1>2
  <2>. QED
    BY <1>2, <1>3, <2>1
<1>6. ASSUME NEW i \in 1..Len(y) PROVE w[Len(x) + i] = y[i]
  <2>1. /\ Len(x) + i \in 1..Len(x) + Len(y) /\ ~(Len(x) + i <= Len(x))
        /\ Len(x) + i <= Len(v) /\ Len(x) + i \in 1..Len(v) + Len(z)
        /\ (Len(x) + i) - Len(x) = i
    BY <1>1, <1>2
  <2>. QED
    BY <1>2, <1>3, <2>1
<1>7. ASSUME NEW i \in 1..Len(z) PROVE w[Len(x) + Len(y) + i] = z[i]
  <2>1. /\ ~(Len(v) + i <= Len(v)) /\ Len(v) + i \in 1..Len(v) + Len(z)
        /\ (Len(v) + i) - Len(v) = i
    BY <1>1, <1>2
  <2>. QED
    BY <1>2, <1>3, <2>1
<1>. QED
  BY <1>3, <1>4, <1>5, <1>6, <1>7 DEF w, v

(* A text after an edit, mark by mark.                                      *)
LEMMA ReplacedText ==
  ASSUME NEW text \in Seq(STRING), NEW old \in Seq(STRING), NEW new \in Seq(STRING),
         Occurrences(text, old) # {}
  PROVE  LET after == Replace(text, old, new)
             k     == Min(Occurrences(text, old)) - 1
         IN
         /\ after \in Seq(STRING)
         /\ Len(after) = Len(text) - Len(old) + Len(new)
         /\ \A i \in 1..k : after[i] = text[i]
         /\ \A i \in 1..Len(new) : after[k + i] = new[i]
         /\ \A i \in 1..Len(text) - Len(old) - k :
               after[k + Len(new) + i] = text[k + Len(old) + i]
<1>. DEFINE k == Min(Occurrences(text, old)) - 1
<1>0. k \in 0..Len(text) - Len(old) /\ k + 1 = Min(Occurrences(text, old))
  <2>1. Min(Occurrences(text, old)) \in 1..Len(text) - Len(old) + 1
    BY FirstOccurrence
  <2>. QED
    BY <2>1
<1>. HIDE DEF k
<1>. DEFINE x == SubSeq(text, 1, k)
            z == SubSeq(text, k + Len(old) + 1, Len(text))
            after == x \o new \o z
<1>1. Len(text) \in Nat /\ Len(old) \in Nat /\ Len(new) \in Nat /\ k \in Nat /\ k + Len(old) <= Len(text)
  BY <1>0
<1>2. Replace(text, old, new) = after
  <2>1. (k + 1) - 1 = k /\ (k + 1) + Len(old) = k + Len(old) + 1
    BY <1>1
  <2>. QED
    BY <1>0, <2>1 DEF Replace
<1>3. 1 \in 1..Len(text) + 1 /\ k \in 1 - 1..Len(text) /\ k - 1 + 1 = k
  BY <1>1
<1>4. x \in Seq(STRING) /\ Len(x) = k - 1 + 1 /\ \A i \in 1..k - 1 + 1 : x[i] = text[1 + i - 1]
  BY <1>3, PartOfText
<1>5. /\ k + Len(old) + 1 \in 1..Len(text) + 1 /\ Len(text) \in (k + Len(old) + 1) - 1..Len(text)
      /\ Len(text) - (k + Len(old) + 1) + 1 = Len(text) - Len(old) - k
  BY <1>1
<1>6. /\ z \in Seq(STRING) /\ Len(z) = Len(text) - (k + Len(old) + 1) + 1
      /\ \A i \in 1..Len(text) - (k + Len(old) + 1) + 1 : z[i] = text[(k + Len(old) + 1) + i - 1]
  BY <1>5, PartOfText
<1>. HIDE DEF x, z
<1>7. /\ after \in Seq(STRING)
      /\ Len(after) = Len(x) + Len(new) + Len(z)
      /\ \A i \in 1..Len(x) : after[i] = x[i]
      /\ \A i \in 1..Len(new) : after[Len(x) + i] = new[i]
      /\ \A i \in 1..Len(z) : after[Len(x) + Len(new) + i] = z[i]
  <2>1. x \in Seq(STRING) /\ z \in Seq(STRING)
    BY <1>4, <1>6
  <2>. QED
    BY <2>1, ThreeParts, SMTT(30)
<1>. HIDE DEF after
<1>8. Len(x) = k /\ Len(z) = Len(text) - Len(old) - k
  BY <1>3, <1>4, <1>5, <1>6
<1>9. Len(after) = Len(text) - Len(old) + Len(new)
  <2>1. Len(after) = k + Len(new) + (Len(text) - Len(old) - k)
    BY <1>7, <1>8
  <2>. QED
    BY <1>1, <2>1
<1>10. ASSUME NEW i \in 1..k PROVE after[i] = text[i]
  <2>1. i \in 1..k - 1 + 1 /\ 1 + i - 1 = i
    BY <1>1
  <2>. QED
    BY <1>4, <1>7, <1>8, <2>1
<1>11. ASSUME NEW i \in 1..Len(new) PROVE after[k + i] = new[i]
  BY <1>7, <1>8
<1>12. ASSUME NEW i \in 1..Len(text) - Len(old) - k
       PROVE  after[k + Len(new) + i] = text[k + Len(old) + i]
  <2>1. (k + Len(old) + 1) + i - 1 = k + Len(old) + i
    BY <1>1
  <2>2. z[i] = text[(k + Len(old) + 1) + i - 1]
    BY <1>5, <1>6
  <2>. QED
    BY <1>7, <1>8, <2>1, <2>2
<1>. QED
  BY <1>2, <1>7, <1>9, <1>10, <1>11, <1>12 DEF k

\* After has new marks in the place of n of a text, after the first k.
Edited(text, n, new, after, k) ==
  /\ after \in Seq(STRING)
  /\ Len(after) = Len(text) - n + Len(new)
  /\ \A i \in 1..k : after[i] = text[i]
  /\ \A i \in 1..Len(new) : after[k + i] = new[i]
  /\ \A i \in 1..Len(text) - n - k : after[k + Len(new) + i] = text[k + n + i]

LEMMA EditedText ==
  ASSUME NEW text \in Seq(STRING), NEW old \in Seq(STRING), NEW new \in Seq(STRING),
         Occurrences(text, old) # {}
  PROVE  Edited(text, Len(old), new, Replace(text, old, new), Min(Occurrences(text, old)) - 1)
BY ReplacedText, ZenonT(40) DEF Edited

LEMMA EndsOfTwo ==
  ASSUME NEW a \in Int, NEW b \in Int
  PROVE  /\ Max({a, b}) \in {a, b} /\ Max({a, b}) >= a /\ Max({a, b}) >= b
         /\ Min({a, b}) \in {a, b} /\ Min({a, b}) <= a /\ Min({a, b}) <= b
<1>1. \E x \in {a, b} : \A y \in {a, b} : x >= y
  BY a >= b \/ b >= a
<1>2. Max({a, b}) \in {a, b} /\ \A y \in {a, b} : Max({a, b}) >= y
  BY <1>1 DEF Max
<1>3. \E x \in {a, b} : \A y \in {a, b} : x =< y
  BY a >= b \/ b >= a
<1>4. Min({a, b}) \in {a, b} /\ \A y \in {a, b} : Min({a, b}) =< y
  BY <1>3 DEF Min
<1>. QED
  BY <1>2, <1>4

(* The lines that are shown have all the lines that are put in place of others. *)
LEMMA ShownLines ==
  ASSUME NEW text \in Seq(STRING), NEW old \in Seq(STRING), old # <<>>,
         Occurrences(text, old) # {}, NEW context \in Nat,
         NEW k \in 0..Len(text) - Len(old), k + 1 = Min(Occurrences(text, old))
  PROVE  LET first == ShownFrom(text, old, context)
             last  == ShownTo(text, old, context)
         IN  /\ first \in Nat \ {0} /\ last \in Nat /\ first <= last
             /\ first <= LineOf(text, k + 1) /\ LineOf(text, k + Len(old)) <= last
             /\ last <= LastLine(text)
             /\ context > 0 => last = LastLine(text) \/ last > LineOf(text, k + Len(old))
<1>. DEFINE first == ShownFrom(text, old, context)
            last  == ShownTo(text, old, context)
            a     == LineOf(text, k + 1)
            b     == LineOf(text, k + Len(old))
            z     == LastLine(text)
<1>1. Len(old) \in Nat \ {0} /\ Len(text) \in Nat /\ k \in Nat /\ k + Len(old) <= Len(text)
  BY EmptySeq
<1>2. /\ k + 1 \in 1..Len(text) + 1 /\ k + Len(old) \in 1..Len(text) + 1
      /\ Len(text) + 1 \in 1..Len(text) + 1
      /\ k + 1 \in 1..k + Len(old) /\ k + Len(old) \in 1..Len(text) + 1
  BY <1>1
<1>3. a \in Nat \ {0} /\ b \in Nat \ {0} /\ z \in Nat \ {0} /\ a <= b /\ b <= z
  BY <1>2, LinesCounted, LinesOrdered DEF LastLine
<1>4. first = Max({1, a - context})
  BY DEF ShownFrom
<1>5. last = IF z = 1 \/ b + context = 1 THEN z ELSE Min({b + context, z})
  <2>1. (k + 1) + Len(old) - 1 = k + Len(old)
    BY <1>1
  <2>. QED
    BY <2>1 DEF ShownTo
<1>. HIDE DEF first, last, a, b, z
<1>6. first \in Nat \ {0} /\ first <= a
  <2>1. 1 \in Int /\ a - context \in Int
    BY <1>3
  <2>2. /\ Max({1, a - context}) \in {1, a - context}
        /\ Max({1, a - context}) >= 1 /\ Max({1, a - context}) >= a - context
    BY <2>1, EndsOfTwo
  <2>. QED
    BY <1>3, <1>4, <2>1, <2>2
<1>7. last \in Nat /\ b <= last /\ last <= z /\ (context > 0 => last = z \/ last > b)
  <2>1. CASE z = 1 \/ b + context = 1
    BY <1>3, <1>5, <2>1
  <2>2. CASE ~(z = 1 \/ b + context = 1)
    <3>1. b + context \in Int /\ z \in Int
      BY <1>3
    <3>2. /\ Min({b + context, z}) \in {b + context, z}
          /\ Min({b + context, z}) <= b + context /\ Min({b + context, z}) <= z
      BY <3>1, EndsOfTwo
    <3>. QED
      BY <1>3, <1>5, <2>2, <3>2
  <2>. QED
    BY <2>1, <2>2
<1>8. first <= last
  BY <1>3, <1>6, <1>7
<1>. QED
  BY <1>6, <1>7, <1>8 DEF first, last, a, b, z

(* Of a text with an edit a part that holds it is a part of the text after it. *)
LEMMA ReplacedInPart ==
  ASSUME NEW text \in Seq(STRING), NEW old \in Seq(STRING), NEW new \in Seq(STRING),
         old # <<>>, Occurrences(text, old) # {},
         NEW k \in 0..Len(text) - Len(old), k + 1 = Min(Occurrences(text, old)),
         NEW p \in 1..k + 1, NEW r \in k + Len(old)..Len(text), Cut(text, p, r)
  PROVE  LET after == Replace(text, old, new)
             q     == r - Len(old) + Len(new)
         IN  /\ q \in k + Len(new)..Len(after)
             /\ Cut(after, p, q)
             /\ Replace(SubSeq(text, p, r), old, new) = SubSeq(after, p, q)
<1>. DEFINE after == Replace(text, old, new)
            q     == r - Len(old) + Len(new)
            part  == SubSeq(text, p, r)
            j     == k + 1 - p
            F     == Replace(part, old, new)
            G     == SubSeq(after, p, q)
<1>1. /\ Len(old) \in Nat \ {0} /\ Len(text) \in Nat /\ Len(new) \in Nat /\ k \in Nat /\ p \in Nat
      /\ r \in Nat /\ p >= 1 /\ p <= k + 1 /\ r >= k + Len(old) /\ r <= Len(text)
  BY EmptySeq
<1>2. p \in 1..Len(text) + 1 /\ r \in p - 1..Len(text)
  BY <1>1
<1>3. /\ after \in Seq(STRING)
      /\ Len(after) = Len(text) - Len(old) + Len(new)
      /\ \A i \in 1..k : after[i] = text[i]
      /\ \A i \in 1..Len(new) : after[k + i] = new[i]
      /\ \A i \in 1..Len(text) - Len(old) - k :
            after[k + Len(new) + i] = text[k + Len(old) + i]
  <2>1. k = Min(Occurrences(text, old)) - 1
    BY <1>1
  <2>. DEFINE l == Min(Occurrences(text, old)) - 1
  <2>2. Edited(text, Len(old), new, after, l)
    BY EditedText
  <2>. HIDE DEF after, l
  <2>3. k = l
    BY <2>1 DEF l
  <2>. QED
    BY <2>2, <2>3 DEF Edited
<1>4. /\ part \in Seq(STRING) /\ Len(part) = r - p + 1
      /\ \A i \in 1..r - p + 1 : part[i] = text[p + i - 1]
  BY <1>2, PartOfText
<1>5. j + 1 = Min(Occurrences(part, old)) /\ Occurrences(part, old) # {}
  <2>1. \A i \in Nat : i \in Occurrences(part, old) <=>
           i \in 1..r - p + 1 - Len(old) + 1 /\ p + i - 1 \in Occurrences(text, old)
    BY <1>2, OccurrencesInPart
  <2>2. k + 1 \in Occurrences(text, old) /\ \A i \in Occurrences(text, old) : k + 1 <= i
    BY FirstOccurrence
  <2>3. j + 1 \in Nat /\ j + 1 \in 1..r - p + 1 - Len(old) + 1 /\ p + (j + 1) - 1 = k + 1
    BY <1>1
  <2>4. j + 1 \in Occurrences(part, old)
    BY <2>1, <2>2, <2>3
  <2>5. Occurrences(part, old) \in SUBSET Nat
    BY <1>1 DEF Occurrences
  <2>6. ASSUME NEW i \in Occurrences(part, old) PROVE j + 1 <= i
    <3>1. i \in Nat /\ k + 1 <= p + i - 1
      BY <2>1, <2>2, <2>5
    <3>. QED
      BY <1>1, <3>1
  <2>. HIDE DEF j
  <2>. QED
    BY <2>4, <2>5, <2>6, LeastIs
<1>. HIDE DEF after, part, j
<1>6. j \in 0..Len(part) - Len(old)
  BY <1>1, <1>4 DEF j
<1>7. /\ F \in Seq(STRING)
      /\ Len(F) = Len(part) - Len(old) + Len(new)
      /\ \A i \in 1..j : F[i] = part[i]
      /\ \A i \in 1..Len(new) : F[j + i] = new[i]
      /\ \A i \in 1..Len(part) - Len(old) - j :
            F[j + Len(new) + i] = part[j + Len(old) + i]
  <2>. DEFINE l == Min(Occurrences(part, old)) - 1
  <2>1. part \in Seq(STRING)
    BY <1>4
  <2>2. j = l
    BY <1>5, <1>6
  <2>3. Edited(part, Len(old), new, F, l)
    BY <1>5, <2>1, EditedText
  <2>. HIDE DEF F, l
  <2>. QED
    BY <2>2, <2>3 DEF Edited
<1>8. q \in k + Len(new)..Len(after) /\ p \in 1..Len(after) + 1 /\ q \in p - 1..Len(after) /\ q \in Nat
  BY <1>1, <1>3
<1>9. Cut(after, p, q)
  <2>1. (p = 1 \/ text[p - 1] = NL) /\ (r = Len(text) \/ text[r + 1] = NL)
    BY DEF Cut
  <2>2. p = 1 \/ after[p - 1] = NL
    <3>1. p # 1 => p - 1 \in 1..k
      BY <1>1
    <3>. QED
      BY <1>3, <2>1, <3>1
  <2>3. q = Len(after) \/ after[q + 1] = NL
    <3>1. CASE r = Len(text)
      BY <1>1, <1>3, <3>1
    <3>2. CASE r # Len(text)
      <4>. DEFINE i == r + 1 - k - Len(old)
      <4>1. i \in 1..Len(text) - Len(old) - k /\ k + Len(new) + i = q + 1 /\ k + Len(old) + i = r + 1
        BY <1>1, <3>2
      <4>. HIDE DEF i
      <4>2. after[k + Len(new) + i] = text[k + Len(old) + i]
        BY <1>3, <4>1
      <4>. QED
        BY <2>1, <3>2, <4>1, <4>2
    <3>. QED
      BY <3>1, <3>2
  <2>. QED
    BY <1>8, <2>2, <2>3 DEF Cut
<1>. HIDE DEF q, F
<1>10. /\ G \in Seq(STRING) /\ Len(G) = q - p + 1
       /\ \A i \in 1..q - p + 1 : G[i] = after[p + i - 1]
  <2>1. after \in Seq(STRING)
    BY <1>3
  <2>. QED
    BY <1>8, <2>1, PartOfText
<1>. HIDE DEF G
<1>11. Len(F) = Len(G)
  <2>1. Len(F) = r - p + 1 - Len(old) + Len(new) /\ Len(G) = q - p + 1
    BY <1>4, <1>7, <1>10
  <2>. QED
    BY <1>1, <2>1 DEF q
<1>12. ASSUME NEW i \in 1..Len(F) PROVE F[i] = G[i]
  <2>1. Len(F) = r - p + 1 - Len(old) + Len(new) /\ i \in Nat /\ i \in 1..q - p + 1 /\ j + p = k + 1 /\ j \in Nat
    <3>1. Len(F) = r - p + 1 - Len(old) + Len(new)
      BY <1>4, <1>7
    <3>2. Len(F) = q - p + 1
      BY <1>10, <1>11
    <3>3. j + p = k + 1 /\ j \in Nat
      BY <1>1 DEF j
    <3>4. i \in 1..q - p + 1
      BY <3>2
    <3>. QED
      BY <3>1, <3>3, <3>4
  <2>2. G[i] = after[p + i - 1]
    BY <1>10, <2>1
  <2>3. CASE i <= j
    <3>1. i \in 1..j /\ i \in 1..r - p + 1 /\ p + i - 1 \in 1..k
      BY <1>1, <2>1, <2>3
    <3>2. F[i] = part[i] /\ part[i] = text[p + i - 1]
      BY <1>4, <1>7, <3>1
    <3>3. after[p + i - 1] = text[p + i - 1]
      BY <1>3, <3>1
    <3>. QED
      BY <2>2, <3>2, <3>3
  <2>4. CASE i > j /\ i <= j + Len(new)
    <3>. DEFINE d == i - j
    <3>1. d \in 1..Len(new) /\ j + d = i /\ k + d = p + i - 1
      BY <1>1, <2>1, <2>4
    <3>. HIDE DEF d
    <3>2. F[j + d] = new[d] /\ after[k + d] = new[d]
      BY <1>3, <1>7, <3>1
    <3>. QED
      BY <2>2, <3>1, <3>2
  <2>5. CASE i > j + Len(new)
    <3>. DEFINE d == i - j - Len(new)
    <3>1. j + Len(new) + d = i /\ k + Len(new) + d = p + i - 1 /\ p + (j + Len(old) + d) - 1 = k + Len(old) + d
      <4>1. i \in Int /\ j \in Int /\ j + p = k + 1 /\ Len(new) \in Int /\ Len(old) \in Int
        BY <1>1, <2>1
      <4>2. j + Len(new) + d = i
        BY <4>1
      <4>3. k + Len(new) + d = p + i - 1
        BY <1>1, <4>1
      <4>4. d \in Int
        BY <4>1
      <4>. HIDE DEF d
      <4>5. p + (j + Len(old) + d) - 1 = k + Len(old) + d
        BY <1>1, <4>1, <4>4, SMTT(30)
      <4>. QED
        BY <4>2, <4>3, <4>5
    <3>2. d \in Nat \ {0} /\ i <= r - p + 1 - Len(old) + Len(new)
      BY <1>1, <2>1, <2>5
    <3>3. d <= r - p + 1 - Len(old) - j
      BY <1>1, <2>1, <3>2
    <3>4. /\ d \in 1..r - p + 1 - Len(old) - j /\ d \in 1..Len(text) - Len(old) - k
          /\ j + Len(old) + d \in 1..r - p + 1
      <4>. HIDE DEF d
      <4>1. j \in Nat /\ j + p = k + 1
        BY <2>1
      <4>2. d \in 1..r - p + 1 - Len(old) - j
        BY <1>1, <3>2, <3>3, <4>1
      <4>3. d \in 1..Len(text) - Len(old) - k
        BY <1>1, <3>2, <3>3, <4>1
      <4>4. j + Len(old) + d \in 1..r - p + 1
        BY <1>1, <3>2, <3>3, <4>1
      <4>. QED
        BY <4>2, <4>3, <4>4
    <3>. HIDE DEF d
    <3>5. F[j + Len(new) + d] = part[j + Len(old) + d]
      <4>1. d \in 1..Len(part) - Len(old) - j
        <5>1. Len(part) - Len(old) - j = r - p + 1 - Len(old) - j
          <6>1. Len(part) = r - p + 1
            BY <1>4
          <6>2. j \in Int /\ Len(old) \in Int /\ r \in Int /\ p \in Int
            BY <1>1, <2>1
          <6>. QED
            BY <6>1, <6>2
        <5>2. d \in 1..r - p + 1 - Len(old) - j
          BY <3>4
        <5>. QED
          BY <5>1, <5>2
      <4>. QED
        BY <1>7, <4>1
    <3>6. part[j + Len(old) + d] = text[p + (j + Len(old) + d) - 1]
      BY <1>4, <3>4
    <3>7. after[k + Len(new) + d] = text[k + Len(old) + d]
      BY <1>3, <3>4
    <3>. QED
      BY <2>2, <3>1, <3>5, <3>6, <3>7
  <2>. QED
    BY <1>1, <2>1, <2>3, <2>4, <2>5
<1>13. F = G
  BY <1>7, <1>10, <1>11, <1>12, SeqEqual
<1>. QED
  BY <1>8, <1>9, <1>13 DEF after, q, F, G, part

(* What a validator makes of an edit is a cut of the file, from before the edit *)
(* on: of the file as the edit leaves it, but where the edit only shifts empty   *)
(* lines that are not shown, or no line around it is.                            *)
LEMMA FragmentIsCut ==
  ASSUME NEW text \in Seq(STRING), NEW old \in Seq(STRING), NEW new \in Seq(STRING),
         old # <<>>, Occurrences(text, old) # {}, NEW context \in Nat
  PROVE  LET F     == ExtractEditFragment(text, old, new, context)
             after == Replace(text, old, new)
             at    == Min(Occurrences(text, old))
         IN  \E p \in 1..at :
                /\ p > 1 <=> StartsLater(text, old, context)
                /\ \/ /\ \E q \in p - 1..Len(text) : Cut(text, p, q) /\ F = SubSeq(text, p, q)
                      /\ ~(EndsInText(old) /\ context > 0)
                   \/ \E q \in at + Len(new) - 1..Len(after) :
                         Cut(after, p, q) /\ F = SubSeq(after, p, q)
<1>. DEFINE F     == ExtractEditFragment(text, old, new, context)
            after == Replace(text, old, new)
            at    == Min(Occurrences(text, old))
            k     == at - 1
            first == ShownFrom(text, old, context)
            last  == ShownTo(text, old, context)
<1>1. k \in 0..Len(text) - Len(old) /\ k + 1 = at
  <2>1. at \in 1..Len(text) - Len(old) + 1
    BY FirstOccurrence
  <2>. QED
    BY <2>1
<1>. HIDE DEF k
<1>2. /\ Len(old) \in Nat \ {0} /\ Len(text) \in Nat /\ Len(new) \in Nat /\ k \in Nat
      /\ k + Len(old) <= Len(text)
  BY <1>1, EmptySeq
<1>3. /\ first \in Nat \ {0} /\ last \in Nat /\ first <= last
      /\ first <= LineOf(text, k + 1) /\ LineOf(text, k + Len(old)) <= last
      /\ last <= LastLine(text)
      /\ context > 0 => last = LastLine(text) \/ last > LineOf(text, k + Len(old))
  BY <1>1, ShownLines
<1>4. F = Replace(TrimTrailingEmptyLines(Lines(text, first, last)), old, new)
  BY DEF ExtractEditFragment
<1>5. StartsLater(text, old, context) <=> first > 1
  BY DEF StartsLater
<1>. HIDE DEF first, last, F, after
<1>6. PICK p \in 1..Len(text) + 1 : \E q \in p - 1..Len(text) : Spans(text, first, last, p, q)
  <2>1. first \in Nat \ {0} /\ last \in Nat /\ first <= last /\ last <= LastLine(text)
    BY <1>3
  <2>. QED
    BY <2>1, LinesAreCut
<1>7. PICK q \in p - 1..Len(text) :
         /\ Cut(text, p, q) /\ Lines(text, first, last) = SubSeq(text, p, q)
         /\ p > 1 <=> first > 1
         /\ \A i \in 1..Len(text) :
               /\ LineOf(text, i) >= first => i >= p
               /\ LineOf(text, i) \in first..last /\ ~(text[i] = NL /\ LineOf(text, i) = last)
                  => i <= q
  BY <1>6 DEF Spans
<1>8. p \in 1..at
  <2>1. k + 1 \in 1..Len(text)
    BY <1>2
  <2>2. k + 1 >= p
    BY <1>3, <1>7, <2>1
  <2>. QED
    BY <1>1, <1>2, <2>2
<1>9. PICK r \in p - 1..q :
         /\ Cut(text, p, r)
         /\ TrimTrailingEmptyLines(SubSeq(text, p, q)) = SubSeq(text, p, r)
         /\ \A i \in p..q : text[i] # NL => i <= r /\ (i < q => i < r)
  <2>1. Cut(text, p, q)
    BY <1>7
  <2>. QED
    BY <2>1, TrimmedIsCut
<1>10. F = Replace(SubSeq(text, p, r), old, new)
  BY <1>4, <1>7, <1>9
<1>11. r \in p - 1..Len(text) /\ p \in Nat /\ q \in Int /\ r \in Int /\ p >= 1
  BY <1>2
<1>12. CASE k + Len(old) <= r
  <2>1. p \in 1..k + 1 /\ r \in k + Len(old)..Len(text)
    BY <1>1, <1>2, <1>8, <1>11, <1>12
  <2>. DEFINE e == r - Len(old) + Len(new)
  <2>2. e \in k + Len(new)..Len(after) /\ Cut(after, p, e) /\ Replace(SubSeq(text, p, r), old, new) = SubSeq(after, p, e)
    BY <1>1, <1>9, <2>1, ReplacedInPart DEF after
  <2>3. k + Len(new) = at + Len(new) - 1
    BY <1>1, <1>2
  <2>. HIDE DEF e
  <2>4. \E d \in at + Len(new) - 1..Len(after) : Cut(after, p, d) /\ F = SubSeq(after, p, d)
    BY <1>10, <2>2, <2>3
  <2>. HIDE DEF at
  <2>. QED
    BY <1>5, <1>7, <1>8, <2>4 DEF F, after, at
<1>13. CASE ~(k + Len(old) <= r)
  <2>1. Occurrences(SubSeq(text, p, r), old) = {}
    <3>. SUFFICES ASSUME NEW j \in Occurrences(SubSeq(text, p, r), old) PROVE FALSE
      OBVIOUS
    <3>1. j \in Nat
      BY DEF Occurrences
    <3>2. j \in 1..r - p + 1 - Len(old) + 1 /\ p + j - 1 \in Occurrences(text, old)
      BY <1>11, <3>1, OccurrencesInPart
    <3>3. at <= p + j - 1
      BY <3>2, FirstOccurrence
    <3>. QED
      BY <1>1, <1>2, <1>11, <1>13, <3>1, <3>2, <3>3
  <2>2. F = SubSeq(text, p, r)
    BY <1>10, <2>1 DEF Replace
  <2>3. ASSUME EndsInText(old), context > 0 PROVE FALSE
    <3>1. PICK d \in DOMAIN old : old[d] # NL /\ d + 1 >= Len(old)
      BY <2>3 DEF EndsInText
    <3>2. d \in 1..Len(old) /\ d \in Nat
      BY LenProperties
    <3>3. text[k + d] = old[d]
      <4>1. at \in Occurrences(text, old)
        BY FirstOccurrence
      <4>2. text[at + d - 1] = old[d]
        BY <3>2, <4>1, OccurrenceIsOld
      <4>3. at + d - 1 = k + d
        BY <1>1, <1>2, <3>2
      <4>. QED
        BY <4>2, <4>3
    <3>. DEFINE c == k + d
                b == k + Len(old)
    <3>4. /\ c \in 1..Len(text) /\ b \in 1..Len(text) /\ b <= c + 1 /\ c <= b /\ k + 1 \in 1..c
          /\ c \in 1..Len(text) + 1 /\ b \in 1..Len(text) + 1 /\ c \in 1..b /\ b + 1 \in 1..Len(text) + 1
          /\ Len(text) + 1 \in 1..Len(text) + 1 /\ b + 1 \in 1..Len(text) + 1
      BY <1>2, <3>1, <3>2
    <3>. HIDE DEF c, b
    <3>5. /\ LineOf(text, k + 1) <= LineOf(text, c) /\ LineOf(text, c) <= LineOf(text, b)
          /\ LineOf(text, c) \in Nat /\ LineOf(text, b) \in Nat /\ LineOf(text, k + 1) \in Nat
      <4>1. k + 1 \in 1..Len(text) + 1
        BY <1>2
      <4>2. LineOf(text, k + 1) <= LineOf(text, c) /\ LineOf(text, c) <= LineOf(text, b)
        BY <3>4, LinesOrdered
      <4>3. LineOf(text, c) \in Nat /\ LineOf(text, b) \in Nat /\ LineOf(text, k + 1) \in Nat
        BY <3>4, <4>1, LinesCounted
      <4>. QED
        BY <4>2, <4>3
    <3>6. LineOf(text, b) <= last /\ first <= LineOf(text, k + 1)
          /\ (last = LastLine(text) \/ last > LineOf(text, b))
      BY <1>3, <2>3 DEF b
    <3>7. LineOf(text, c) \in first..last /\ LineOf(text, b) \in first..last
      BY <1>3, <3>5, <3>6
    <3>8. text[c] # NL /\ c <= q /\ c >= p
      <4>1. text[c] # NL
        BY <3>1, <3>3 DEF c
      <4>. QED
        BY <1>3, <1>7, <3>4, <3>7, <4>1
    <3>9. ~(text[b] = NL /\ LineOf(text, b) = last)
      <4>. SUFFICES ASSUME text[b] = NL, LineOf(text, b) = last PROVE FALSE
        OBVIOUS
      <4>1. last = LastLine(text)
        BY <1>3, <3>5, <3>6
      <4>2. LineOf(text, b + 1) = LineOf(text, b) + 1
        <5>1. b \in DOMAIN text
          BY <3>4, LenProperties
        <5>. QED
          BY <3>4, <5>1, LinesCounted
      <4>3. LineOf(text, b + 1) <= LineOf(text, Len(text) + 1)
        <5>1. b + 1 \in 1..Len(text) + 1 /\ Len(text) + 1 \in 1..Len(text) + 1
          BY <3>4
        <5>. QED
          BY <5>1, LinesOrdered
      <4>. QED
        BY <1>3, <4>1, <4>2, <4>3 DEF LastLine
    <3>10. b <= q
      BY <1>7, <3>4, <3>7, <3>9
    <3>11. c \in p..q
      BY <1>11, <3>4, <3>8
    <3>12. c <= r /\ (c < q => c < r)
      BY <1>9, <3>8, <3>11
    <3>13. b <= r
      BY <1>11, <3>4, <3>10, <3>12
    <3>. QED
      BY <1>13, <3>13 DEF b
  <2>4. Cut(text, p, r)
    BY <1>9
  <2>5. /\ \E e \in p - 1..Len(text) : Cut(text, p, e) /\ F = SubSeq(text, p, e)
        /\ ~(EndsInText(old) /\ context > 0)
    BY <1>11, <2>2, <2>3, <2>4
  <2>. HIDE DEF at
  <2>. QED
    BY <1>5, <1>7, <1>8, <2>5 DEF F, after, at
<1>. QED
  BY <1>12, <1>13

(* Texts that are the same up to the NL that ends the first line have the   *)
(* same first line.                                                         *)
LEMMA FirstLineShared ==
  ASSUME NEW s \in Seq(STRING), NEW t \in Seq(STRING), NEW n \in Nat,
         n <= Len(s), n <= Len(t), \A i \in 1..n : s[i] = t[i],
         NEW j \in 1..n, s[j] = NL
  PROVE  FirstLine(s) = FirstLine(t)
<1>. DEFINE E(x) == {i \in DOMAIN x : x[i] = NL}
            m == Min(E(s))
<1>1. /\ Len(s) \in Nat /\ Len(t) \in Nat /\ DOMAIN s = 1..Len(s) /\ DOMAIN t = 1..Len(t)
  BY LenProperties
<1>2. E(s) \in SUBSET Nat /\ E(t) \in SUBSET Nat
  BY <1>1
<1>3. j \in E(s)
  BY <1>1
<1>4. m \in E(s) /\ \A i \in E(s) : m =< i
  <2>. HIDE DEF E
  <2>. QED
    BY <1>2, <1>3, LeastPosition
<1>. HIDE DEF m
<1>5. m \in 1..n /\ s[m] = NL
  BY <1>1, <1>3, <1>4
<1>6. m \in E(t)
  BY <1>1, <1>5
<1>7. ASSUME NEW i \in E(t) PROVE m <= i
  <2>1. i \in Nat /\ m \in Nat
    BY <1>2, <1>5
  <2>2. i <= n => i \in E(s)
    BY <1>1, <1>7
  <2>. QED
    BY <1>4, <1>5, <2>1, <2>2
<1>8. Min(E(t)) = m
  <2>. HIDE DEF E
  <2>. QED
    BY <1>2, <1>6, <1>7, LeastIs
<1>9. FirstLine(s) = SubSeq(s, 1, m - 1) /\ FirstLine(t) = SubSeq(t, 1, m - 1)
  <2>1. E(s) # {} /\ E(t) # {}
    BY <1>3, <1>6
  <2>. QED
    BY <1>8, <2>1 DEF FirstLine, m
<1>10. SubSeq(s, 1, m - 1) = SubSeq(t, 1, m - 1)
  <2>. DEFINE a == SubSeq(s, 1, m - 1)
              b == SubSeq(t, 1, m - 1)
  <2>1. /\ 1 \in 1..Len(s) + 1 /\ m - 1 \in 1 - 1..Len(s) /\ 1 \in 1..Len(t) + 1
        /\ m - 1 \in 1 - 1..Len(t) /\ (m - 1) - 1 + 1 = m - 1
    BY <1>1, <1>5
  <2>2. a \in Seq(STRING) /\ Len(a) = m - 1 /\ \A i \in 1..m - 1 : a[i] = s[1 + i - 1]
    BY <2>1, PartOfText
  <2>3. b \in Seq(STRING) /\ Len(b) = m - 1 /\ \A i \in 1..m - 1 : b[i] = t[1 + i - 1]
    BY <2>1, PartOfText
  <2>. HIDE DEF a, b
  <2>4. ASSUME NEW i \in 1..Len(a) PROVE a[i] = b[i]
    <3>1. i \in 1..m - 1 /\ i \in 1..n /\ 1 + i - 1 = i
      BY <1>5, <2>2
    <3>. QED
      BY <2>2, <2>3, <3>1
  <2>5. a = b
    BY <2>2, <2>3, <2>4, SeqEqual
  <2>. QED
    BY <2>5 DEF a, b
<1>. QED
  BY <1>9, <1>10

(* An edit leaves the first line, if a line that ends before it does.       *)
LEMMA FirstLineKept ==
  ASSUME NEW text \in Seq(STRING), NEW old \in Seq(STRING), NEW new \in Seq(STRING),
         old # <<>>, Occurrences(text, old) # {},
         NEW j \in 1..Min(Occurrences(text, old)) - 1,
         text[j] = NL \/ Replace(text, old, new)[j] = NL
  PROVE  FirstLine(Replace(text, old, new)) = FirstLine(text)
<1>. DEFINE after == Replace(text, old, new)
            k == Min(Occurrences(text, old)) - 1
<1>1. k \in 0..Len(text) - Len(old)
  <2>1. Min(Occurrences(text, old)) \in 1..Len(text) - Len(old) + 1
    BY FirstOccurrence
  <2>. QED
    BY <2>1
<1>2. /\ after \in Seq(STRING) /\ Len(after) = Len(text) - Len(old) + Len(new)
      /\ \A i \in 1..k : after[i] = text[i]
  BY ReplacedText
<1>3. j \in 1..k /\ (text[j] = NL \/ after[j] = NL)
  OBVIOUS
<1>. HIDE DEF after, k
<1>4. k \in Nat /\ k <= Len(text) /\ k <= Len(after) /\ text[j] = NL
  BY <1>1, <1>2, <1>3
<1>5. \A i \in 1..k : text[i] = after[i]
  BY <1>2
<1>6. after \in Seq(STRING)
  BY <1>2
<1>7. FirstLine(text) = FirstLine(after)
  BY <1>3, <1>4, <1>5, <1>6, FirstLineShared
<1>. QED
  BY <1>7 DEF after

(* The first line of a cut is that of the rest of the text.                 *)
LEMMA FirstLineOfCut ==
  ASSUME NEW text \in Seq(STRING), NEW p \in 1..Len(text), NEW q \in p..Len(text), Cut(text, p, q)
  PROVE  FirstLine(SubSeq(text, p, q)) = FirstLine(SubSeq(text, p, Len(text)))
<1>. DEFINE n == Len(text)
            s == SubSeq(text, p, q)
            t == SubSeq(text, p, n)
            E(x) == {i \in DOMAIN x : x[i] = NL}
<1>1. n \in Nat /\ p \in Nat /\ q \in Nat /\ p >= 1 /\ p <= q /\ q <= n
  OBVIOUS
<1>2. p \in 1..Len(text) + 1 /\ q \in p - 1..Len(text) /\ n \in p - 1..Len(text)
  BY <1>1
<1>3. /\ s \in Seq(STRING) /\ Len(s) = q - p + 1 /\ DOMAIN s = 1..q - p + 1
      /\ \A i \in 1..q - p + 1 : s[i] = text[p + i - 1]
  BY <1>2, PartOfText
<1>4. /\ t \in Seq(STRING) /\ Len(t) = n - p + 1 /\ DOMAIN t = 1..n - p + 1
      /\ \A i \in 1..n - p + 1 : t[i] = text[p + i - 1]
  BY <1>2, PartOfText
<1>5. q = n \/ text[q + 1] = NL
  BY DEF Cut
<1>. HIDE DEF s, t, n
<1>6. CASE E(s) # {}
  <2>1. PICK j \in 1..q - p + 1 : s[j] = NL
    BY <1>3, <1>6
  <2>2. \A i \in 1..q - p + 1 : s[i] = t[i]
    <3>. SUFFICES ASSUME NEW i \in 1..q - p + 1 PROVE s[i] = t[i]
      OBVIOUS
    <3>1. i \in 1..n - p + 1
      BY <1>1
    <3>. QED
      BY <1>3, <1>4, <3>1
  <2>3. q - p + 1 \in Nat /\ q - p + 1 <= Len(s) /\ q - p + 1 <= Len(t)
    BY <1>1, <1>3, <1>4
  <2>4. s \in Seq(STRING) /\ t \in Seq(STRING)
    BY <1>3, <1>4
  <2>5. FirstLine(s) = FirstLine(t)
    BY <2>1, <2>2, <2>3, <2>4, FirstLineShared
  <2>. QED
    BY <2>5 DEF s, t, n
<1>7. CASE E(s) = {} /\ q = n
  BY <1>7 DEF s, t, n
<1>8. CASE E(s) = {} /\ q # n
  <2>. DEFINE m == q - p + 2
  <2>1. m \in 1..n - p + 1 /\ p + m - 1 = q + 1
    BY <1>1, <1>8
  <2>2. m \in E(t)
    BY <1>4, <1>5, <1>8, <2>1
  <2>3. ASSUME NEW i \in E(t) PROVE m <= i
    <3>1. i \in Nat /\ i \in 1..n - p + 1 /\ t[i] = NL
      BY <1>1, <1>4
    <3>2. SUFFICES ASSUME i \in 1..q - p + 1 PROVE FALSE
      BY <1>1, <3>1
    <3>3. s[i] = NL
      BY <1>3, <1>4, <3>1, <3>2
    <3>. QED
      BY <1>3, <1>8, <3>2, <3>3
  <2>4. E(t) \in SUBSET Nat
    BY <1>1, <1>4
  <2>5. Min(E(t)) = m
    <3>. HIDE DEF E, m
    <3>. QED
      BY <2>2, <2>3, <2>4, LeastIs
  <2>6. E(t) # {}
    BY <2>2
  <2>7. FirstLine(t) = SubSeq(t, 1, m - 1)
    BY <2>5, <2>6 DEF FirstLine
  <2>8. FirstLine(s) = s
    BY <1>8 DEF FirstLine
  <2>9. SubSeq(t, 1, m - 1) = s
    <3>1. /\ 1 \in 1..n - p + 2 /\ m - 1 \in 1 - 1..n - p + 1
          /\ p + 1 - 1 = p /\ p + (m - 1) - 1 = q
      BY <1>1
    <3>. DEFINE b == m - 1
    <3>. HIDE DEF b
    <3>2. SubSeq(SubSeq(text, p, n), 1, b) = SubSeq(text, p + 1 - 1, p + b - 1)
      BY <1>2, <3>1, PartOfPart DEF b
    <3>. QED
      BY <3>1, <3>2 DEF s, t, b
  <2>10. FirstLine(s) = FirstLine(t)
    BY <2>7, <2>8, <2>9
  <2>. QED
    BY <2>10 DEF s, t, n
<1>. QED
  BY <1>6, <1>7, <1>8
-----------------------------------------------------------------------------
\* What the file validators answer to

FileJudges == Linters \cup {"workflow", "secrets"}

\* Validator v blocks what it is shown, with this text in the file.
Blocks(c, v, seen, file) ==
  IF v = "secrets" THEN Secrets(Cfg(c, v), seen).block
  ELSE ValidateFile(v, Cfg(c, v), seen, file).block

LEMMA FileJudgeAnswers ==
  ASSUME NEW c, NEW v \in FileJudges, NEW call, NEW view
  PROVE  ValidateOne(v, Cfg(c, v), call, view).block = Blocks(c, v, call, FileAt(call.path))
BY DEF FileJudges, Linters, ValidateOne, Blocks

(* A validator that is handed a content does not look into the file.        *)
LEMMA ContentIsWhole ==
  ASSUME NEW c, NEW v \in FileJudges, NEW seen, seen.tool # "Edit", seen.content # <<>>,
         NEW f, NEW g
  PROVE  Blocks(c, v, seen, f) = Blocks(c, v, seen, g)
<1>1. ~IsEdit(seen)
  BY DEF IsEdit
<1>2. CASE v = "secrets"
  BY <1>2 DEF Blocks
<1>3. CASE v = "workflow"
  BY <1>1, <1>3 DEF Blocks, ValidateFile, Workflow, ContentOrEdited
<1>4. CASE v = "shellscript"
  BY <1>1, <1>4 DEF Blocks, ValidateFile, ShellScript, ShellDirective, EditOrWhole
<1>5. CASE v = "python"
  BY <1>1, <1>5 DEF Blocks, ValidateFile, Python, EditOrWhole
<1>6. CASE v = "javascript"
  BY <1>1, <1>6 DEF Blocks, ValidateFile, JavaScript, EditOrWhole
<1>7. CASE v = "rust"
  BY <1>1, <1>7 DEF Blocks, ValidateFile, Rust, EditOrWhole
<1>8. CASE v = "markdown"
  BY <1>1, <1>8 DEF Blocks, ValidateFile, Markdown, ContentOrEdit
<1>. QED
  BY <1>2, <1>3, <1>4, <1>5, <1>6, <1>7, <1>8 DEF FileJudges, Linters

\* A file validator no rule answers for objects, once it is through, to what it
\* blocks: of an edit to that alone, in the file it read, and of a content to that.
Judges(c, p) ==
  LET v    == Order[p[2]]
      seen == SeenAs(c.call)[p[1]]
      at   == <<v, c.call.path>>
  IN  p \notin c.pending /\ v \in FileJudges /\ RuleAnswer(c.settings, v, seen) = <<>> =>
        IF c.call.tool = "Edit"
        THEN at \in DOMAIN c.read /\ (Silent(c, v) <=> ~Blocks(c, v, seen, c.read[at]))
        ELSE seen.content # <<>> /\ Blocks(c, v, seen, NoFileText) => ~Silent(c, v)

JudgesAll(c) ==
  /\ DOMAIN c = Fields
  /\ c.judged =>
       /\ c.pending \subseteq Jobs(c.settings, c.call)
       /\ c.stage # "judging" => c.pending = {}
       /\ c.stage = "allowed" => c.objections = {}
       /\ \A k \in DOMAIN c.read : c.read[k] \in Seq(STRING) \/ c.read[k] = NoFileText
       /\ \A o \in c.objections : \E p \in Jobs(c.settings, c.call) : Order[p[2]] = o.validator
       /\ \A p \in Jobs(c.settings, c.call) : Judges(c, p)
       /\ c.call.tool = "Edit" => \A p \in c.pending : Silent(c, Order[p[2]])

ViewInv ==
  \A h \in Hook :
     \/ calls[h] = Idle
     \/ calls[h].stage = "asked"
     \/ calls[h].stage \in {"judging", "allowed", "refused"} /\ JudgesAll(calls[h])

(* The validators of an edit are shown the edit, each once.                 *)
LEMMA EditPlaces ==
  ASSUME NEW settings, NEW call, call.tool # "Bash",
         NEW p \in Jobs(settings, call)
  PROVE  /\ p[1] = 0 /\ p[2] \in DOMAIN Order /\ p = <<0, p[2]>>
         /\ SeenAs(call)[p[1]] = call
<1>1. p \in (DOMAIN SeenAs(call)) \X DOMAIN Order
  BY DEF Jobs
<1>2. p[1] = 0
  BY <1>1, SeenIsCallOrWrite
<1>3. SeenAs(call)[p[1]] = call
  BY <1>1, <1>2, SeenIsCallOrWrite
<1>. QED
  BY <1>1, <1>2, <1>3

LEMMA HeardReads ==
  ASSUME NEW c, DOMAIN c = Fields, NEW job, NEW verdict, NEW d, d = Heard(c, job, verdict)
  PROVE  LET at == <<job.validator, job.call.path>> IN
         /\ DOMAIN d.read = DOMAIN c.read \cup {at}
         /\ d.read[at] = FileAt(job.call.path)
         /\ \A k \in DOMAIN c.read : k # at => d.read[k] = c.read[k]
<1>. DEFINE at == <<job.validator, job.call.path>>
<1>1. d.read = Over(c.read, [k \in {at} |-> FileAt(k[2])])
  BY DEF Heard, Fields
<1>2. at[2] = job.call.path
  OBVIOUS
<1>. HIDE DEF at
<1>3. d.read = [k \in DOMAIN c.read \cup {at} |->
                  IF k \in {at} THEN FileAt(k[2]) ELSE c.read[k]]
  BY <1>1 DEF Over
<1>. QED
  BY <1>2, <1>3 DEF at

(* The next validator objects to what it blocks, and the others stay with   *)
(* what they answered.                                                      *)
LEMMA HeardJudges ==
  ASSUME NEW c, JudgesAll(c), c.judged, c.stage = "judging", c.pending # {},
         NEW q, q = FirstOf(c.pending), NEW job, job = JobAt(c.call, q),
         NEW verdict, verdict = Verdict(c, job), NEW d, d = Heard(c, job, verdict),
         NEW p \in Jobs(c.settings, c.call)
  PROVE  /\ Judges(d, p)
         /\ c.call.tool = "Edit" /\ p \in d.pending => Silent(d, Order[p[2]])
<1>. DEFINE v    == Order[p[2]]
            seen == SeenAs(c.call)[p[1]]
            at   == <<v, c.call.path>>
<1>1. /\ DOMAIN c = Fields /\ c.pending \subseteq Jobs(c.settings, c.call) /\ Judges(c, p)
      /\ c.call.tool = "Edit" => \A r \in c.pending : Silent(c, Order[r[2]])
  BY DEF JudgesAll
<1>2. q \in c.pending /\ q \in Jobs(c.settings, c.call) /\ q \in Nat \X DOMAIN Order
  BY <1>1, FirstJob
<1>3. /\ d.pending = c.pending \ {q} /\ d.settings = c.settings /\ d.call = c.call
  BY <1>1, HeardKeeps
<1>4. /\ c.objections \subseteq d.objections
      /\ verdict.block => ObjectionOf(job, verdict) \in d.objections
      /\ \A o \in d.objections :
            o \in c.objections \/ (verdict.block /\ o = ObjectionOf(job, verdict))
  BY <1>1, HeardObjects
<1>5. /\ DOMAIN d.read = DOMAIN c.read \cup {<<job.validator, job.call.path>>}
      /\ d.read[<<job.validator, job.call.path>>] = FileAt(job.call.path)
      /\ \A k \in DOMAIN c.read : k # <<job.validator, job.call.path>> => d.read[k] = c.read[k]
  BY <1>1, HeardReads
<1>6. job.validator = Order[q[2]] /\ job.call = SeenAs(c.call)[q[1]]
  BY DEF JobAt
<1>7. \A w, f : Blocks(d, w, seen, f) = Blocks(c, w, seen, f)
  BY <1>3 DEF Blocks, Cfg
<1>8. (ObjectionOf(job, verdict)).validator = job.validator
  BY DEF ObjectionOf
<1>9. CASE p # q
  <2>1. ASSUME c.call.tool = "Edit" PROVE job.validator # v /\ (Silent(d, v) <=> Silent(c, v))
    <3>1. p = <<0, p[2]>> /\ q = <<0, q[2]>> /\ p[2] \in DOMAIN Order /\ q[2] \in DOMAIN Order
      BY <1>2, <2>1, EditPlaces
    <3>2. p[2] # q[2]
      BY <1>9, <3>1
    <3>3. job.validator # v
      BY <1>6, <3>1, <3>2, OrderIsDistinct
    <3>4. Silent(c, v) => Silent(d, v)
      BY <1>4, <1>8, <3>3 DEF Silent
    <3>5. Silent(d, v) => Silent(c, v)
      BY <1>4 DEF Silent
    <3>. QED
      BY <3>3, <3>4, <3>5
  <2>2. c.call.tool = "Edit" /\ p \in d.pending => Silent(d, Order[p[2]])
    BY <1>1, <1>3, <2>1
  <2>3. Judges(d, p)
    <3>1. SUFFICES ASSUME p \notin d.pending, v \in FileJudges, RuleAnswer(d.settings, v, seen) = <<>>
                   PROVE  IF c.call.tool = "Edit"
                          THEN at \in DOMAIN d.read /\ (Silent(d, v) <=> ~Blocks(d, v, seen, d.read[at]))
                          ELSE seen.content # <<>> /\ Blocks(d, v, seen, NoFileText) => ~Silent(d, v)
      BY <1>3 DEF Judges
    <3>2. p \notin c.pending /\ RuleAnswer(c.settings, v, seen) = <<>>
      BY <1>3, <1>9, <3>1
    <3>3. IF c.call.tool = "Edit"
          THEN at \in DOMAIN c.read /\ (Silent(c, v) <=> ~Blocks(c, v, seen, c.read[at]))
          ELSE seen.content # <<>> /\ Blocks(c, v, seen, NoFileText) => ~Silent(c, v)
      BY <1>1, <3>1, <3>2 DEF Judges
    <3>. HIDE DEF v, seen
    <3>4. CASE c.call.tool = "Edit"
      <4>1. at # <<job.validator, job.call.path>> /\ at \in DOMAIN c.read
        BY <2>1, <3>3, <3>4
      <4>2. d.read[at] = c.read[at] /\ at \in DOMAIN d.read
        BY <1>5, <4>1
      <4>. QED
        BY <1>7, <2>1, <3>3, <3>4, <4>2
    <3>5. CASE c.call.tool # "Edit"
      <4>1. Silent(d, v) => Silent(c, v)
        BY <1>4 DEF Silent
      <4>. QED
        BY <1>7, <3>3, <3>5, <4>1
    <3>. QED
      BY <3>4, <3>5
  <2>. QED
    BY <2>2, <2>3
<1>10. CASE p = q
  <2>1. p \notin d.pending
    BY <1>3, <1>10
  <2>2. Judges(d, p)
    <3>1. SUFFICES ASSUME v \in FileJudges, RuleAnswer(d.settings, v, seen) = <<>>
                   PROVE  IF c.call.tool = "Edit"
                          THEN at \in DOMAIN d.read /\ (Silent(d, v) <=> ~Blocks(d, v, seen, d.read[at]))
                          ELSE seen.content # <<>> /\ Blocks(d, v, seen, NoFileText) => ~Silent(d, v)
      BY <1>3 DEF Judges
    <3>2. job.validator = v /\ job.call = seen
      BY <1>6, <1>10
    <3>. HIDE DEF seen
    <3>3. verdict = ValidateOne(v, Cfg(c, v), seen, View(c.known, v))
      BY <1>3, <3>1, <3>2 DEF Verdict, Cfg
    <3>. HIDE DEF v
    <3>4. verdict.block = Blocks(d, v, seen, FileAt(seen.path))
      BY <1>7, <3>1, <3>3, FileJudgeAnswers
    <3>5. verdict.block => ~Silent(d, v)
      BY <1>4, <1>8, <3>2 DEF Silent
    <3>6. CASE c.call.tool = "Edit"
      <4>1. seen = c.call
        BY <3>6, EditPlaces DEF seen
      <4>2. at \in DOMAIN d.read /\ d.read[at] = FileAt(seen.path)
        BY <1>5, <3>2, <4>1
      <4>3. Silent(c, v)
        BY <1>1, <1>2, <1>10, <3>6 DEF v
      <4>4. ~verdict.block => Silent(d, v)
        BY <1>4, <4>3 DEF Silent
      <4>. QED
        BY <3>4, <3>5, <3>6, <4>2, <4>4
    <3>7. CASE c.call.tool # "Edit"
      <4>1. SUFFICES ASSUME seen.content # <<>>, Blocks(d, v, seen, NoFileText) PROVE ~Silent(d, v)
        BY <3>7
      <4>2. seen.tool # "Edit"
        <5>1. p[1] \in DOMAIN SeenAs(c.call)
          BY DEF Jobs
        <5>2. seen = c.call \/ \E fw : seen = WriteOf(fw)
          BY <5>1, SeenIsCallOrWrite DEF seen
        <5>. QED
          BY <3>7, <5>2 DEF WriteOf, Tool
      <4>. QED
        BY <3>1, <3>4, <3>5, <4>1, <4>2, ContentIsWhole
    <3>. QED
      BY <3>6, <3>7
  <2>. QED
    BY <2>1, <2>2
<1>. QED
  BY <1>9, <1>10

LEMMA HeardJudgesAll ==
  ASSUME WorldInv, NEW c, JudgesAll(c), c.stage = "judging", c.pending # {},
         NEW job, job = JobAt(c.call, FirstOf(c.pending)),
         NEW verdict, verdict = Verdict(c, job), NEW d, d = Heard(c, job, verdict)
  PROVE  d.stage = "judging" /\ JudgesAll(d)
<1>. DEFINE q  == FirstOf(c.pending)
            at == <<job.validator, job.call.path>>
<1>1. DOMAIN c = Fields
  BY DEF JudgesAll
<1>2. /\ DOMAIN d = Fields /\ d.stage = "judging" /\ d.judged = c.judged /\ d.call = c.call
      /\ d.settings = c.settings /\ d.pending \subseteq c.pending
  BY <1>1, HeardKeeps
<1>3. job = JobAt(c.call, q)
  OBVIOUS
<1>. HIDE DEF q
<1>4. ASSUME d.judged
      PROVE  /\ d.pending \subseteq Jobs(d.settings, d.call)
             /\ \A k \in DOMAIN d.read : d.read[k] \in Seq(STRING) \/ d.read[k] = NoFileText
             /\ \A o \in d.objections : \E p \in Jobs(d.settings, d.call) : Order[p[2]] = o.validator
             /\ \A p \in Jobs(d.settings, d.call) : Judges(d, p)
             /\ d.call.tool = "Edit" => \A p \in d.pending : Silent(d, Order[p[2]])
  <2>1. /\ c.judged /\ c.pending \subseteq Jobs(c.settings, c.call)
        /\ \A k \in DOMAIN c.read : c.read[k] \in Seq(STRING) \/ c.read[k] = NoFileText
        /\ \A o \in c.objections : \E p \in Jobs(c.settings, c.call) : Order[p[2]] = o.validator
    BY <1>2, <1>4 DEF JudgesAll
  <2>2. q \in Jobs(c.settings, c.call)
    BY <1>1, <2>1, FirstJob DEF q
  <2>3. \A k \in DOMAIN d.read : d.read[k] \in Seq(STRING) \/ d.read[k] = NoFileText
    <3>1. /\ DOMAIN d.read = DOMAIN c.read \cup {at}
          /\ d.read[at] = FileAt(job.call.path)
          /\ \A k \in DOMAIN c.read : k # at => d.read[k] = c.read[k]
      BY <1>1, HeardReads
    <3>2. FileAt(job.call.path) \in Seq(STRING) \/ FileAt(job.call.path) = NoFileText
      BY DEF FileAt, WorldInv
    <3>. HIDE DEF at
    <3>. QED
      BY <2>1, <3>1, <3>2
  <2>4. \A o \in d.objections : \E p \in Jobs(d.settings, d.call) : Order[p[2]] = o.validator
    <3>1. \A o \in d.objections : o \in c.objections \/ o = ObjectionOf(job, verdict)
      BY <1>1, HeardObjects
    <3>2. ObjectionOf(job, verdict).validator = Order[q[2]]
      BY <1>3 DEF ObjectionOf, JobAt
    <3>. QED
      BY <1>2, <2>1, <2>2, <3>1, <3>2
  <2>5. \A p \in Jobs(c.settings, c.call) :
            /\ Judges(d, p)
            /\ c.call.tool = "Edit" /\ p \in d.pending => Silent(d, Order[p[2]])
    BY <1>3, <2>1, HeardJudges DEF q
  <2>. QED
    BY <1>2, <2>1, <2>3, <2>4, <2>5
<1>. QED
  BY <1>2, <1>4 DEF JudgesAll

(* A hook that has loaded its configuration has judged nothing yet.        *)
LEMMA StartedJudges ==
  ASSUME NEW call
  PROVE  LET c == Started(call, Load(sources))
         IN  c.stage \in {"judging", "allowed"} /\ JudgesAll(c)
<1>. DEFINE settings == Load(sources)
            fails == ~settings.ok \/ (wired /\ EngineFails(settings.rules))
            c == Started(call, settings)
<1>1. /\ DOMAIN c = Fields /\ c.stage = IF fails THEN "allowed" ELSE "judging"
      /\ c.objections = {} /\ c.settings = settings /\ c.call = call /\ c.read = <<>>
      /\ c.judged = ~fails /\ c.pending = IF fails THEN {} ELSE Jobs(settings, call)
  BY DEF Started, Fields
<1>. HIDE DEF c, settings, fails
<1>2. \A v : Silent(c, v)
  BY <1>1 DEF Silent
<1>3. c.judged => \A p \in Jobs(c.settings, c.call) : Judges(c, p)
  BY <1>1 DEF Judges
<1>4. DOMAIN c.read = {}
  BY <1>1
<1>. QED
  BY <1>1, <1>2, <1>3, <1>4 DEF JudgesAll, c, settings

(* What a hook has judged does not depend on how far it is.                 *)
LEMMA SameJudges ==
  ASSUME NEW c, JudgesAll(c), NEW d, DOMAIN d = Fields, d.judged = c.judged, d.call = c.call,
         d.settings = c.settings, d.pending = c.pending, d.read = c.read,
         d.objections = c.objections,
         d.stage # "judging" => d.pending = {},
         d.stage = "allowed" /\ d.judged => d.objections = {}
  PROVE  JudgesAll(d)
<1>1. \A v : Silent(d, v) <=> Silent(c, v)
  BY DEF Silent
<1>2. \A v, seen, f : Blocks(d, v, seen, f) = Blocks(c, v, seen, f)
  BY DEF Blocks, Cfg
<1>3. ASSUME NEW p, Judges(c, p) PROVE Judges(d, p)
  BY <1>1, <1>2, <1>3 DEF Judges
<1>4. CASE ~d.judged
  BY <1>4 DEF JudgesAll
<1>5. CASE d.judged
  <2>1. /\ d.pending \subseteq Jobs(d.settings, d.call)
        /\ \A k \in DOMAIN d.read : d.read[k] \in Seq(STRING) \/ d.read[k] = NoFileText
        /\ \A o \in d.objections : \E p \in Jobs(d.settings, d.call) : Order[p[2]] = o.validator
    BY <1>5 DEF JudgesAll
  <2>2. \A p \in Jobs(d.settings, d.call) : Judges(d, p)
    BY <1>3, <1>5 DEF JudgesAll
  <2>3. d.call.tool = "Edit" => \A p \in d.pending : Silent(d, Order[p[2]])
    BY <1>1, <1>5 DEF JudgesAll
  <2>. QED
    BY <1>5, <2>1, <2>2, <2>3 DEF JudgesAll
<1>. QED
  BY <1>4, <1>5

LEMMA InitView == Init => ViewInv
BY DEF Init, ViewInv

LEMMA ViewKept == WorldInv /\ ViewInv /\ [Next]_vars => ViewInv'
<1>. SUFFICES ASSUME WorldInv, ViewInv, [Next]_vars PROVE ViewInv'
  OBVIOUS
<1>0. DOMAIN calls = Hook
  BY DEF WorldInv
<1>1. wired' = wired
  BY DEF Next, vars, Ask, Start, Validate, Answer, Perform, Stop, Refuse, EditSettings
<1>2. ASSUME NEW e, JudgesAll(e) PROVE JudgesAll(e)'
  <2>1. ASSUME NEW p, Judges(e, p) PROVE Judges(e, p)'
    BY <1>1, <2>1 DEF Judges, RuleAnswer
  <2>. QED
    BY <1>2, <2>1 DEF JudgesAll
<1>3. CASE UNCHANGED calls
  BY <1>2, <1>3 DEF ViewInv
<1>4. ASSUME NEW h \in Hook, NEW c, calls' = [calls EXCEPT ![h] = c],
             \/ c = Idle
             \/ c.stage = "asked"
             \/ c.stage \in {"judging", "allowed", "refused"} /\ JudgesAll(c)
      PROVE  ViewInv'
  <2>1. \A g \in Hook : \/ calls'[g] = Idle
                        \/ calls'[g].stage = "asked"
                        \/ /\ calls'[g].stage \in {"judging", "allowed", "refused"}
                           /\ JudgesAll(calls'[g])
    BY <1>0, <1>4 DEF ViewInv
  <2>. QED
    BY <1>2, <2>1 DEF ViewInv
<1>5. ASSUME NEW h \in Hook, NEW call, Ask(h, call) PROVE ViewInv'
  <2>. DEFINE c == [stage |-> "asked", call |-> Reading(call)]
  <2>1. calls' = [calls EXCEPT ![h] = c] /\ c.stage = "asked"
    BY <1>5 DEF Ask
  <2>. HIDE DEF c
  <2>. QED
    BY <1>4, <2>1
<1>6. ASSUME NEW h \in Hook, Start(h) PROVE ViewInv'
  <2>. DEFINE c == Started(calls[h].call, Load(sources))
  <2>1. calls' = [calls EXCEPT ![h] = c]
    BY <1>0, <1>6 DEF Start
  <2>2. c.stage \in {"judging", "allowed"} /\ JudgesAll(c)
    BY StartedJudges
  <2>. HIDE DEF c
  <2>. QED
    BY <1>4, <2>1, <2>2
<1>7. ASSUME NEW h \in Hook, Validate(h) PROVE ViewInv'
  <2>. DEFINE c == calls[h]
              job == JobAt(c.call, FirstOf(c.pending))
              verdict == Verdict(c, job)
              d == Heard(c, job, verdict)
  <2>1. calls' = [calls EXCEPT ![h] = d] /\ c.stage = "judging" /\ c.pending # {}
    BY <1>0, <1>7 DEF Validate
  <2>2. JudgesAll(c)
    BY <2>1 DEF ViewInv, Idle
  <2>. HIDE DEF c, job, verdict
  <2>3. job = JobAt(c.call, FirstOf(c.pending)) /\ verdict = Verdict(c, job)
    BY DEF job, verdict
  <2>4. d.stage = "judging" /\ JudgesAll(d)
    BY <2>1, <2>2, <2>3, HeardJudgesAll
  <2>. HIDE DEF d
  <2>. QED
    BY <1>4, <2>1, <2>4 DEF c
<1>8. ASSUME NEW h \in Hook, Answer(h) PROVE ViewInv'
  <2>. DEFINE s == IF calls[h].objections = {} THEN "allowed" ELSE "refused"
              d == [calls[h] EXCEPT !.stage = s]
  <2>1. /\ calls' = [calls EXCEPT ![h] = d]
        /\ calls[h].stage = "judging" /\ calls[h].pending = {}
    BY <1>8 DEF Answer
  <2>2. s \in {"allowed", "refused"} /\ (s = "allowed" => calls[h].objections = {})
    OBVIOUS
  <2>. HIDE DEF s
  <2>3. JudgesAll(calls[h])
    BY <2>1 DEF ViewInv, Idle
  <2>4. DOMAIN calls[h] = Fields
    BY <2>3 DEF JudgesAll
  <2>5. /\ DOMAIN d = Fields /\ d.stage = s /\ d.call = calls[h].call
        /\ d.judged = calls[h].judged /\ d.settings = calls[h].settings
        /\ d.pending = calls[h].pending /\ d.read = calls[h].read
        /\ d.objections = calls[h].objections
    BY <2>4, StageKeeps
  <2>. HIDE DEF d
  <2>6. JudgesAll(d)
    BY <2>1, <2>2, <2>3, <2>5, SameJudges
  <2>. QED
    BY <1>4, <2>1, <2>2, <2>5, <2>6
<1>9. ASSUME NEW h \in Hook, Perform(h) PROVE ViewInv'
  <2>. DEFINE n == calls[h].done + 1
              d == [calls[h] EXCEPT !.done = n]
  <2>1. calls[h].stage = "allowed" /\ \E c \in {Idle, d} : calls' = [calls EXCEPT ![h] = c]
    BY <1>0, <1>9, PerformCounts
  <2>2. JudgesAll(calls[h])
    BY <2>1 DEF ViewInv, Idle
  <2>3. DOMAIN calls[h] = Fields
    BY <2>2 DEF JudgesAll
  <2>. HIDE DEF n
  <2>4. /\ DOMAIN d = Fields /\ d.stage = "allowed" /\ d.call = calls[h].call
        /\ d.judged = calls[h].judged /\ d.settings = calls[h].settings
        /\ d.pending = calls[h].pending /\ d.read = calls[h].read
        /\ d.objections = calls[h].objections
    BY <2>1, <2>3, DoneKeeps
  <2>. HIDE DEF d
  <2>5. d.pending = {} \/ ~d.judged
    BY <2>1, <2>2, <2>4 DEF JudgesAll
  <2>6. d.judged => d.objections = {}
    BY <2>1, <2>2, <2>4 DEF JudgesAll
  <2>7. JudgesAll(d)
    <3>1. CASE d.judged
      BY <2>2, <2>4, <2>5, <2>6, <3>1, SameJudges
    <3>2. CASE ~d.judged
      BY <2>4, <3>2 DEF JudgesAll
    <3>. QED
      BY <3>1, <3>2
  <2>. QED
    BY <1>4, <2>1, <2>4, <2>7
<1>10. ASSUME NEW h \in Hook, Stop(h) \/ Refuse(h) PROVE ViewInv'
  BY <1>4, <1>10 DEF Stop, Refuse
<1>11. CASE EditSettings
  BY <1>3, <1>11 DEF EditSettings
<1>. QED
  BY <1>3, <1>5, <1>6, <1>7, <1>8, <1>9, <1>10, <1>11 DEF Next, vars

-----------------------------------------------------------------------------
\* What the linters are handed

\* The text that the linter of v is handed.
LinterText(v, cfg, call, file) ==
  IF v = "shellscript" THEN ShellDirective(cfg, call, file) \o EditOrWhole(cfg, call, file)
  ELSE IF v = "markdown" THEN ContentOrEdit(cfg, call, file)
  ELSE EditOrWhole(cfg, call, file)

(* A linter blocks a text for the faults that are not excluded; nobody      *)
(* checks fish.                                                             *)
LEMMA LinterBlocks ==
  ASSUME NEW v \in Linters, NEW cfg, NEW call, NEW file,
         NEW text, text = LinterText(v, cfg, call, file)
  PROVE  ValidateFile(v, cfg, call, file).block <=>
           /\ text # <<>>
           /\ v \in DOMAIN Switch => Setting(cfg, Switch[v], TRUE)
           /\ ~(LintFaults(v, text) \subseteq Excluded(v, cfg, call))
           /\ v = "shellscript" => Shell(text) # "fish"
<1>1. Lint(v, cfg, call, text).block <=>
        /\ text # <<>>
        /\ v \in DOMAIN Switch => Setting(cfg, Switch[v], TRUE)
        /\ ~(LintFaults(v, text) \subseteq Excluded(v, cfg, call))
  BY DEF Lint, NoText, Pass, FailAs
<1>2. CASE v # "shellscript"
  <2>1. ValidateFile(v, cfg, call, file) = Lint(v, cfg, call, text)
    BY <1>2 DEF Linters, LinterText, ValidateFile, Markdown, Python, JavaScript, Rust
  <2>. QED
    BY <1>1, <1>2, <2>1
<1>3. CASE v = "shellscript"
  <2>1. text = ShellDirective(cfg, call, file) \o EditOrWhole(cfg, call, file)
    BY <1>3 DEF LinterText
  <2>2. ValidateFile(v, cfg, call, file) =
          IF Shell(text) = "fish" THEN Pass ELSE Lint(v, cfg, call, text)
    BY <1>3, <2>1 DEF ValidateFile, ShellScript
  <2>3. ~Pass.block
    BY DEF Pass
  <2>. QED
    BY <1>1, <1>3, <2>2, <2>3
<1>. QED
  BY <1>2, <1>3

\* The fragment of an edit, as the linter of v is handed it.
FragmentText(v, text, old, new, context) ==
  LET later == StartsLater(text, old, context) /\ Shell(text) # Here
      F     == ExtractEditFragment(text, old, new, context)
  IN  IF v = "shellscript" THEN (IF later THEN Directive ELSE <<>>) \o F ELSE F

(* Of an edit the linter is handed the fragment, which is nothing where     *)
(* nothing is replaced.                                                     *)
LEMMA EditText ==
  ASSUME NEW v \in Linters, NEW cfg, NEW call, IsEdit(call), call.content = <<>>, NEW file
  PROVE  LET context == Setting(cfg, "context_lines", 2)
             made    == /\ EditableFile(call, file) /\ call.new # <<>>
                        /\ Occurrences(file, call.old) # {}
         IN  LinterText(v, cfg, call, file) =
               IF made THEN FragmentText(v, file, call.old, call.new, context) ELSE <<>>
<1>. DEFINE context == Setting(cfg, "context_lines", 2)
            made    == /\ EditableFile(call, file) /\ call.new # <<>>
                       /\ Occurrences(file, call.old) # {}
            later   == StartsLater(file, call.old, context) /\ Shell(file) # Here
            F       == ExtractEditFragment(file, call.old, call.new, context)
            G       == Fragment(cfg, call, file)
            D       == IF later THEN Directive ELSE <<>>
<1>1. G = IF made THEN F ELSE <<>>
  BY DEF Fragment, ExtractEditFragment, NoText
<1>2. LinterText(v, cfg, call, file) =
        IF v = "shellscript" THEN ShellDirective(cfg, call, file) \o G ELSE G
  BY DEF LinterText, EditOrWhole, ContentOrEdit
<1>3. ShellDirective(cfg, call, file) = IF made THEN D ELSE <<>>
  BY DEF ShellDirective, Here
<1>4. <<>> \o <<>> = <<>>
  OBVIOUS
<1>. HIDE DEF made, later, F, G, D
<1>5. LinterText(v, cfg, call, file) =
        IF ~made THEN <<>> ELSE IF v = "shellscript" THEN D \o F ELSE F
  BY <1>1, <1>2, <1>3, <1>4
<1>. QED
  BY <1>5 DEF made, later, F, D, FragmentText

\* The text that the linter of v is handed of an edit comes from the file or, where
\* context shows a line around an edit that does not end in an empty line, from what
\* the edit leaves of it.
FromFile(v, text, old, new, context, handed) ==
  LET at    == Min(Occurrences(text, old))
      after == Replace(text, old, new)
  IN  \E p \in 1..at :
         \/ /\ \E q \in p - 1..Len(text) : Cut(text, p, q) /\ handed = Handed(v, text, p, q)
            /\ ~(EndsInText(old) /\ context > 0)
         \/ \E q \in at + Len(new) - 1..Len(after) :
               Cut(after, p, q) /\ handed = Handed(v, after, p, q)

(* A directive is put before what a linter of scripts is handed.            *)
LEMMA HandedOf ==
  ASSUME NEW v, NEW text, NEW p, NEW q, SubSeq(text, p, q) \in Seq(STRING)
  PROVE  LET part == SubSeq(text, p, q)
         IN  Handed(v, text, p, q) =
               IF v = "shellscript"
               THEN (IF p > 1 /\ Shell(text) # Here THEN Directive ELSE <<>>) \o part
               ELSE part
<1>. DEFINE part == SubSeq(text, p, q)
<1>1. <<>> \o part = part
  BY ConcatEmptySeq
<1>2. Handed(v, text, p, q) =
        (IF v = "shellscript" /\ p > 1 /\ Shell(text) # Here THEN Directive ELSE <<>>) \o part
  BY DEF Handed, Here
<1>. HIDE DEF part
<1>3. Handed(v, text, p, q) =
        IF v = "shellscript" THEN (IF p > 1 /\ Shell(text) # Here THEN Directive ELSE <<>>) \o part
        ELSE part
  BY <1>1, <1>2
<1>. QED
  BY <1>3 DEF part

(* Such a text is the fragment: the file keeps its first line, so its shell, *)
(* where the fragment begins after it.                                       *)
LEMMA FragmentIsHanded ==
  ASSUME ShellsByLine(Seq(STRING)), NEW v,
         NEW text \in Seq(STRING), NEW old \in Seq(STRING), NEW new \in Seq(STRING),
         old # <<>>, Occurrences(text, old) # {}, NEW context \in Nat,
         NEW L, L = FragmentText(v, text, old, new, context)
  PROVE  FromFile(v, text, old, new, context, L)
<1>. DEFINE after == Replace(text, old, new)
            at    == Min(Occurrences(text, old))
            F     == ExtractEditFragment(text, old, new, context)
            later == StartsLater(text, old, context)
<1>0. L = IF v = "shellscript" THEN (IF later /\ Shell(text) # Here THEN Directive ELSE <<>>) \o F
          ELSE F
  BY DEF FragmentText
<1>1. \E p \in 1..at :
         /\ p > 1 <=> later
         /\ \/ /\ \E q \in p - 1..Len(text) : Cut(text, p, q) /\ F = SubSeq(text, p, q)
               /\ ~(EndsInText(old) /\ context > 0)
            \/ \E q \in at + Len(new) - 1..Len(after) :
                  Cut(after, p, q) /\ F = SubSeq(after, p, q)
  BY FragmentIsCut
<1>3. PICK p \in 1..at :
         /\ p > 1 <=> later
         /\ \/ /\ \E q \in p - 1..Len(text) : Cut(text, p, q) /\ F = SubSeq(text, p, q)
               /\ ~(EndsInText(old) /\ context > 0)
            \/ \E q \in at + Len(new) - 1..Len(after) :
                  Cut(after, p, q) /\ F = SubSeq(after, p, q)
  <2>. HIDE DEF after, at, F, later
  <2>. QED
    BY <1>1
<1>4. at \in 1..Len(text) - Len(old) + 1 /\ Len(text) \in Nat /\ Len(old) \in Nat /\ Len(new) \in Nat
  BY FirstOccurrence
<1>5. after \in Seq(STRING) /\ Len(after) = Len(text) - Len(old) + Len(new)
  BY ReplacedText
<1>6. p \in Nat /\ p >= 1 /\ p <= at
  BY <1>3, <1>4
<1>. HIDE DEF F, later
<1>7. ASSUME NEW q \in p - 1..Len(text), Cut(text, p, q), F = SubSeq(text, p, q)
      PROVE  L = Handed(v, text, p, q)
  <2>1. p \in 1..Len(text) + 1
    BY <1>7 DEF Cut
  <2>2. F \in Seq(STRING)
    BY <1>7, <2>1, PartOfText
  <2>. DEFINE part == SubSeq(text, p, q)
  <2>3. Handed(v, text, p, q) =
          IF v = "shellscript" THEN (IF p > 1 /\ Shell(text) # Here THEN Directive ELSE <<>>) \o part
          ELSE part
    BY <1>7, <2>2, HandedOf
  <2>. HIDE DEF part
  <2>5. F = part
    BY <1>7 DEF part
  <2>. QED
    BY <1>0, <1>3, <2>3, <2>5
<1>8. ASSUME NEW q \in at + Len(new) - 1..Len(after), Cut(after, p, q), F = SubSeq(after, p, q)
      PROVE  L = Handed(v, after, p, q)
  <2>1. p \in 1..Len(after) + 1 /\ q \in p - 1..Len(after)
    BY <1>8 DEF Cut
  <2>. HIDE DEF after, at
  <2>2. F \in Seq(STRING)
    BY <1>5, <1>8, <2>1, PartOfText
  <2>. DEFINE part == SubSeq(after, p, q)
  <2>3. Handed(v, after, p, q) =
          IF v = "shellscript" THEN (IF p > 1 /\ Shell(after) # Here THEN Directive ELSE <<>>) \o part
          ELSE part
    BY <1>8, <2>2, HandedOf
  <2>. HIDE DEF part
  <2>5. F = part
    BY <1>8 DEF part
  <2>4. p > 1 => Shell(after) = Shell(text)
    <3>1. SUFFICES ASSUME p > 1 PROVE FirstLine(after) = FirstLine(text)
      BY <1>5 DEF ShellsByLine
    <3>2. p - 1 \in 1..at - 1
      BY <1>4, <1>6, <3>1
    <3>3. after[p - 1] = NL
      BY <1>8, <3>1 DEF Cut
    <3>. QED
      BY <3>2, <3>3, FirstLineKept DEF after, at
  <2>. QED
    BY <1>0, <1>3, <2>3, <2>4, <2>5
<1>9. \/ /\ \E q \in p - 1..Len(text) : Cut(text, p, q) /\ L = Handed(v, text, p, q)
         /\ ~(EndsInText(old) /\ context > 0)
      \/ \E q \in at + Len(new) - 1..Len(after) : Cut(after, p, q) /\ L = Handed(v, after, p, q)
  <2>. HIDE DEF after, at
  <2>. QED
    BY <1>3, <1>7, <1>8
<1>. QED
  BY <1>3, <1>9 DEF FromFile

LEMMA EditIsHanded ==
  ASSUME ShellsByLine(Seq(STRING)), NEW v \in Linters, NEW cfg,
         NEW call, IsEdit(call), call.content = <<>>,
         call.old \in Seq(STRING), call.new \in Seq(STRING),
         NEW text \in Seq(STRING), Setting(cfg, "context_lines", 2) \in Nat,
         EditableFile(call, text), call.new # <<>>, Occurrences(text, call.old) # {}
  PROVE  FromFile(v, text, call.old, call.new, Setting(cfg, "context_lines", 2),
                  LinterText(v, cfg, call, text))
<1>. DEFINE old     == call.old
            new     == call.new
            context == Setting(cfg, "context_lines", 2)
            L       == LinterText(v, cfg, call, text)
<1>1. L = FragmentText(v, text, old, new, context)
  BY EditText
<1>2. old # <<>>
  BY DEF EditableFile
<1>3. old \in Seq(STRING) /\ new \in Seq(STRING) /\ Occurrences(text, old) # {} /\ context \in Nat
  OBVIOUS
<1>. HIDE DEF old, new, context, L
<1>4. FromFile(v, text, old, new, context, L)
  BY <1>1, <1>2, <1>3, FragmentIsHanded
<1>. QED
  BY <1>4 DEF old, new, context, L

(* An edit of a scene puts a text in place of a text, and nothing else.     *)
LEMMA EditIsTyped ==
  ASSUME NEW s \in Scene, NEW call \in s.calls, Filed(call), call.tool = "Edit"
  PROVE  LET c == Reading(call) IN
         /\ c.tool = "Edit" /\ c.content = <<>> /\ c.old \in Seq(STRING) /\ c.new \in Seq(STRING)
         /\ Effects(c) = <<[do |-> "edit", path |-> c.path, old |-> c.old, new |-> c.new]>>
<1>1. call.content = <<>> /\ call.does = <<>>
  BY DEF Filed
<1>. DEFINE e == [do |-> "edit", path |-> call.path, old |-> call.old, new |-> call.new]
<1>2. Effects(call) = <<e>>
  BY <1>1 DEF Effects
<1>3. \A i \in DOMAIN Effects(call) : TypedCommand(Effects(call)[i])
  BY SceneAssumption
<1>4. TypedCommand(e)
  <2>. HIDE DEF e
  <2>1. 1 \in DOMAIN Effects(call) /\ Effects(call)[1] = e
    BY <1>2
  <2>. QED
    BY <1>3, <2>1
<1>5. e.old \in Seq(STRING) /\ e.new \in Seq(STRING)
  BY <1>4 DEF TypedCommand
<1>. DEFINE c == Reading(call)
<1>6. /\ c.tool = call.tool /\ c.path = call.path /\ c.content = call.content
      /\ c.old = call.old /\ c.new = call.new /\ Effects(c) = Effects(call)
  BY ReadingKeeps
<1>. HIDE DEF c
<1>7. c.old \in Seq(STRING) /\ c.new \in Seq(STRING) /\ c.tool = "Edit" /\ c.content = <<>>
  BY <1>1, <1>5, <1>6
<1>8. Effects(c) = <<[do |-> "edit", path |-> c.path, old |-> c.old, new |-> c.new]>>
  BY <1>2, <1>6
<1>. QED
  BY <1>7, <1>8 DEF c

(* What a linter objects to in an edit is a fault that it is not excused    *)
(* from in the text it is handed.                                           *)
LEMMA RefusedForFault ==
  ASSUME NEW v \in Linters, NEW cfg, NEW call, IsEdit(call), NEW file,
         NEW text, text = LinterText(v, cfg, call, file),
         ValidateFile(v, cfg, call, file).block
  PROVE  text # <<>> /\ LintFaults(v, text) \ Excuse(v) # {}
<1>1. text # <<>> /\ ~(LintFaults(v, text) \subseteq Excluded(v, cfg, call))
  BY LinterBlocks
<1>2. Excuse(v) \subseteq Excluded(v, cfg, call)
  BY DEF Excluded, IsEdit
<1>. QED
  BY <1>1, <1>2

(* A linter with an objection to an edit has faults before it or after it.  *)
LEMMA RefusedHasFaults ==
  ASSUME ShellsByLine(Seq(STRING)), NEW v \in Linters, Excused(v, Seq(STRING)),
         NEW cfg, NEW call, IsEdit(call), call.content = <<>>,
         call.old \in Seq(STRING), call.new \in Seq(STRING),
         NEW file, file \in Seq(STRING) \/ file = NoFileText,
         Setting(cfg, "context_lines", 2) \in Nat,
         ValidateFile(v, cfg, call, file).block
  PROVE  LintFaults(v, file) \cup LintFaults(v, Replace(file, call.old, call.new)) # {}
<1>. DEFINE text    == LinterText(v, cfg, call, file)
            old     == call.old
            new     == call.new
            context == Setting(cfg, "context_lines", 2)
            after   == Replace(file, old, new)
            at      == Min(Occurrences(file, old))
<1>1. text # <<>> /\ LintFaults(v, text) \ Excuse(v) # {}
  BY RefusedForFault
<1>2. EditableFile(call, file) /\ new # <<>> /\ Occurrences(file, old) # {}
  BY <1>1, EditText
<1>3. file \in Seq(STRING)
  BY <1>2 DEF EditableFile
<1>4. FromFile(v, file, old, new, context, text)
  BY <1>2, <1>3, EditIsHanded
<1>5. after \in Seq(STRING)
  BY <1>3, ReplaceIsText
<1>6. PICK p \in 1..at :
         \/ \E q \in p - 1..Len(file) : Cut(file, p, q) /\ text = Handed(v, file, p, q)
         \/ \E q \in at + Len(new) - 1..Len(after) : Cut(after, p, q) /\ text = Handed(v, after, p, q)
  BY <1>4 DEF FromFile
<1>. HIDE DEF text, old, new, after, at
<1>7. ASSUME NEW T \in Seq(STRING), NEW q, Cut(T, p, q), text = Handed(v, T, p, q)
      PROVE  LintFaults(v, T) # {}
  <2>1. p \in 1..Len(T) + 1 /\ q \in p - 1..Len(T)
    BY <1>7 DEF Cut
  <2>2. LintFaults(v, Handed(v, T, p, q)) \ Excuse(v) \subseteq LintFaults(v, T)
    BY <1>1, <1>7, <2>1 DEF Excused
  <2>. QED
    BY <1>1, <1>7, <2>2
<1>8. LintFaults(v, file) # {} \/ LintFaults(v, after) # {}
  BY <1>3, <1>5, <1>6, <1>7
<1>. QED
  BY <1>8 DEF after, old, new

(* A linter that objects to an edit has faults before it or after it.       *)
LEMMA ObjectionsHaveFaults ==
  ASSUME \A s \in Scene : \A call \in s.calls : Filed(call),
         ShellsByLine(Seq(STRING)), NEW v \in Linters, Excused(v, Seq(STRING)),
         WorldInv, ViewInv
  PROVE  FragmentsSuffice(v)
<1>. SUFFICES ASSUME NEW h \in Hook, calls[h].stage = "refused", calls[h].call.tool = "Edit",
                     Governs(calls[h], v),
                     Setting(Cfg(calls[h], v), "context_lines", 2) \in Nat,
                     NEW o \in calls[h].objections, o.validator = v
              PROVE  LET call == calls[h].call
                         text == calls[h].read[<<v, call.path>>]
                     IN  LintFaults(v, text)
                           \cup LintFaults(v, Replace(text, call.old, call.new)) # {}
  BY DEF FragmentsSuffice
<1>. DEFINE c    == calls[h]
            call == c.call
            at   == <<v, call.path>>
            text == c.read[at]
<1>1. Called(c) /\ scene \in Scene /\ JudgesAll(c)
  BY DEF WorldInv, ViewInv, Idle
<1>2. PICK asked \in scene.calls : call = Reading(asked)
  BY <1>1 DEF Called
<1>. HIDE DEF c
<1>3. call.tool = "Edit" /\ c.stage = "refused" /\ Governs(c, v) /\ o \in c.objections
      /\ Setting(Cfg(c, v), "context_lines", 2) \in Nat
  BY DEF c
<1>4. Filed(asked) /\ asked.tool = "Edit"
  BY <1>1, <1>2, <1>3, ReadingKeeps
<1>5. call.content = <<>> /\ call.old \in Seq(STRING) /\ call.new \in Seq(STRING)
  BY <1>1, <1>2, <1>4, EditIsTyped
<1>. HIDE DEF call
<1>6. c.judged /\ RuleAnswer(c.settings, v, c.call) = <<>>
  BY <1>3 DEF Governs, GovernsSeen
<1>7. /\ c.pending = {}
      /\ \A k \in DOMAIN c.read : c.read[k] \in Seq(STRING) \/ c.read[k] = NoFileText
      /\ \E p \in Jobs(c.settings, c.call) : Order[p[2]] = v
      /\ \A p \in Jobs(c.settings, c.call) : Judges(c, p)
  BY <1>1, <1>3, <1>6 DEF JudgesAll
<1>8. PICK p \in Jobs(c.settings, c.call) : Order[p[2]] = v
  BY <1>7
<1>9. SeenAs(c.call)[p[1]] = c.call /\ p[1] = 0
  BY <1>3, EditPlaces DEF call
<1>10. v \in FileJudges /\ v # "bell" /\ v # "secrets"
  BY DEF FileJudges, Linters
<1>11. at \in DOMAIN c.read /\ Blocks(c, v, c.call, text)
  <2>1. ~Silent(c, v)
    BY <1>3 DEF Silent
  <2>2. Judges(c, p) /\ p \notin c.pending /\ c.call.tool = "Edit"
    BY <1>3, <1>7 DEF call
  <2>. QED
    BY <1>6, <1>8, <1>9, <1>10, <2>1, <2>2 DEF Judges, call
<1>12. IsEdit(c.call)
  <2>1. Applies(v, c.call)
    BY <1>8, <1>9 DEF Jobs
  <2>. QED
    BY <1>3, <1>10, <2>1 DEF Applies, IsEdit, call
<1>13. ValidateFile(v, Cfg(c, v), call, text).block
  BY <1>10, <1>11 DEF Blocks, call
<1>14. text \in Seq(STRING) \/ text = NoFileText
  BY <1>7, <1>11
<1>. HIDE DEF text
<1>15. LintFaults(v, text) \cup LintFaults(v, Replace(text, call.old, call.new)) # {}
  BY <1>3, <1>5, <1>12, <1>13, <1>14, RefusedHasFaults DEF call
<1>. QED
  BY <1>15 DEF text, call, c

(* No edit of a shell or JavaScript file is refused for what its fragment leaves *)
(* out, provided that its linter finds in lines of a text nothing but what it    *)
(* finds in the text, or is told to excuse, and takes the shell of a script from *)
(* its first line or, in a fragment without it, from the directive.              *)
THEOREM CleanEditsAlwaysPass ==
  ASSUME \A s \in Scene : \A call \in s.calls : Filed(call),
         ShellsByLine(Seq(STRING)),
         Excused("shellscript", Seq(STRING)), Excused("javascript", Seq(STRING))
  PROVE  Spec => []CleanEditsPass
<1>1. WorldInv /\ ViewInv => CleanEditsPass
  <2>1. "shellscript" \in Linters /\ "javascript" \in Linters
    BY DEF Linters
  <2>. QED
    BY <2>1, ObjectionsHaveFaults DEF CleanEditsPass
<1>. QED
  BY <1>1, InitWorld, WorldKept, InitView, ViewKept, PTL DEF Spec

-----------------------------------------------------------------------------
\* What an allowed write or edit leaves

(* A hook that performs a command of its call does it in a step of its own. *)
LEMMA PerformedInStep ==
  ASSUME WorldInv, [Next]_vars, NEW h \in Hook, Performs(h) PROVE Perform(h)
<1>1. /\ DOMAIN calls = Hook /\ calls[h].stage = "allowed" /\ GoesOn(calls[h])
      /\ calls'[h] # calls[h]
  BY DEF WorldInv, Performs
<1>2. calls[h] # Idle
  BY <1>1 DEF Idle
<1>3. UNCHANGED calls => FALSE
  BY <1>1
<1>4. ASSUME NEW g \in Hook, NEW c, calls' = [calls EXCEPT ![g] = c] PROVE g = h
  BY <1>1, <1>4
<1>5. ASSUME NEW g \in Hook, NEW call, Ask(g, call) PROVE FALSE
  BY <1>2, <1>4, <1>5 DEF Ask
<1>6. ASSUME NEW g \in Hook, Start(g) \/ Validate(g) \/ Answer(g) \/ Refuse(g) PROVE FALSE
  <2>1. calls[g].stage # "allowed"
    BY <1>6 DEF Start, Validate, Answer, Refuse
  <2>2. \E c : calls' = [calls EXCEPT ![g] = c]
    <3>1. Start(g) => calls' = [calls EXCEPT ![g] = Started(calls[g].call, Load(sources))]
      BY <1>1 DEF Start
    <3>2. Validate(g) =>
            LET job == JobAt(calls[g].call, FirstOf(calls[g].pending))
            IN  calls' = [calls EXCEPT ![g] = Heard(calls[g], job, Verdict(calls[g], job))]
      BY <1>1 DEF Validate
    <3>3. Answer(g) =>
            LET s == IF calls[g].objections = {} THEN "allowed" ELSE "refused"
            IN  calls' = [calls EXCEPT ![g] = [calls[g] EXCEPT !.stage = s]]
      BY <1>1 DEF Answer
    <3>4. Refuse(g) => calls' = [calls EXCEPT ![g] = Idle]
      BY DEF Refuse
    <3>. QED
      BY <1>6, <3>1, <3>2, <3>3, <3>4
  <2>. QED
    BY <1>1, <1>4, <2>1, <2>2
<1>7. ASSUME NEW g \in Hook, Stop(g) PROVE FALSE
  <2>1. ~GoesOn(calls[g]) /\ calls' = [calls EXCEPT ![g] = Idle]
    BY <1>7 DEF Stop
  <2>2. g = h
    BY <1>4, <2>1
  <2>. QED
    BY <1>1, <2>1, <2>2
<1>8. ASSUME NEW g \in Hook, Perform(g) PROVE Perform(h)
  <2>1. \E c : calls' = [calls EXCEPT ![g] = c]
    BY <1>1, <1>8, PerformCounts
  <2>2. g = h
    BY <1>4, <2>1
  <2>. QED
    BY <1>8, <2>2
<1>9. EditSettings => UNCHANGED calls
  BY DEF EditSettings
<1>10. \/ UNCHANGED calls
       \/ \E g \in Hook : \E call \in scene.calls : Ask(g, call)
       \/ \E g \in Hook : \/ Start(g) \/ Validate(g) \/ Answer(g) \/ Perform(g) \/ Stop(g)
                          \/ Refuse(g)
  BY <1>9 DEF Next, vars
<1>. QED
  BY <1>3, <1>5, <1>6, <1>7, <1>8, <1>10

(* What an allowed call is shown of a file no validator blocks.             *)
LEMMA ShownIsPassed ==
  ASSUME ViewInv, NEW h \in Hook, NEW c, c = calls[h], c.stage = "allowed",
         NEW v \in FileJudges, NEW k \in DOMAIN SeenAs(c.call),
         NEW seen, seen = SeenAs(c.call)[k], GovernsSeen(c, v, seen), Applies(v, seen)
  PROVE  LET at == <<v, c.call.path>> IN
         IF c.call.tool = "Edit"
         THEN at \in DOMAIN c.read /\ ~Blocks(c, v, seen, c.read[at])
         ELSE seen.content # <<>> => ~Blocks(c, v, seen, NoFileText)
<1>1. JudgesAll(c) /\ c.judged /\ RuleAnswer(c.settings, v, seen) = <<>>
  BY DEF ViewInv, Idle, GovernsSeen
<1>2. v \in ToSet(Order) /\ v \in Registered(c.settings)
  <2>1. v \in ToSet(Order)
    BY DEF FileJudges, Linters, ToSet, Order
  <2>. QED
    BY <2>1 DEF Registered, GovernsSeen
<1>3. PICK i \in DOMAIN Order : Order[i] = v
  BY <1>2 DEF ToSet
<1>. DEFINE p == <<k, i>>
<1>4. p \in Jobs(c.settings, c.call) /\ p[1] = k /\ p[2] = i
  BY <1>2, <1>3 DEF Jobs
<1>5. /\ c.pending = {} /\ c.objections = {}
      /\ \A r \in Jobs(c.settings, c.call) : Judges(c, r)
  BY <1>1 DEF JudgesAll
<1>6. Judges(c, p) /\ Silent(c, v)
  BY <1>4, <1>5 DEF Silent
<1>. HIDE DEF p
<1>. QED
  BY <1>1, <1>3, <1>4, <1>5, <1>6 DEF Judges

(* The hooks see the text of an allowed write.                              *)
LEMMA WriteIsSeen ==
  ASSUME \A s \in Scene : \A call \in s.calls : Filed(call), WorldInv,
         NEW h \in Hook, NEW c, c = calls[h], c.stage = "allowed", GoesOn(c),
         NEW e, e = Command(c), e.do = "write"
  PROVE  LET seen == SeenOf(c, e) IN
         /\ c.call.tool # "Edit" /\ e.text \in Seq(STRING)
         /\ seen.tool = "Write" /\ seen.content = e.text
         /\ \E k \in DOMAIN SeenAs(c.call) : SeenAs(c.call)[k] = seen
<1>1. scene \in Scene /\ TypedCommand(e)
  BY PerformsTyped DEF WorldInv
<1>2. PICK call \in scene.calls : /\ c.call = Reading(call)
                                  /\ \E i \in DOMAIN Effects(call) : e = Effects(call)[i]
  BY PerformsTyped
<1>3. /\ c.call.line = Parse(call.script) /\ c.call.event = call.event
      /\ c.call.tool = call.tool /\ c.call.path = call.path /\ c.call.content = call.content
  BY <1>1, <1>2, ReadingKeeps
<1>4. Filed(call)
  BY <1>1, <1>2
<1>5. e.text \in Seq(STRING)
  BY <1>1 DEF TypedCommand
<1>. DEFINE seen == SeenOf(c, e)
<1>6. CASE call.does = <<>>
  <2>1. Effects(call) = CASE call.tool = "Write" -> <<[do |-> "write", path |-> call.path, text |-> call.content]>>
                          [] call.tool = "Edit"  -> <<[do |-> "edit", path |-> call.path, old |-> call.old,
                                                       new |-> call.new]>>
                          [] OTHER -> <<>>
    BY <1>6 DEF Effects
  <2>2. call.tool = "Write" /\ e = [do |-> "write", path |-> call.path, text |-> call.content]
    BY <1>2, <2>1
  <2>3. seen = c.call /\ c.call.tool = "Write" /\ c.call.content = e.text
    BY <1>3, <2>2 DEF SeenOf
  <2>4. 0 \in DOMAIN SeenAs(c.call) /\ SeenAs(c.call)[0] = c.call
    BY DEF SeenAs
  <2>. QED
    BY <1>5, <2>3, <2>4
<1>7. CASE call.does # <<>>
  <2>1. Effects(call) = call.does
    BY <1>7 DEF Effects
  <2>2. PICK i \in DOMAIN call.does : e = call.does[i]
    BY <1>2, <2>1
  <2>3. /\ c.call.event = "PreToolUse" /\ c.call.tool = "Bash" /\ c.call.line.parses
        /\ \E k \in 1..Len(c.call.line.writes) :
              c.call.line.writes[k].path = e.path /\ c.call.line.writes[k].content = e.text
    BY <1>3, <1>4, <2>2 DEF Filed
  <2>4. PICK k \in 1..Len(c.call.line.writes) :
              c.call.line.writes[k].path = e.path /\ c.call.line.writes[k].content = e.text
    BY <2>3
  <2>. DEFINE fw == c.call.line.writes[k]
  <2>5. k \in DOMAIN SeenAs(c.call) /\ SeenAs(c.call)[k] = WriteOf(fw)
    BY <2>3, <2>4 DEF SeenAs
  <2>6. seen = WriteOf([path |-> e.path, content |-> e.text])
    BY <2>3 DEF SeenOf
  <2>7. seen = WriteOf(fw)
    BY <2>4, <2>6 DEF WriteOf
  <2>8. seen.tool = "Write" /\ seen.content = e.text
    BY <2>6 DEF WriteOf, Tool
  <2>. HIDE DEF seen, fw
  <2>9. c.call.tool # "Edit"
    BY <2>3
  <2>. QED
    BY <1>5, <2>5, <2>7, <2>8, <2>9 DEF seen
<1>. QED
  BY <1>6, <1>7

(* The hooks see an allowed edit.                                           *)
LEMMA EditIsSeen ==
  ASSUME \A s \in Scene : \A call \in s.calls : Filed(call), WorldInv,
         NEW h \in Hook, NEW c, c = calls[h], c.stage = "allowed", GoesOn(c),
         NEW e, e = Command(c), e.do = "edit"
  PROVE  LET call == c.call IN
         /\ SeenOf(c, e) = call
         /\ call.tool = "Edit" /\ call.content = <<>>
         /\ call.path = e.path /\ call.old = e.old /\ call.new = e.new
         /\ e.old \in Seq(STRING) /\ e.new \in Seq(STRING)
         /\ e.path \in DOMAIN files /\ files[e.path] \in Seq(STRING)
         /\ Occurrences(files[e.path], e.old) # {}
         /\ \E asked \in scene.calls : call = Reading(asked) /\ asked.tool = "Edit"
<1>1. scene \in Scene /\ TypedCommand(e)
  BY PerformsTyped DEF WorldInv
<1>2. PICK asked \in scene.calls : /\ c.call = Reading(asked)
                                   /\ \E i \in DOMAIN Effects(asked) : e = Effects(asked)[i]
  BY PerformsTyped
<1>3. Filed(asked)
  BY <1>1, <1>2
<1>4. asked.does = <<>>
  <2>1. SUFFICES ASSUME asked.does # <<>> PROVE FALSE
    OBVIOUS
  <2>2. PICK i \in DOMAIN asked.does : e = asked.does[i]
    BY <1>2, <2>1 DEF Effects
  <2>. QED
    BY <1>3, <2>2 DEF Filed
<1>5. Effects(asked) = CASE asked.tool = "Write" -> <<[do |-> "write", path |-> asked.path, text |-> asked.content]>>
                         [] asked.tool = "Edit"  -> <<[do |-> "edit", path |-> asked.path, old |-> asked.old,
                                                       new |-> asked.new]>>
                         [] OTHER -> <<>>
  BY <1>4 DEF Effects
<1>6. /\ asked.tool = "Edit"
      /\ e = [do |-> "edit", path |-> asked.path, old |-> asked.old, new |-> asked.new]
  BY <1>2, <1>5
<1>7. /\ c.call.tool = asked.tool /\ c.call.path = asked.path /\ c.call.content = asked.content
      /\ c.call.old = asked.old /\ c.call.new = asked.new
  BY <1>1, <1>2, ReadingKeeps
<1>8. asked.content = <<>>
  BY <1>3, <1>6 DEF Filed
<1>9. e.old \in Seq(STRING) /\ e.new \in Seq(STRING)
  BY <1>1 DEF TypedCommand
<1>10. Succeeds(e)
  BY DEF GoesOn
<1>11. e.path \in DOMAIN files /\ Occurrences(files[e.path], e.old) # {}
  BY <1>10 DEF Succeeds
<1>12. files[e.path] \in Seq(STRING)
  BY <1>11 DEF WorldInv
<1>13. SeenOf(c, e) = c.call
  BY <1>6, <1>7 DEF SeenOf
<1>. QED
  BY <1>2, <1>6, <1>7, <1>8, <1>9, <1>11, <1>12, <1>13

(* A write that a linter passes has no defect.                              *)
LEMMA CleanWrite ==
  ASSUME NEW c, NEW v \in Linters, NEW seen, seen.tool = "Write",
         NEW after \in Seq(STRING), after # <<>>, seen.content = after,
         ~Blocks(c, v, seen, NoFileText), Linted(c, v, after)
  PROVE  Defects(c, v, seen, after) = {}
<1>. DEFINE cfg  == Cfg(c, v)
            text == LinterText(v, cfg, seen, NoFileText)
<1>1. ~IsEdit(seen) /\ seen.tool # "Edit"
  BY DEF IsEdit
<1>2. <<>> \o after = after
  BY ConcatEmptySeq
<1>3. text = after
  BY <1>1, <1>2 DEF LinterText, ShellDirective, EditOrWhole, ContentOrEdit
<1>4. ~ValidateFile(v, cfg, seen, NoFileText).block
  BY DEF Blocks, Linters
<1>. HIDE DEF text
<1>5. v \in DOMAIN Switch => Setting(cfg, Switch[v], TRUE)
  BY DEF Linted
<1>6. v = "shellscript" => Shell(after) # "fish"
  <2>1. SUFFICES ASSUME v = "shellscript" PROVE Shell(after) # "fish"
    OBVIOUS
  <2>2. 1 \in DOMAIN after /\ SubSeq(after, 1, Len(after)) = after
    BY SubSeqFull, EmptySeq
  <2>3. Shell(SubSeq(after, 1, Len(after))) # "fish"
    BY <2>1, <2>2 DEF Linted
  <2>. QED
    BY <2>2, <2>3
<1>7. LintFaults(v, after) \subseteq Excluded(v, cfg, seen)
  BY <1>3, <1>4, <1>5, <1>6, LinterBlocks DEF text
<1>. QED
  BY <1>1, <1>7 DEF Defects, Excluded

(* What the linter is handed of an edit is not nothing, and not fish.       *)
LEMMA HandedIsLinted ==
  ASSUME ShellsByLine(Seq(STRING)), NEW c, NEW v, NEW text \in Seq(STRING), Linted(c, v, text),
         NEW p \in 1..Len(text), NEW q \in p..Len(text), Cut(text, p, q)
  PROVE  /\ Handed(v, text, p, q) # <<>>
         /\ v = "shellscript" => Shell(Handed(v, text, p, q)) # "fish"
<1>. DEFINE part == SubSeq(text, p, q)
            L    == Handed(v, text, p, q)
<1>1. p \in 1..Len(text) + 1 /\ q \in p - 1..Len(text) /\ Len(text) \in Nat
  OBVIOUS
<1>2. part \in Seq(STRING) /\ Len(part) = q - p + 1
  BY <1>1, PartOfText
<1>3. part # <<>>
  BY <1>1, <1>2
<1>4. FirstLine(part) = FirstLine(SubSeq(text, p, Len(text)))
  BY FirstLineOfCut
<1>5. SubSeq(text, p, Len(text)) \in Seq(STRING)
  <2>1. Len(text) \in p - 1..Len(text)
    BY <1>1
  <2>. QED
    BY <1>1, <2>1, PartOfText
<1>6. Shell(part) = Shell(SubSeq(text, p, Len(text)))
  BY <1>2, <1>4, <1>5 DEF ShellsByLine
<1>7. v = "shellscript" => Shell(part) # "fish"
  <2>1. p \in DOMAIN text /\ (p = 1 \/ text[p - 1] = NL)
    BY <1>1 DEF Cut
  <2>. QED
    BY <1>6, <2>1 DEF Linted
<1>8. L = IF v = "shellscript" THEN (IF p > 1 /\ Shell(text) # Here THEN Directive ELSE <<>>) \o part
          ELSE part
  BY <1>2, HandedOf
<1>9. <<>> \o part = part
  BY <1>2, ConcatEmptySeq
<1>. HIDE DEF part, L
<1>10. L = part \/ (v = "shellscript" /\ L = Directive \o part)
  BY <1>8, <1>9
<1>11. Directive \o part # <<>>
  BY <1>2, <1>3 DEF Directive
<1>12. Shell(Directive \o part) # "fish"
  BY <1>2 DEF ShellsByLine
<1>. QED
  BY <1>3, <1>7, <1>10, <1>11, <1>12 DEF L

(* An edit that a linter passes brings no new defect.                       *)
LEMMA CleanEdit ==
  ASSUME ShellsByLine(Seq(STRING)), NEW c, NEW v \in Linters, NEW call, IsEdit(call),
         call.content = <<>>, call.old \in Seq(STRING), call.new \in Seq(STRING),
         Contained(v, call, Seq(STRING)),
         NEW text \in Seq(STRING), text # NoFileText, Occurrences(text, call.old) # {},
         call.new # <<>>, EndsInText(call.old),
         Setting(Cfg(c, v), "context_lines", 2) \in Nat \ {0},
         ~Blocks(c, v, call, text), NEW after, after = Replace(text, call.old, call.new),
         Linted(c, v, after)
  PROVE  Defects(c, v, call, after) \subseteq Defects(c, v, call, text)
<1>. DEFINE cfg     == Cfg(c, v)
            old     == call.old
            new     == call.new
            context == Setting(cfg, "context_lines", 2)
            L       == LinterText(v, cfg, call, text)
            at      == Min(Occurrences(text, old))
<1>1. old # <<>> /\ EditableFile(call, text)
  BY DEF EditableFile, EndsInText
<1>2. FromFile(v, text, old, new, context, L)
  BY <1>1, EditIsHanded
<1>3. after \in Seq(STRING)
  BY ReplaceIsText
<1>4. context > 0
  OBVIOUS
<1>5. PICK p \in 1..at : \E q \in at + Len(new) - 1..Len(after) :
         Cut(after, p, q) /\ L = Handed(v, after, p, q)
  BY <1>2, <1>4 DEF FromFile
<1>6. PICK q \in at + Len(new) - 1..Len(after) : Cut(after, p, q) /\ L = Handed(v, after, p, q)
  BY <1>5
<1>7. at \in 1..Len(text) - Len(old) + 1
  BY FirstOccurrence
<1>8. Len(text) \in Nat /\ Len(old) \in Nat /\ Len(new) \in Nat \ {0} /\ Len(after) \in Nat
  BY <1>3, EmptySeq
<1>9. LintFaults(v, after) \ Excuse(v) \subseteq LintFaults(v, text) \cup LintFaults(v, L)
  BY <1>1, <1>5, <1>6, ZenonT(40) DEF Contained
<1>. HIDE DEF at
<1>10. p \in 1..Len(after) /\ q \in p..Len(after)
  BY <1>5, <1>6, <1>7, <1>8
<1>. HIDE DEF L
<1>11. L # <<>> /\ (v = "shellscript" => Shell(L) # "fish")
  BY <1>3, <1>6, <1>10, HandedIsLinted
<1>12. ~ValidateFile(v, cfg, call, text).block
  BY DEF Blocks, Linters
<1>13. v \in DOMAIN Switch => Setting(cfg, Switch[v], TRUE)
  BY DEF Linted
<1>14. LintFaults(v, L) \subseteq Excluded(v, cfg, call)
  BY <1>11, <1>12, <1>13, LinterBlocks DEF L
<1>15. call.tool = "Edit" /\ Excluded(v, cfg, call) = Setting(cfg, "exclude_rules", {}) \cup Excuse(v)
  BY DEF Excluded, IsEdit
<1>. QED
  BY <1>9, <1>14, <1>15 DEF Defects

(* A workflow that passes has its actions pinned.                           *)
LEMMA CleanWorkflow ==
  ASSUME NEW c, NEW call, NEW file, ~Blocks(c, "workflow", call, file),
         Setting(Cfg(c, "workflow"), "enforce_digest_pinning", TRUE)
  PROVE  \A use \in ActionsIn(ContentOrEdited(call, file)) : ~BadUse(Cfg(c, "workflow"), use)
BY DEF Blocks, ValidateFile, Workflow, FailAs

(* A text that passes has no secret.                                        *)
LEMMA CleanOfSecrets ==
  ASSUME NEW c, NEW call, NEW file, ~Blocks(c, "secrets", call, file),
         NEW text, text = SecretsText(call), text # <<>>,
         Setting(Cfg(c, "secrets"), "block_on_detection", TRUE),
         ~(SizeOf(text) > SizeLimit(Cfg(c, "secrets")))
  PROVE  SecretsFound(Cfg(c, "secrets"), text) = {}
BY DEF Blocks, Secrets, FailAs, NoText

\* What an allowed write or edit leaves has no new defect, nor, where the validators
\* guard against them, an action that is not pinned or a secret.
CleanAfter(c, e, text, after) ==
  LET call   == SeenOf(c, e)
      before == IF text = NoFileText THEN <<>> ELSE text
      Judged(v) == GovernsSeen(c, v, call) /\ Applies(v, call) /\ Comparable(c, v, e)
  IN  /\ \A v \in Linters :
            Judged(v) /\ Linted(c, v, after) =>
                Defects(c, v, call, after) \subseteq Defects(c, v, call, before)
      /\ Judged("workflow") /\ Setting(Cfg(c, "workflow"), "enforce_digest_pinning", TRUE) =>
            \A use \in ActionsIn(after) : ~BadUse(Cfg(c, "workflow"), use)
      /\ LET cfg == Cfg(c, "secrets") IN
         /\ Judged("secrets") /\ Setting(cfg, "block_on_detection", TRUE)
         /\ ~(SizeOf(SecretsText(call)) > SizeLimit(cfg))
         => SecretsFound(cfg, after) \subseteq SecretsIn(before)

LEMMA WriteStaysClean ==
  ASSUME \A s \in Scene : \A call \in s.calls : Filed(call), WorldInv, ViewInv,
         NEW h \in Hook, NEW c, c = calls[h], c.stage = "allowed", GoesOn(c),
         NEW e, e = Command(c), e.do = "write"
  PROVE  CleanAfter(c, e, FileAt(e.path), e.text)
<1>. DEFINE seen == SeenOf(c, e)
<1>1. /\ c.call.tool # "Edit" /\ e.text \in Seq(STRING)
      /\ seen.tool = "Write" /\ seen.content = e.text
      /\ \E k \in DOMAIN SeenAs(c.call) : SeenAs(c.call)[k] = seen
  BY WriteIsSeen
<1>2. PICK k \in DOMAIN SeenAs(c.call) : SeenAs(c.call)[k] = seen
  BY <1>1
<1>. HIDE DEF seen
<1>3. ASSUME NEW v \in FileJudges, GovernsSeen(c, v, seen), Applies(v, seen), Comparable(c, v, e)
      PROVE  e.text # <<>> /\ ~Blocks(c, v, seen, NoFileText)
  <2>1. e.text # <<>>
    BY <1>3 DEF Comparable
  <2>2. seen.content # <<>>
    BY <1>1, <2>1
  <2>3. ~Blocks(c, v, seen, NoFileText)
    BY <1>1, <1>2, <1>3, <2>2, ShownIsPassed
  <2>. QED
    BY <2>1, <2>3
<1>4. Linters \subseteq FileJudges /\ "workflow" \in FileJudges /\ "secrets" \in FileJudges
  BY DEF FileJudges
<1>5. ASSUME NEW v \in Linters, GovernsSeen(c, v, seen), Applies(v, seen), Comparable(c, v, e),
             Linted(c, v, e.text)
      PROVE  Defects(c, v, seen, e.text) = {}
  <2>1. e.text # <<>> /\ ~Blocks(c, v, seen, NoFileText)
    BY <1>3, <1>4, <1>5
  <2>. QED
    BY <1>1, <1>5, <2>1, CleanWrite
<1>6. ASSUME GovernsSeen(c, "workflow", seen), Applies("workflow", seen), Comparable(c, "workflow", e),
             Setting(Cfg(c, "workflow"), "enforce_digest_pinning", TRUE)
      PROVE  \A use \in ActionsIn(e.text) : ~BadUse(Cfg(c, "workflow"), use)
  <2>1. e.text # <<>> /\ ~Blocks(c, "workflow", seen, NoFileText)
    BY <1>3, <1>4, <1>6
  <2>2. ContentOrEdited(seen, NoFileText) = e.text
    BY <1>1, <2>1 DEF ContentOrEdited
  <2>. QED
    BY <1>6, <2>1, <2>2, CleanWorkflow
<1>7. ASSUME GovernsSeen(c, "secrets", seen), Applies("secrets", seen), Comparable(c, "secrets", e),
             Setting(Cfg(c, "secrets"), "block_on_detection", TRUE),
             ~(SizeOf(SecretsText(seen)) > SizeLimit(Cfg(c, "secrets")))
      PROVE  SecretsFound(Cfg(c, "secrets"), e.text) = {}
  <2>1. e.text # <<>> /\ ~Blocks(c, "secrets", seen, NoFileText)
    BY <1>3, <1>4, <1>7
  <2>2. SecretsText(seen) = e.text
    BY <1>1 DEF SecretsText
  <2>3. ~(SizeOf(e.text) > SizeLimit(Cfg(c, "secrets")))
    BY <1>7, <2>2
  <2>. QED
    BY <1>7, <2>1, <2>2, <2>3, CleanOfSecrets
<1>. QED
  BY <1>5, <1>6, <1>7 DEF CleanAfter, seen

(* What the linters and the search for secrets find of an edit they find of *)
(* it as the hooks read it.                                                 *)
LEMMA ContainedAsRead ==
  ASSUME NEW s \in Scene, NEW call \in s.calls, NEW v, Contained(v, call, Seq(STRING))
  PROVE  Contained(v, Reading(call), Seq(STRING))
<1>. DEFINE c == Reading(call)
<1>1. c.old = call.old /\ c.new = call.new
  BY ReadingKeeps
<1>. HIDE DEF c
<1>2. Contained(v, c, Seq(STRING))
  BY <1>1 DEF Contained
<1>. QED
  BY <1>2 DEF c

LEMMA EditStaysClean ==
  ASSUME \A s \in Scene : \A call \in s.calls : Filed(call),
         \A s \in Scene : \A call \in s.calls :
            call.tool = "Edit" => \A v \in Linters : Contained(v, call, Seq(STRING)),
         ShellsByLine(Seq(STRING)), WorldInv, ViewInv,
         NEW h \in Hook, NEW c, c = calls[h], c.stage = "allowed", GoesOn(c),
         NEW e, e = Command(c), e.do = "edit"
  PROVE  CleanAfter(c, e, FileAt(e.path), Replace(files[e.path], e.old, e.new))
<1>. DEFINE call   == c.call
            text   == files[e.path]
            after  == Replace(text, e.old, e.new)
            before == IF text = NoFileText THEN <<>> ELSE text
<1>1. /\ SeenOf(c, e) = call
      /\ call.tool = "Edit" /\ call.content = <<>>
      /\ call.path = e.path /\ call.old = e.old /\ call.new = e.new
      /\ e.old \in Seq(STRING) /\ e.new \in Seq(STRING)
      /\ text \in Seq(STRING) /\ FileAt(e.path) = text
      /\ Occurrences(text, e.old) # {}
      /\ \E asked \in scene.calls : call = Reading(asked) /\ asked.tool = "Edit"
  BY EditIsSeen DEF FileAt
<1>2. \A v \in Linters : Contained(v, call, Seq(STRING))
  <2>1. scene \in Scene
    BY DEF WorldInv
  <2>. QED
    BY <1>1, <2>1, ContainedAsRead
<1>3. 0 \in DOMAIN SeenAs(call) /\ SeenAs(call)[0] = call
  BY DEF SeenAs
<1>. HIDE DEF text, after, before
<1>4. ASSUME NEW v \in FileJudges, GovernsSeen(c, v, call), Applies(v, call), Comparable(c, v, e)
      PROVE  /\ text # NoFileText /\ IsEdit(call) /\ ~Blocks(c, v, call, text)
             /\ e.new # <<>> /\ EndsInText(e.old)
             /\ Setting(Cfg(c, v), "context_lines", 2) \in Nat \ {0}
  <2>1. /\ text # NoFileText /\ e.new # <<>> /\ EndsInText(e.old)
        /\ Setting(Cfg(c, v), "context_lines", 2) \in Nat \ {0}
        /\ <<v, e.path>> \in DOMAIN c.read => c.read[<<v, e.path>>] = text
    BY <1>1, <1>4 DEF Comparable
  <2>2. <<v, c.call.path>> \in DOMAIN c.read /\ ~Blocks(c, v, call, c.read[<<v, c.call.path>>])
    BY <1>1, <1>3, <1>4, ShownIsPassed
  <2>3. ~Blocks(c, v, call, text)
    BY <1>1, <2>1, <2>2
  <2>4. v # "bell"
    BY <1>4 DEF FileJudges, Linters
  <2>5. IsEdit(call)
    BY <1>1, <1>4, <2>4 DEF Applies, IsEdit
  <2>. QED
    BY <2>1, <2>3, <2>5
<1>5. Linters \subseteq FileJudges /\ "workflow" \in FileJudges /\ "secrets" \in FileJudges
  BY DEF FileJudges
<1>. HIDE DEF call
<1>6. ASSUME NEW v \in Linters, GovernsSeen(c, v, call), Applies(v, call), Comparable(c, v, e),
             Linted(c, v, after)
      PROVE  Defects(c, v, call, after) \subseteq Defects(c, v, call, before)
  <2>1. /\ text # NoFileText /\ IsEdit(call) /\ ~Blocks(c, v, call, text)
        /\ e.new # <<>> /\ EndsInText(e.old)
        /\ Setting(Cfg(c, v), "context_lines", 2) \in Nat \ {0}
    BY <1>4, <1>5, <1>6
  <2>2. call.old \in Seq(STRING) /\ call.new \in Seq(STRING) /\ call.new # <<>> /\ EndsInText(call.old)
    BY <1>1, <2>1
  <2>3. /\ Occurrences(text, call.old) # {} /\ after = Replace(text, call.old, call.new)
        /\ call.content = <<>> /\ text \in Seq(STRING)
    BY <1>1 DEF after
  <2>4. Contained(v, call, Seq(STRING))
    BY <1>2, <1>6
  <2>5. before = text
    BY <2>1 DEF before
  <2>. QED
    BY <1>6, <2>1, <2>2, <2>3, <2>4, <2>5, CleanEdit
<1>7. ASSUME GovernsSeen(c, "workflow", call), Applies("workflow", call), Comparable(c, "workflow", e),
             Setting(Cfg(c, "workflow"), "enforce_digest_pinning", TRUE)
      PROVE  \A use \in ActionsIn(after) : ~BadUse(Cfg(c, "workflow"), use)
  <2>1. /\ text # NoFileText /\ IsEdit(call) /\ ~Blocks(c, "workflow", call, text)
        /\ EndsInText(e.old)
    BY <1>4, <1>5, <1>7
  <2>2. EditableFile(call, text)
    BY <1>1, <2>1 DEF EditableFile, EndsInText
  <2>3. ContentOrEdited(call, text) = after
    BY <1>1, <2>1, <2>2 DEF ContentOrEdited, after
  <2>. QED
    BY <1>7, <2>1, <2>3, CleanWorkflow
<1>8. ASSUME GovernsSeen(c, "secrets", call), Applies("secrets", call), Comparable(c, "secrets", e),
             Setting(Cfg(c, "secrets"), "block_on_detection", TRUE),
             ~(SizeOf(SecretsText(call)) > SizeLimit(Cfg(c, "secrets")))
      PROVE  SecretsFound(Cfg(c, "secrets"), after) \subseteq SecretsIn(before)
  <2>1. /\ text # NoFileText /\ ~Blocks(c, "secrets", call, text)
        /\ e.new # <<>> /\ EndsInText(e.old)
    BY <1>4, <1>5, <1>8
  <2>2. SecretsText(call) = e.new
    BY <1>1 DEF SecretsText
  <2>3. ~(SizeOf(e.new) > SizeLimit(Cfg(c, "secrets")))
    BY <1>8, <2>2
  <2>4. SecretsFound(Cfg(c, "secrets"), e.new) = {}
    BY <1>8, <2>1, <2>2, <2>3, CleanOfSecrets
  <2>5. SecretsIn(after) \subseteq SecretsIn(text) \cup SecretsIn(e.new)
    <3>1. "python" \in Linters
      BY DEF Linters
    <3>2. Contained("python", call, Seq(STRING))
      BY <1>2, <3>1
    <3>3. call.old # <<>> /\ call.new # <<>>
      BY <1>1, <2>1 DEF EndsInText
    <3>. QED
      BY <1>1, <3>2, <3>3 DEF Contained, after
  <2>6. before = text
    BY <2>1 DEF before
  <2>. QED
    BY <2>4, <2>5, <2>6 DEF SecretsFound
<1>9. CleanAfter(c, e, text, after)
  <2>1. before = IF text = NoFileText THEN <<>> ELSE text
    BY DEF before
  <2>. QED
    BY <1>1, <1>6, <1>7, <1>8, <2>1 DEF CleanAfter
<1>. QED
  BY <1>1, <1>9 DEF text, after

(* An allowed write or edit brings no new defect into a file, no secret and *)
(* no action that is not pinned, whatever the other hooks and their calls   *)
(* do in between: provided that the hooks see what is written, that a new   *)
(* fault is found in the lines around an edit and its secrets in it, and    *)
(* that the shell of a script is that of its first line.                    *)
THEOREM CleanAlwaysStaysClean ==
  ASSUME \A s \in Scene : \A call \in s.calls : Filed(call),
         \A s \in Scene : \A call \in s.calls :
            call.tool = "Edit" => \A v \in Linters : Contained(v, call, Seq(STRING)),
         ShellsByLine(Seq(STRING))
  PROVE  Spec => CleanStaysClean
<1>. DEFINE Inv == WorldInv /\ ViewInv
            Step == \A h \in Hook : Performs(h) =>
              LET c == calls[h]  e == Command(c) IN
              e.do \in {"write", "edit"} => CleanAfter(c, e, FileAt(e.path), files'[e.path])
<1>1. Init => Inv
  BY InitWorld, InitView
<1>2. Inv /\ [Next]_vars => Inv'
  BY WorldKept, ViewKept
<1>3. Inv /\ [Next]_vars => Step
  <2>1. SUFFICES ASSUME Inv, [Next]_vars, NEW h \in Hook, Performs(h),
                        NEW c, c = calls[h], NEW e, e = Command(c), e.do \in {"write", "edit"}
                 PROVE  CleanAfter(c, e, FileAt(e.path), files'[e.path])
    OBVIOUS
  <2>2. c.stage = "allowed" /\ GoesOn(c)
    BY <2>1 DEF Performs
  <2>3. files' = FilesAfter(e)
    <3>1. Perform(h)
      BY <2>1, PerformedInStep
    <3>. QED
      BY <2>1, <3>1 DEF Perform
  <2>4. CASE e.do = "write"
    <3>1. files'[e.path] = e.text
      <4>1. files' = Over(files, [p \in {e.path} |-> e.text])
        BY <2>3, <2>4 DEF FilesAfter
      <4>. QED
        BY <4>1 DEF Over
    <3>2. CleanAfter(c, e, FileAt(e.path), e.text)
      BY <2>1, <2>2, <2>4, WriteStaysClean
    <3>. QED
      BY <3>1, <3>2
  <2>5. CASE e.do = "edit"
    <3>1. e.path \in DOMAIN files
      BY <2>1, <2>2, <2>5, EditIsSeen
    <3>2. files'[e.path] = Replace(files[e.path], e.old, e.new)
      <4>1. files' = [files EXCEPT ![e.path] = Replace(@, e.old, e.new)]
        BY <2>3, <2>5 DEF FilesAfter
      <4>. QED
        BY <3>1, <4>1
    <3>3. CleanAfter(c, e, FileAt(e.path), Replace(files[e.path], e.old, e.new))
      BY <2>1, <2>2, <2>5, EditStaysClean
    <3>. QED
      BY <3>2, <3>3
  <2>. QED
    BY <2>1, <2>4, <2>5
<1>4. CleanStaysClean <=> [][Step]_vars
  BY DEF CleanStaysClean, CleanAfter
<1>. HIDE DEF Inv, Step
<1>. QED
  BY <1>1, <1>2, <1>3, <1>4, PTL DEF Spec

=============================================================================
