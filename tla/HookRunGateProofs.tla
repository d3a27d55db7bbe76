-------------------------- MODULE HookRunGateProofs --------------------------
(***************************************************************************)
(* What is proved of the session gate, on top of HookRunProofs: which      *)
(* commands it lets through, whatever overlaps and fails, and, when the    *)
(* host runs one hook at a time, that the state file is whole, that no     *)
(* command gets past a poison the host was told of, and that the hooks     *)
(* implement SessionGate.                                                  *)
(***************************************************************************)
EXTENDS HookRunProofs, SequenceTheorems, WellFoundedInduction

-----------------------------------------------------------------------------
\* The search for a token

(* A set of positions that is not empty has a first one.                    *)
LEMMA FirstPosition ==
  ASSUME NEW T \in SUBSET Nat, T # {}
  PROVE  Min(T) \in T
<1>. DEFINE R == {ss \in Nat \X Nat : ss[1] < ss[2]}
<1>1. IsWellFoundedOn(R, Nat)
  BY NatLessThanWellFounded DEF OpToRel
<1>2. PICK x \in T : \A y \in T : ~ (<<y, x>> \in R)
  <2>. HIDE DEF R
  <2>. QED
    BY <1>1, WFMin
<1>3. \A y \in T : x =< y
  <2>. SUFFICES ASSUME NEW y \in T, y < x PROVE FALSE
    OBVIOUS
  <2>1. <<y, x>> \in R
    OBVIOUS
  <2>. QED
    BY <1>2, <2>1
<1>. QED
  BY <1>3 DEF Min

(* The token Parse returns is made of the pieces of one candidate, all of   *)
(* them well formed.                                                        *)
LEMMA FoundTokenIsThere ==
  ASSUME NEW cmd \in CommandType, FoundToken(cmd) # {}
  PROVE  \E i \in DOMAIN Candidates(cmd) :
            /\ FoundToken(cmd) = Candidates(cmd)[i] \ {EmptyCode}
            /\ Candidates(cmd)[i] \ {EmptyCode} \subseteq ValidCode
<1>1. Candidates(cmd) \in Seq(Token)
  BY DEF Candidates, CommandType
<1>2. WellFormed(cmd) \in SUBSET Nat
  <2>1. DOMAIN Candidates(cmd) = 1 .. Len(Candidates(cmd))
    BY <1>1
  <2>. QED
    BY <1>1, <2>1 DEF WellFormed
<1>3. WellFormed(cmd) # {} /\ Min(WellFormed(cmd)) \in WellFormed(cmd)
  BY <1>2, FirstPosition DEF FoundToken
<1>. DEFINE i == Min(WellFormed(cmd))
<1>4. i \in DOMAIN Candidates(cmd) /\ FoundToken(cmd) = ParseToken(Candidates(cmd)[i])
  BY <1>3 DEF WellFormed, FoundToken
<1>. QED
  BY <1>4 DEF ParseToken

(* A candidate is one of the tokens in the assignments or in the comments.  *)
LEMMA CandidateIsWritten ==
  ASSUME NEW cmd \in CommandType, NEW i \in DOMAIN Candidates(cmd)
  PROVE  Candidates(cmd)[i] \in (ToSet(cmd.env) \cup ToSet(cmd.comments)) \cap Token
<1>1. cmd.env \in Seq(Token) /\ cmd.comments \in Seq(Token)
  BY DEF CommandType
<1>2. ASSUME NEW s \in Seq(Token), NEW j \in 1 .. Len(s) PROVE s[j] \in ToSet(s) \cap Token
  BY DEF ToSet
<1>. DEFINE e == cmd.env
            c == cmd.comments
<1>. HIDE DEF e, c
<1>3. /\ e \o c \in Seq(Token) /\ Len(e \o c) = Len(e) + Len(c)
      /\ \A k \in 1 .. Len(e) + Len(c) :
            (e \o c)[k] = IF k <= Len(e) THEN e[k] ELSE c[k - Len(e)]
  BY <1>1, ConcatProperties DEF e, c
<1>4. i \in 1 .. Len(e) + Len(c) /\ Len(e) \in Nat /\ Len(c) \in Nat
  BY <1>1, <1>3, LenProperties DEF Candidates, e, c
<1>5. CASE i <= Len(e)
  <2>1. i \in 1 .. Len(e) /\ (e \o c)[i] = e[i]
    BY <1>3, <1>4, <1>5
  <2>. QED
    BY <1>1, <1>2, <2>1 DEF Candidates, e, c
<1>6. CASE i > Len(e)
  <2>1. i - Len(e) \in 1 .. Len(c) /\ (e \o c)[i] = c[i - Len(e)]
    BY <1>3, <1>4, <1>6
  <2>2. c[i - Len(e)] \in ToSet(c) \cap Token
    BY <1>1, <1>2, <2>1 DEF c
  <2>. QED
    BY <2>1, <2>2 DEF Candidates, e, c
<1>. QED
  BY <1>4, <1>5, <1>6

(* The gate releases a poison that has codes only to a command that carries *)
(* a key for them, wherever in the command the token is.                    *)
LEMMA ReleaseNeedsKey ==
  ASSUME NEW cmd \in CommandType, NEW codes \in SUBSET Code, codes # {}, Releases(cmd, codes)
  PROVE  IsKey(cmd, codes)
<1>1. cmd.text /\ (cmd.parses \/ cmd.marked)
  BY DEF Releases, Acknowledgment
<1>2. ASSUME cmd.parses PROVE NamesAll(cmd, codes)
  <2>1. codes \subseteq FoundToken(cmd)
    BY <1>2 DEF Releases, Acknowledgment
  <2>2. PICK i \in DOMAIN Candidates(cmd) :
            /\ FoundToken(cmd) = Candidates(cmd)[i] \ {EmptyCode}
            /\ Candidates(cmd)[i] \ {EmptyCode} \subseteq ValidCode
    BY <2>1, FoundTokenIsThere
  <2>3. Candidates(cmd)[i] \in (ToSet(cmd.env) \cup ToSet(cmd.comments)) \cap Token
    BY CandidateIsWritten
  <2>. QED
    BY <2>1, <2>2, <2>3 DEF NamesAll
<1>. QED
  BY <1>1, <1>2 DEF IsKey, CommandType

(* The token the poisoned-session error prints is a key for its codes, when *)
(* these are codes the token grammar accepts.                               *)
LEMMA AdvertisedReleases ==
  ASSUME NEW codes \in SUBSET ValidCode
  PROVE  Releases(Advertised(codes), codes)
<1>. DEFINE cmd == Advertised(codes)
<1>1. Candidates(cmd) = <<codes>>
  BY DEF Candidates, Advertised
<1>2. CASE codes = {}
  BY <1>2 DEF Releases, Acknowledgment, Advertised
<1>3. CASE codes # {}
  <2>1. ParseToken(codes) = codes
    BY CodeAssumption DEF ParseToken
  <2>2. WellFormed(cmd) = {1}
    BY <1>1, <1>3, <2>1 DEF WellFormed
  <2>3. Min(WellFormed(cmd)) = 1
    BY <2>2, FirstPosition
  <2>4. FoundToken(cmd) = codes
    BY <1>1, <2>1, <2>2, <2>3 DEF FoundToken
  <2>. QED
    BY <2>4 DEF Releases, Acknowledgment, Advertised
<1>. QED
  BY <1>2, <1>3

-----------------------------------------------------------------------------
\* The gate and the codes of a poison, whatever overlaps and fails

(* A process leaves what another one has in hand alone.                     *)
LEMMA OthersUnmoved ==
  ASSUME TypeOK, NEW p \in Proc, NEW q \in Proc, p # q, Invoke(p) \/ Step(p)
  PROVE  /\ pc'[q] = pc[q] /\ job'[q] = job[q] /\ mem'[q] = mem[q]
         /\ answer'[q] = answer[q] /\ due'[q] = due[q] /\ fd'[q] = fd[q]
<1>. USE DEF TypeOK, file, ghost
<1>1. CASE Invoke(p)
  BY <1>1 DEF Invoke
<1>2. CASE Load(p) \/ Gate(p) \/ Validate(p)
  BY <1>2 DEF Load, Gate, Validate
<1>3. CASE OpenTemp(p) \/ WriteTemp(p) \/ RenameTemp(p)
  BY <1>3 DEF OpenTemp, WriteTemp, RenameTemp
<1>4. CASE RenameFails(p) \/ RemoveTemp(p) \/ SaveFails(p)
  BY <1>4 DEF RenameFails, RemoveTemp, SaveFails
<1>5. CASE Exit(p) \/ Crash(p)
  BY <1>5 DEF Exit, Crash
<1>. QED
  BY <1>1, <1>2, <1>3, <1>4, <1>5 DEF Step

(* Only the process itself takes itself past the gate, in its Gate step.    *)
LEMMA PassesInGate ==
  ASSUME TypeOK, Next, NEW p \in Proc, pc[p] = "gate", pc'[p] = "validate"
  PROVE  Gate(p)
<1>1. PICK q \in Proc : Invoke(q) \/ Step(q)
  BY DEF Next, Tick
<1>2. q = p
  BY <1>1, OthersUnmoved
<1>. QED
  BY <1>1, <1>2 DEF TypeOK, Step, Invoke, Load, Validate, OpenTemp, WriteTemp, RenameTemp,
         RenameFails, RemoveTemp, SaveFails, Exit, Crash, Idle

(* A poisoning has the codes of the reports that blocked a command.         *)
LEMMA CodesAreReported ==
  ASSUME TypeOK, [Next]_vars, NEW s \in Session, NEW e \in earned'[s]
  PROVE  \/ e \in earned[s]
         \/ \E reports \in SUBSET Report : ShouldBlock(reports) /\ e[1] = PoisonCodes(reports)
<1>1. CASE UNCHANGED earned
  BY <1>1
<1>2. ASSUME NEW p \in Proc, Validate(p), ~UNCHANGED earned
      PROVE  \/ e \in earned[s]
             \/ \E reports \in SUBSET Report : ShouldBlock(reports) /\ e[1] = PoisonCodes(reports)
  <2>1. PICK reports \in SUBSET Report :
           /\ ShouldBlock(reports)
           /\ earned' = [earned EXCEPT ![job[p].session] =
                            @ \cup {<<PoisonCodes(reports), now>>}]
    BY <1>2 DEF Validate
  <2>2. e \in earned[s] \/ e = <<PoisonCodes(reports), now>>
    BY <2>1 DEF TypeOK
  <2>. QED
    BY <2>1, <2>2
<1>3. ASSUME NEW p \in Proc, Invoke(p) \/ Step(p), ~Validate(p)
      PROVE  UNCHANGED earned
  BY <1>3 DEF Step, Invoke, Load, Gate, OpenTemp, WriteTemp, RenameTemp, RenameFails,
         RemoveTemp, SaveFails, Exit, Crash, ghost
<1>. QED
  BY <1>1, <1>2, <1>3 DEF Next, Step, Tick, vars, ghost

\* Every poisoning left at least one code.
CodesNamed == \A s \in Session : \A e \in earned[s] : e[1] # {}

\* Every poisoning left codes a token can carry.
CodesSpoken == \A s \in Session : \A e \in earned[s] : e[1] \subseteq ValidCode

(* When every blocking report has a code, so does every poison, and the     *)
(* gate releases a poisoned session to a command with a key and to no other *)
(* one, however the hooks overlap and whatever fails.  (A blocking report   *)
(* without reference leaves a poison without codes, which any command       *)
(* releases: the assumption is needed.)                                     *)
THEOREM KeyAlwaysNeeded ==
  ASSUME \A r \in Report : r.blocks => r.codes # {}
  PROVE  Spec => KeyNeeded
<1>. DEFINE released(p) == pc[p] = "gate" /\ pc'[p] = "validate"
                             /\ IsPoisoned(mem[p], job[p].session, now)
            hasKey(p) == IsKey(job[p].command, mem[p][job[p].session].codes)
<1>1. Init => CodesNamed
  BY DEF Init, CodesNamed
<1>2. TypeOK /\ CodesNamed /\ [Next]_vars => CodesNamed'
  <2>. SUFFICES ASSUME TypeOK, CodesNamed, [Next]_vars, NEW s \in Session, NEW e \in earned'[s]
                PROVE  e[1] # {}
    BY DEF CodesNamed
  <2>1. ASSUME NEW reports \in SUBSET Report, ShouldBlock(reports) PROVE PoisonCodes(reports) # {}
    BY <2>1 DEF ShouldBlock, PoisonCodes
  <2>. QED
    BY <2>1, CodesAreReported DEF CodesNamed
<1>3. EarnedInv /\ CodesNamed /\ [Next]_vars => [\A p \in Proc : released(p) => hasKey(p)]_vars
  <2>. SUFFICES ASSUME EarnedInv, CodesNamed, Next, NEW p \in Proc, released(p)
                PROVE  hasKey(p)
    OBVIOUS
  <2>. USE DEF EarnedInv, TypeInv
  <2>. DEFINE s == job[p].session
              codes == mem[p][s].codes
  <2>1. Gate(p)
    BY PassesInGate
  <2>2. s \in Session /\ Exists(mem[p], s) /\ mem[p][s].status = "poisoned"
    BY DEF IsPoisoned
  <2>3. mem[p][s] \in Info
    BY <2>2, ExistingInfo DEF TypeOK
  <2>4. codes \in SUBSET Code
    BY <2>3 DEF Info
  <2>5. codes # {}
    <3>1. PoisonIn(mem[p][s]) \in earned[s]
      BY <2>2 DEF PoisonIsEarned, EarnedIn
    <3>2. PoisonIn(mem[p][s])[1] = codes
      BY DEF PoisonIn
    <3>. QED
      BY <2>2, <3>1, <3>2 DEF CodesNamed
  <2>6. Releases(job[p].command, codes)
    BY <2>1 DEF Gate, TypeOK
  <2>7. job[p].command \in CommandType
    <3>1. job[p] \in Request
      BY DEF TypeOK, Idle
    <3>. QED
      BY <3>1, CommandAssumption DEF Request
  <2>. QED
    BY <2>4, <2>5, <2>6, <2>7, ReleaseNeedsKey
<1>4. EarnedInv => TypeOK
  BY DEF EarnedInv, TypeInv
<1>. QED
  BY <1>1, <1>2, <1>3, <1>4, EarnedInit, EarnedStep, PTL DEF Spec, KeyNeeded

\* A run that refuses does so for a poison in its memory, until it is over.
RefusedInv ==
  \A p \in Proc : answer[p] = "refuse" =>
      /\ job[p].session \in Session
      /\ Exists(mem[p], job[p].session)
      /\ mem[p][job[p].session].status = "poisoned"

LEMMA RefusedStep ==
  ASSUME TypeInv, RefusedInv, [Next]_vars
  PROVE  RefusedInv'
<1>. USE DEF TypeInv, TypeOK
<1>. SUFFICES ASSUME NEW q \in Proc, answer'[q] = "refuse"
              PROVE  /\ job'[q].session \in Session
                     /\ mem'[q][job'[q].session] # Absent
                     /\ mem'[q][job'[q].session].status = "poisoned"
  BY DEF RefusedInv, Exists
<1>. USE DEF RefusedInv, Exists
<1>1. CASE UNCHANGED vars \/ Tick
  BY <1>1 DEF vars, Tick
<1>2. ASSUME NEW p \in Proc, p # q, Invoke(p) \/ Step(p)
      PROVE  job'[q] = job[q] /\ mem'[q] = mem[q] /\ answer'[q] = answer[q]
  BY <1>2, OthersUnmoved
<1>3. CASE Invoke(q) \/ Load(q)
  BY <1>3 DEF Invoke, Load, BlockIsPoison, Idle
<1>4. CASE Gate(q)
  BY <1>4 DEF Gate, IsPoisoned, BlockIsPoison
<1>5. CASE Validate(q)
  BY <1>5 DEF Validate
<1>6. CASE OpenTemp(q) \/ WriteTemp(q) \/ RenameTemp(q) \/ RenameFails(q) \/ RemoveTemp(q)
           \/ SaveFails(q)
  BY <1>6 DEF OpenTemp, WriteTemp, RenameTemp, RenameFails, RemoveTemp, SaveFails, ghost
<1>7. CASE Exit(q) \/ Crash(q)
  BY <1>7 DEF Exit, Crash
<1>. QED
  BY <1>1, <1>2, <1>3, <1>4, <1>5, <1>6, <1>7 DEF Next, Step

(* When the codes of blocking reports are codes a token can carry, the      *)
(* token that the refusal of a run prints releases the session it names.    *)
(* (A report with another code makes a poison no token releases, and so the *)
(* assumption is needed.)                                                   *)
THEOREM AdvertisedTokenAlwaysUnlocks ==
  ASSUME \A r \in Report : r.blocks => r.codes \subseteq ValidCode
  PROVE  Spec => []AdvertisedTokenUnlocks
<1>1. Init => CodesSpoken /\ RefusedInv
  BY DEF Init, CodesSpoken, RefusedInv
<1>2. TypeOK /\ CodesSpoken /\ [Next]_vars => CodesSpoken'
  <2>. SUFFICES ASSUME TypeOK, CodesSpoken, [Next]_vars, NEW s \in Session, NEW e \in earned'[s]
                PROVE  e[1] \subseteq ValidCode
    BY DEF CodesSpoken
  <2>1. ASSUME NEW reports \in SUBSET Report PROVE PoisonCodes(reports) \subseteq ValidCode
    BY DEF PoisonCodes
  <2>. QED
    BY <2>1, CodesAreReported DEF CodesSpoken
<1>3. TypeInv /\ RefusedInv /\ [Next]_vars => RefusedInv'
  BY RefusedStep
<1>4. EarnedInv /\ CodesSpoken /\ RefusedInv => AdvertisedTokenUnlocks
  <2>. SUFFICES ASSUME EarnedInv, CodesSpoken, RefusedInv, NEW p \in Proc, answer[p] = "refuse"
                PROVE  Releases(Advertised(mem[p][job[p].session].codes),
                                mem[p][job[p].session].codes)
    BY DEF AdvertisedTokenUnlocks
  <2>. DEFINE s == job[p].session
  <2>1. s \in Session /\ PoisonIn(mem[p][s]) \in earned[s]
    BY DEF EarnedInv, PoisonIsEarned, EarnedIn, RefusedInv
  <2>2. mem[p][s].codes \in SUBSET ValidCode
    BY <2>1 DEF CodesSpoken, PoisonIn
  <2>. QED
    BY <2>2, AdvertisedReleases
<1>5. EarnedInv => TypeOK /\ TypeInv
  BY DEF EarnedInv, TypeInv
<1>. QED
  BY <1>1, <1>2, <1>3, <1>4, <1>5, EarnedInit, EarnedStep, PTL DEF Spec

-----------------------------------------------------------------------------
\* One hook at a time: the state file

AloneInv ==
  /\ \A p, q \in Proc : ~Idle(p) /\ ~Idle(q) => p = q
  /\ \A p \in Proc : Idle(p) => job[p] = NoRequest

\* What is under the temporary name is the work of the process that writes or
\* renames it.
FileOf(p) ==
  /\ fd[p] # None => pc[p] = "write"
  /\ pc[p] = "write" => fd[p] = tmp /\ tmp # None /\ disk[tmp] = Empty
  /\ pc[p] = "rename" => tmp # None /\ disk[tmp] = mem[p]

\* The state file is whole.
FileInv ==
  /\ path # None => path # tmp /\ disk[path] \in State
  /\ \A p \in Proc : FileOf(p)

AloneFileInv == AloneInv /\ FileInv

\* The map the state file stands for.
Published == IF path = None THEN Fresh ELSE disk[path]

\* Lapsed, at any time.
LapsedBy(d, t) == MaxSessionAge > 0 /\ t - d[2] > MaxSessionAge

\* At time t, a map shows every poisoning the host was told of, unless it was
\* released or lapsed.
Remembers(st, owed, t) ==
  \A s \in Session : \A d \in owed[s] :
      LapsedBy(d, t) \/ (Exists(st, s) /\ st[s].status = "poisoned" /\ d[2] <= st[s].last)

\* What the process p owes the poisonings the host was told of.
DebtOf(p) ==
  /\ pc[p] \notin {"idle", "load"} => Remembers(mem[p], debt, now)
  /\ pc[p] = "validate" /\ job[p].session \in Session =>
        \A d \in debt[job[p].session] : LapsedBy(d, now)
  /\ pc[p] # "remove"
  /\ pc[p] = "exit" => Published = mem[p]

DebtInv ==
  /\ Remembers(Published, debt, now)
  /\ \A p \in Proc : DebtOf(p)

\* The command of p may pass the gate of its session.
MayPass(p) ==
  LET s == job[p].session
  IN  s \in Session =>
        (Promise!Bars(s) => Promise!Opens(job[p].command, PublishedGate[s].codes))

\* The gate of session s as process p will publish it.
Untouched(p, s) ==
  \/ GateOf(mem[p][s]) = PublishedGate[s]
  \/ ~Promise!Bars(s) /\ GateOf(mem[p][s]) = Absent

SettleOf(p) ==
  /\ pc[p] = "gate" => \A s \in Session : Untouched(p, s)
  /\ pc[p] = "validate" => MayPass(p)
  /\ pc[p] \in {"validate", "open", "write", "rename"} =>
        \A s \in Session :
           \/ Untouched(p, s)
           \/ /\ s = job[p].session /\ MayPass(p)
              /\ GateOf(mem[p][s]) # Absent => GateOf(mem[p][s]).since <= now

SettleInv == \A p \in Proc : SettleOf(p)

-----------------------------------------------------------------------------
\* One hook at a time: the state file is whole

(* The content of a file with a name is kept.                               *)
LEMMA NamedIsKept ==
  ASSUME NEW content, NEW f, NEW i \in Inode, i = path \/ i = tmp
  PROVE  Reclaimed(content, Held({path, tmp}, f))[i] = content[i]
<1>1. i \in Held({path, tmp}, f)
  BY FileAssumption DEF Held
<1>. QED
  BY <1>1 DEF Reclaimed

(* Writing the temporary file touches no other file that has a name.        *)
LEMMA TempIsWritten ==
  ASSUME TypeOK, tmp \in Inode, path # None => path # tmp, NEW content, NEW f,
         disk' = Reclaimed([disk EXCEPT ![tmp] = content], Held({path, tmp}, f))
  PROVE  disk'[tmp] = content /\ (path # None => disk'[path] = disk[path])
<1>. DEFINE d == [disk EXCEPT ![tmp] = content]
<1>1. d[tmp] = content /\ (path # None => d[path] = disk[path])
  BY DEF TypeOK
<1>. HIDE DEF d
<1>2. disk' = Reclaimed(d, Held({path, tmp}, f))
  BY DEF d
<1>3. path # None => path \in Inode
  BY DEF TypeOK
<1>. QED
  BY <1>1, <1>2, <1>3, NamedIsKept

(* While the host waits for one hook before it starts the next, at most one *)
(* process runs.                                                            *)
LEMMA AloneStep ==
  ASSUME Exclusive, TypeOK, AloneInv, [Next]_vars
  PROVE  AloneInv'
<1>. USE DEF TypeOK
<1>1. CASE UNCHANGED <<pc, job>>
  BY <1>1 DEF AloneInv, Idle
<1>2. ASSUME NEW p \in Proc, Invoke(p) PROVE AloneInv'
  <2>1. \A q \in Proc : Idle(q)
    BY <1>2 DEF Invoke
  <2>2. \A q \in Proc : q # p => pc'[q] = pc[q] /\ job'[q] = job[q]
    BY <1>2, OthersUnmoved
  <2>3. pc'[p] = "load"
    BY <1>2 DEF Invoke
  <2>. QED
    BY <2>1, <2>2, <2>3 DEF AloneInv, Idle
<1>3. ASSUME NEW p \in Proc, Exit(p) \/ Crash(p) PROVE AloneInv'
  BY <1>3 DEF AloneInv, Idle, Exit, Crash
<1>4. ASSUME NEW p \in Proc, Step(p), ~Exit(p), ~Crash(p) PROVE AloneInv'
  <2>1. ~Idle(p) /\ job' = job
    BY <1>4 DEF Step, Idle, Load, Gate, Validate, OpenTemp, WriteTemp, RenameTemp, RenameFails,
           RemoveTemp, SaveFails
  <2>2. pc'[p] # "idle"
    BY <1>4 DEF Step, Load, Gate, Validate, OpenTemp, WriteTemp, RenameTemp, RenameFails,
           RemoveTemp, SaveFails
  <2>3. \A q \in Proc : q # p => pc'[q] = pc[q]
    BY <1>4, OthersUnmoved
  <2>. QED
    BY <2>1, <2>2, <2>3 DEF AloneInv, Idle
<1>. QED
  BY <1>1, <1>2, <1>3, <1>4 DEF Next, Tick, vars

(* When only p is at work, the other processes have no file open.           *)
LEMMA IdleHasNoFile ==
  ASSUME TypeOK, AloneInv, FileInv, NEW p \in Proc, ~Idle(p)
  PROVE  \A q \in Proc : q # p => pc[q] = "idle" /\ fd[q] = None
BY DEF AloneInv, FileInv, FileOf, Idle

LEMMA FileByProcess ==
  ASSUME TypeOK, AloneInv, FileInv, NEW p \in Proc, ~Idle(p), Step(p),
         (path # None => path # tmp /\ disk[path] \in State)', FileOf(p)'
  PROVE  FileInv'
<1>1. ASSUME NEW q \in Proc, q # p PROVE FileOf(q)'
  <2>1. pc[q] = "idle" /\ fd[q] = None
    BY <1>1, IdleHasNoFile
  <2>2. pc'[q] = "idle" /\ fd'[q] = None
    BY <1>1, <2>1, OthersUnmoved
  <2>. QED
    BY <2>2 DEF FileOf
<1>. QED
  BY <1>1 DEF FileInv

(* One at a time, the hooks leave a whole state file or none: the temporary *)
(* file is truncated before it is written and whole before it is renamed,   *)
(* whatever a crash or a failed save left behind.                           *)
LEMMA FileStep ==
  ASSUME TypeOK, AloneInv, FileInv, [Next]_vars
  PROVE  FileInv'
<1>. USE DEF TypeOK
<1>1. CASE UNCHANGED <<path, tmp, disk, fd, pc, mem>>
  BY <1>1 DEF FileInv, FileOf
<1>2. ASSUME NEW p \in Proc, Invoke(p) PROVE FileInv'
  BY <1>2 DEF Invoke, FileInv, FileOf, file, Idle
<1>3. ASSUME NEW p \in Proc, Load(p) \/ Gate(p) \/ Validate(p) \/ RenameFails(p) \/ Exit(p)
      PROVE  FileInv'
  <2>1. ~Idle(p) /\ Step(p) /\ UNCHANGED <<path, tmp, disk, fd>>
    BY <1>3 DEF Load, Gate, Validate, RenameFails, Exit, Idle, file, Step
  <2>2. pc'[p] \notin {"write", "rename"} /\ pc[p] # "write"
    BY <1>3 DEF Load, Gate, Validate, RenameFails, Exit
  <2>3. FileOf(p)'
    BY <2>1, <2>2 DEF FileInv, FileOf
  <2>. QED
    BY <2>1, <2>3, FileByProcess DEF FileInv
<1>4. ASSUME NEW p \in Proc, OpenTemp(p) PROVE FileInv'
  <2>1. ~Idle(p) /\ Step(p) /\ UNCHANGED path
    BY <1>4 DEF OpenTemp, Idle, Step
  <2>2. PICK i \in Inode :
          /\ IF tmp = None THEN i \notin Held({path}, fd) ELSE i = tmp
          /\ tmp' = i
          /\ fd' = [fd EXCEPT ![p] = i]
          /\ disk' = [disk EXCEPT ![i] = Empty]
    BY <1>4 DEF OpenTemp
  <2>3. path # None => path # i
    BY <2>2 DEF Held, FileInv
  <2>4. FileOf(p)'
    BY <1>4, <2>2, FileAssumption DEF OpenTemp, FileOf
  <2>5. (path # None => path # tmp /\ disk[path] \in State)'
    BY <2>1, <2>2, <2>3 DEF FileInv
  <2>. QED
    BY <2>1, <2>4, <2>5, FileByProcess
<1>5. ASSUME NEW p \in Proc, WriteTemp(p) PROVE FileInv'
  <2>1. ~Idle(p) /\ Step(p) /\ UNCHANGED <<path, tmp, mem>>
    BY <1>5 DEF WriteTemp, Idle, Step
  <2>2. fd[p] = tmp /\ tmp \in Inode /\ disk[tmp] = Empty
    BY <1>5 DEF WriteTemp, FileInv, FileOf
  <2>3. disk' = Reclaimed([disk EXCEPT ![tmp] = mem[p]],
                          Held({path, tmp}, [fd EXCEPT ![p] = None]))
    BY <1>5, <2>2 DEF WriteTemp
  <2>4. disk'[tmp] = mem[p]
    BY <2>2, <2>3, TempIsWritten DEF FileInv
  <2>5. path # None => path # tmp /\ disk'[path] = disk[path]
    BY <2>2, <2>3, TempIsWritten DEF FileInv
  <2>6. FileOf(p)'
    BY <1>5, <2>1, <2>2, <2>4, FileAssumption DEF WriteTemp, FileOf
  <2>. QED
    BY <2>1, <2>5, <2>6, FileByProcess DEF FileInv
<1>6. ASSUME NEW p \in Proc, RenameTemp(p) PROVE FileInv'
  <2>1. ~Idle(p) /\ Step(p) /\ path' = tmp /\ tmp' = None /\ fd' = fd /\ tmp \in Inode
    BY <1>6 DEF RenameTemp, Idle, Step
  <2>2. disk[tmp] = mem[p] /\ mem[p] \in State
    BY <1>6 DEF RenameTemp, FileInv, FileOf
  <2>3. disk'[tmp] = disk[tmp]
    BY <1>6, <2>1, FileAssumption DEF RenameTemp, Reclaimed, Held
  <2>4. FileOf(p)'
    BY <1>6 DEF RenameTemp, FileOf, FileInv
  <2>. QED
    BY <2>1, <2>2, <2>3, <2>4, FileByProcess, FileAssumption
<1>7. ASSUME NEW p \in Proc, RemoveTemp(p) PROVE FileInv'
  <2>1. ~Idle(p) /\ Step(p) /\ path' = path /\ tmp' = None /\ fd' = fd
    BY <1>7 DEF RemoveTemp, Idle, Step
  <2>2. path # None => disk'[path] = disk[path]
    BY <1>7 DEF RemoveTemp, Reclaimed, Held
  <2>3. FileOf(p)'
    BY <1>7 DEF RemoveTemp, FileOf, FileInv
  <2>. QED
    BY <2>1, <2>2, <2>3, FileByProcess DEF FileInv
<1>8. ASSUME NEW p \in Proc, SaveFails(p) PROVE FileInv'
  <2>1. ~Idle(p) /\ Step(p) /\ UNCHANGED <<path, tmp>>
    BY <1>8 DEF SaveFails, Idle, Step
  <2>2. FileOf(p)'
    BY <1>8 DEF SaveFails, FileOf
  <2>3. path # None => path # tmp /\ disk'[path] = disk[path]
    <3>1. CASE UNCHANGED disk
      BY <3>1 DEF FileInv
    <3>2. CASE pc[p] = "write"
      <4>1. fd[p] = tmp
        BY <3>2 DEF FileInv, FileOf
      <4>2. PICK content \in {Empty, Corrupt} :
               disk' = Reclaimed([disk EXCEPT ![tmp] = content],
                                 Held({path, tmp}, [fd EXCEPT ![p] = None]))
        BY <1>8, <3>2, <4>1 DEF SaveFails
      <4>. QED
        BY <3>2, <4>2, TempIsWritten DEF FileInv, FileOf
    <3>. QED
      BY <1>8, <3>1, <3>2 DEF SaveFails
  <2>. QED
    BY <2>1, <2>2, <2>3, FileByProcess DEF FileInv
<1>9. ASSUME NEW p \in Proc, Crash(p) PROVE FileInv'
  <2>1. ~Idle(p) /\ Step(p) /\ UNCHANGED <<path, tmp>>
    BY <1>9 DEF Crash, Step
  <2>2. FileOf(p)'
    BY <1>9 DEF Crash, FileOf
  <2>3. path # None => disk'[path] = disk[path]
    BY <1>9, NamedIsKept DEF Crash
  <2>. QED
    BY <2>1, <2>2, <2>3, FileByProcess DEF FileInv
<1>. QED
  BY <1>1, <1>2, <1>3, <1>4, <1>5, <1>6, <1>7, <1>8, <1>9 DEF Next, Step, Tick, vars, file

LEMMA AloneFileInit == Init => AloneFileInv
BY FileAssumption DEF Init, AloneFileInv, AloneInv, FileInv, FileOf, Idle

LEMMA AloneFileStep ==
  ASSUME Exclusive
  PROVE  TypeOK /\ AloneFileInv /\ [Next]_vars => AloneFileInv'
BY AloneStep, FileStep DEF AloneFileInv

(* Run one at a time, the hooks never leave a state file that is not a      *)
(* whole state, whoever is killed and whatever fails.                       *)
THEOREM PublishedAlwaysWhole ==
  ASSUME Exclusive
  PROVE  Spec => []PublishedIsWhole
<1>1. AloneFileInv => PublishedIsWhole
  BY DEF AloneFileInv, FileInv, PublishedIsWhole, Parsed
<1>. QED
  BY <1>1, AloneFileInit, AloneFileStep, TypeCorrect, PTL DEF Spec

-----------------------------------------------------------------------------
\* One hook at a time: what the state file stands for

LEMMA PublishedType == TypeOK /\ FileInv => Published \in State
BY FreshType DEF Published, FileInv, FileOf

(* Publishing is the rename: it publishes the map of the process, and every *)
(* other step leaves what the state file stands for alone.                  *)
LEMMA RenamePublishes ==
  ASSUME TypeOK, FileInv, NEW p \in Proc, RenameTemp(p)
  PROVE  Published' = mem[p]
<1>1. tmp \in Inode /\ path' = tmp /\ disk[tmp] = mem[p]
  BY DEF TypeOK, RenameTemp, FileInv, FileOf
<1>2. disk'[tmp] = disk[tmp]
  BY <1>1, FileAssumption DEF RenameTemp, Reclaimed, Held
<1>. QED
  BY <1>1, <1>2, FileAssumption DEF Published

LEMMA PublishedStays ==
  ASSUME TypeOK, FileInv, NEW p \in Proc, Invoke(p) \/ Step(p), ~RenameTemp(p)
  PROVE  path' = path /\ (path # None => disk'[path] = disk[path]) /\ Published' = Published
<1>. USE DEF TypeOK
<1>1. path' = path /\ (path # None => disk'[path] = disk[path])
  <2>1. CASE UNCHANGED file
    BY <2>1 DEF file
  <2>2. ASSUME OpenTemp(p)
        PROVE  path' = path /\ (path # None => disk'[path] = disk[path])
    BY <2>2 DEF OpenTemp, Held, FileInv, FileOf
  <2>3. ASSUME WriteTemp(p) \/ SaveFails(p)
        PROVE  path' = path /\ (path # None => disk'[path] = disk[path])
    <3>1. CASE UNCHANGED <<path, disk>>
      BY <3>1
    <3>2. CASE pc[p] = "write"
      <4>1. fd[p] = tmp /\ tmp \in Inode
        BY <3>2 DEF FileInv, FileOf
      <4>2. PICK content : disk' = Reclaimed([disk EXCEPT ![tmp] = content],
                                             Held({path, tmp}, [fd EXCEPT ![p] = None]))
        BY <2>3, <3>2, <4>1 DEF WriteTemp, SaveFails
      <4>3. path' = path
        BY <2>3 DEF WriteTemp, SaveFails
      <4>. QED
        BY <4>1, <4>2, <4>3, TempIsWritten DEF FileInv, FileOf
    <3>. QED
      BY <2>3, <3>1, <3>2 DEF WriteTemp, SaveFails
  <2>4. ASSUME RemoveTemp(p)
        PROVE  path' = path /\ (path # None => disk'[path] = disk[path])
    BY <2>4 DEF RemoveTemp, Reclaimed, Held
  <2>5. ASSUME Crash(p)
        PROVE  path' = path /\ (path # None => disk'[path] = disk[path])
    BY <2>5, NamedIsKept DEF Crash
  <2>6. ASSUME Invoke(p) \/ Load(p) \/ Gate(p) \/ Validate(p) \/ RenameFails(p)
               \/ Exit(p)
        PROVE  UNCHANGED file
    BY <2>6 DEF Invoke, Load, Gate, Validate, RenameFails, Exit
  <2>. QED
    BY <2>1, <2>2, <2>3, <2>4, <2>5, <2>6 DEF Step, file
<1>. QED
  BY <1>1 DEF Published

-----------------------------------------------------------------------------
\* One hook at a time: no command past a poison the host was told of

LEMMA LapsedAsDefined == \A d : Lapsed(d) <=> LapsedBy(d, now)
BY DEF Lapsed, LapsedBy

(* A map that remembers goes on remembering as time passes and poisonings   *)
(* are released.                                                            *)
LEMMA RemembersOn ==
  ASSUME NEW st, NEW t \in Nat, NEW u \in Nat, t <= u,
         NEW owed \in [Session -> SUBSET Poisoning], NEW left,
         \A s \in Session : left[s] \subseteq owed[s],
         Remembers(st, owed, t)
  PROVE  Remembers(st, left, u)
<1>. SUFFICES ASSUME NEW s \in Session, NEW d \in left[s]
              PROVE  \/ LapsedBy(d, u)
                     \/ Exists(st, s) /\ st[s].status = "poisoned" /\ d[2] <= st[s].last
  BY DEF Remembers
<1>1. d \in owed[s] /\ d[2] \in Nat
  BY DEF Poisoning
<1>2. LapsedBy(d, t) => LapsedBy(d, u)
  BY <1>1, SessionAssumption DEF LapsedBy
<1>. QED
  BY <1>1, <1>2 DEF Remembers

(* The cleanup at the load forgets only what has lapsed.                    *)
LEMMA CleanupRemembers ==
  ASSUME NEW st \in State, NEW t \in Nat, NEW owed \in [Session -> SUBSET Poisoning],
         Remembers(st, owed, t)
  PROVE  Remembers(Cleanup(st, t), owed, t)
<1>. SUFFICES ASSUME NEW s \in Session, NEW d \in owed[s], ~LapsedBy(d, t)
              PROVE  Cleanup(st, t)[s] = st[s]
  BY DEF Remembers, Exists
<1>1. d[2] \in Nat
  BY DEF Poisoning
<1>2. Exists(st, s) /\ d[2] <= st[s].last /\ st[s] \in Info
  BY ExistingInfo DEF Remembers
<1>3. ~IsExpired(st[s], t)
  BY <1>1, <1>2, SessionAssumption DEF IsExpired, LapsedBy, Info
<1>. QED
  BY <1>3 DEF Cleanup

(* The gate lets a session through whose poisonings have all lapsed ...     *)
LEMMA UnpoisonedOwesNothing ==
  ASSUME NEW st \in State, NEW s \in Session, NEW t \in Nat,
         NEW owed \in [Session -> SUBSET Poisoning],
         Remembers(st, owed, t), ~IsPoisoned(st, s, t)
  PROVE  \A d \in owed[s] : LapsedBy(d, t)
<1>. SUFFICES ASSUME NEW d \in owed[s], Exists(st, s), d[2] <= st[s].last, IsExpired(st[s], t)
              PROVE  LapsedBy(d, t)
  BY DEF Remembers, IsPoisoned
<1>1. d[2] \in Nat /\ st[s].last \in Nat
  BY ExistingInfo DEF Poisoning, Info
<1>. QED
  BY <1>1, SessionAssumption DEF IsExpired, LapsedBy

(* ... and what the run then does to the entry of its session forgets none  *)
(* of the other sessions'.                                                  *)
LEMMA OwnEntryOnly ==
  ASSUME NEW st, NEW new, NEW s, NEW t, NEW owed,
         Remembers(st, owed, t), \A r \in Session : r # s => new[r] = st[r],
         s \in Session => \A d \in owed[s] : LapsedBy(d, t)
  PROVE  Remembers(new, owed, t)
BY DEF Remembers, Exists

(* The other processes are idle and owe nothing.                            *)
LEMMA DebtByProcess ==
  ASSUME TypeOK, AloneInv, DebtInv, NEW p \in Proc, ~Idle(p), Step(p),
         Remembers(Published, debt, now)', DebtOf(p)'
  PROVE  DebtInv'
<1>1. ASSUME NEW q \in Proc, q # p PROVE DebtOf(q)'
  <2>1. pc[q] = "idle"
    BY <1>1 DEF AloneInv, Idle
  <2>2. pc'[q] = "idle"
    BY <1>1, <2>1, OthersUnmoved
  <2>. QED
    BY <2>2 DEF DebtOf
<1>. QED
  BY <1>1 DEF DebtInv

(* Load takes what is published, without what has lapsed.                   *)
LEMMA LoadRemembers ==
  ASSUME "read" \notin Faults, TypeOK, AloneFileInv, DebtInv, NEW p \in Proc, Load(p)
  PROVE  DebtInv'
<1>. USE DEF AloneFileInv
<1>1. ~Idle(p) /\ Step(p) /\ UNCHANGED <<now, debt, job>>
  BY DEF Load, Idle, Step, ghost
<1>2. Published' = Published
  BY DEF Load, file, Published
<1>3. Remembers(mem'[p], debt, now)
  <2>1. CASE \E st \in Parsed(path) : mem' = [mem EXCEPT ![p] = Cleanup(st, now)]
    <3>1. PICK st \in Parsed(path) : mem' = [mem EXCEPT ![p] = Cleanup(st, now)]
      BY <2>1
    <3>2. st \in State /\ st = Published
      BY <3>1 DEF Parsed, Published
    <3>. QED
      BY <3>1, <3>2, CleanupRemembers DEF DebtInv, TypeOK
  <2>2. CASE Parsed(path) = {} /\ mem' = [mem EXCEPT ![p] = Fresh]
    <3>1. Published = Fresh
      BY <2>2 DEF Parsed, Published, FileInv, FileOf
    <3>. QED
      BY <2>2, <3>1 DEF DebtInv, TypeOK
  <2>. QED
    BY <2>1, <2>2 DEF Load
<1>4. pc'[p] = "gate"
  BY DEF Load, TypeOK
<1>. QED
  BY <1>1, <1>2, <1>3, <1>4, DebtByProcess DEF DebtOf, DebtInv

(* Past the gate a session owes nothing that has not lapsed.                *)
LEMMA GateRemembers ==
  ASSUME TypeOK, AloneFileInv, DebtInv, NEW p \in Proc, Gate(p)
  PROVE  DebtInv'
<1>. USE DEF AloneFileInv
<1>. DEFINE s == job[p].session
<1>1. ~Idle(p) /\ Step(p) /\ UNCHANGED <<now, job>>
  BY DEF Gate, Idle, Step
<1>2. Published' = Published
  BY DEF Gate, file, Published
<1>3. Remembers(mem[p], debt, now) /\ mem[p] \in State /\ now \in Nat
  BY DEF Gate, DebtInv, DebtOf, TypeOK
<1>4. CASE UNCHANGED <<mem, debt>>
  <2>1. s \in Session /\ ~IsPoisoned(mem[p], s, now) => \A d \in debt[s] : LapsedBy(d, now)
    BY <1>3, UnpoisonedOwesNothing DEF TypeOK
  <2>2. DebtOf(p)'
    BY <1>1, <1>3, <1>4, <2>1 DEF DebtOf, Gate, TypeOK
  <2>. QED
    BY <1>1, <1>2, <1>4, <2>2, DebtByProcess DEF DebtInv
<1>5. CASE /\ IsPoisoned(mem[p], s, now)
           /\ mem' = [mem EXCEPT ![p] = Unpoison(mem[p], s, now)]
           /\ debt' = [debt EXCEPT ![s] = {}]
           /\ pc' = [pc EXCEPT ![p] = "validate"]
  <2>1. s \in Session /\ debt'[s] = {} /\ \A r \in Session : debt'[r] \subseteq debt[r]
    BY <1>5 DEF IsPoisoned, TypeOK
  <2>2. Remembers(mem[p], debt', now) /\ Remembers(Published, debt', now)
    BY <1>3, <2>1, RemembersOn DEF TypeOK, DebtInv
  <2>3. \A r \in Session : r # s => mem'[p][r] = mem[p][r]
    BY <1>3, <1>5, <2>1 DEF Unpoison, State, TypeOK
  <2>4. Remembers(mem'[p], debt', now)
    BY <2>1, <2>2, <2>3, OwnEntryOnly
  <2>5. DebtOf(p)'
    BY <1>1, <1>5, <2>1, <2>4 DEF DebtOf, TypeOK
  <2>. QED
    BY <1>1, <1>2, <2>2, <2>5, DebtByProcess
<1>. QED
  BY <1>4, <1>5 DEF Gate

(* What the run does to its own entry leaves the other sessions' alone.     *)
LEMMA ValidateRemembers ==
  ASSUME TypeOK, AloneFileInv, DebtInv, NEW p \in Proc, Validate(p)
  PROVE  DebtInv'
<1>. USE DEF AloneFileInv
<1>. DEFINE s == job[p].session
<1>1. ~Idle(p) /\ Step(p) /\ UNCHANGED <<now, debt, job>> /\ pc'[p] = "open"
  BY DEF Validate, Idle, Step, TypeOK
<1>2. Published' = Published
  BY DEF Validate, file, Published
<1>3. Remembers(mem[p], debt, now) /\ mem[p] \in State
  BY DEF Validate, DebtInv, DebtOf, TypeOK
<1>4. s \in Session => \A d \in debt[s] : LapsedBy(d, now)
  BY DEF Validate, DebtInv, DebtOf
<1>5. \A r \in Session : r # s => mem'[p][r] = mem[p][r]
  BY <1>3 DEF Validate, Poison, RecordCommand, State, TypeOK
<1>6. Remembers(mem'[p], debt, now)
  BY <1>3, <1>4, <1>5, OwnEntryOnly
<1>. QED
  BY <1>1, <1>2, <1>6, DebtByProcess DEF DebtOf, DebtInv

(* The host is told of a poisoning once it is published.                    *)
LEMMA ExitRemembers ==
  ASSUME TypeInv, AloneFileInv, DebtInv, NEW p \in Proc, Exit(p)
  PROVE  DebtInv'
<1>. USE DEF AloneFileInv, TypeInv
<1>. DEFINE s == job[p].session
<1>1. ~Idle(p) /\ Step(p) /\ UNCHANGED now /\ pc'[p] = "idle"
  BY DEF Exit, Idle, Step, TypeOK
<1>2. Published' = Published /\ Published = mem[p]
  BY DEF Exit, file, Published, DebtInv, DebtOf
<1>3. CASE debt' = debt
  BY <1>1, <1>2, <1>3, DebtByProcess DEF DebtOf, DebtInv
<1>4. CASE /\ answer[p] = "block" /\ s # NoSession
           /\ debt' = [debt EXCEPT ![s] = @ \cup {<<mem[p][s].codes, mem[p][s].last>>}]
  <2>1. s \in Session
    BY <1>1, <1>4, RunningJob
  <2>2. Exists(mem[p], s) /\ mem[p][s].status = "poisoned" /\ mem[p][s].last \in Nat
    BY <1>4, <2>1, ExistingInfo DEF BlockIsPoison, TypeOK, Info
  <2>3. \A r \in Session : \A d \in debt'[r] :
           d \in debt[r] \/ (r = s /\ d = <<mem[p][s].codes, mem[p][s].last>>)
    BY <1>4, <2>1 DEF TypeOK
  <2>4. \A d : d = <<mem[p][s].codes, mem[p][s].last>> => d[2] <= mem[p][s].last
    BY <2>2
  <2>5. Remembers(Published, debt', now)
    BY <1>2, <2>2, <2>3, <2>4 DEF Remembers, DebtInv
  <2>. QED
    BY <1>1, <1>2, <2>5, DebtByProcess DEF DebtOf
<1>. QED
  BY <1>3, <1>4 DEF Exit

LEMMA DebtStep ==
  ASSUME Exclusive, "read" \notin Faults, "write" \notin Faults,
         TypeInv, AloneFileInv, DebtInv, [Next]_vars
  PROVE  DebtInv'
<1>. USE DEF TypeInv, AloneFileInv
<1>1. CASE UNCHANGED <<now, path, disk, pc, job, mem, debt>>
  BY <1>1 DEF DebtInv, DebtOf, Published
<1>2. CASE Tick
  <2>1. /\ now \in Nat /\ now' = now + 1 /\ now <= now + 1
        /\ UNCHANGED <<path, disk, pc, job, mem, debt>>
    BY <1>2 DEF Tick, file, ghost, TypeOK
  <2>2. Published' = Published
    BY <2>1 DEF Published
  <2>3. ASSUME NEW st, Remembers(st, debt, now) PROVE Remembers(st, debt, now')
    BY <2>1, <2>3, RemembersOn DEF TypeOK
  <2>4. ASSUME NEW s \in Session, \A d \in debt[s] : LapsedBy(d, now)
        PROVE  \A d \in debt[s] : LapsedBy(d, now')
    <3>1. \A d \in debt[s] : d[2] \in Nat
      BY DEF TypeOK, Poisoning
    <3>. QED
      BY <2>1, <2>4, <3>1, SessionAssumption DEF LapsedBy
  <2>5. Remembers(Published, debt, now)'
    BY <2>1, <2>2, <2>3 DEF DebtInv
  <2>6. ASSUME NEW p \in Proc PROVE DebtOf(p)'
    BY <2>1, <2>2, <2>3, <2>4 DEF DebtInv, DebtOf
  <2>. QED
    BY <2>5, <2>6 DEF DebtInv
<1>3. ASSUME NEW p \in Proc, Invoke(p) PROVE DebtInv'
  <2>1. Published' = Published /\ UNCHANGED <<now, debt, mem>> /\ pc'[p] = "load"
    BY <1>3 DEF Invoke, file, Published, TypeOK
  <2>2. ASSUME NEW q \in Proc, q # p PROVE pc'[q] = "idle"
    <3>1. pc[q] = "idle"
      BY <1>3 DEF Invoke, Idle
    <3>. QED
      BY <1>3, <2>2, <3>1, OthersUnmoved
  <2>3. ASSUME NEW q \in Proc PROVE DebtOf(q)'
    BY <2>1, <2>2 DEF DebtOf
  <2>. QED
    BY <2>1, <2>3 DEF DebtInv
<1>4. ASSUME NEW p \in Proc, OpenTemp(p) \/ WriteTemp(p) \/ Crash(p) PROVE DebtInv'
  <2>1. ~Idle(p) /\ Step(p) /\ ~RenameTemp(p) /\ UNCHANGED <<now, debt>>
    BY <1>4 DEF OpenTemp, WriteTemp, RenameTemp, Crash, TypeOK, Idle, Step, ghost
  <2>2. Published' = Published
    BY <2>1, PublishedStays
  <2>3. DebtOf(p)'
    BY <1>4, <2>1 DEF OpenTemp, WriteTemp, Crash, DebtInv, DebtOf, TypeOK
  <2>. QED
    BY <2>1, <2>2, <2>3, DebtByProcess DEF DebtInv
<1>5. ASSUME NEW p \in Proc, RenameTemp(p) PROVE DebtInv'
  <2>1. ~Idle(p) /\ Step(p) /\ UNCHANGED <<now, debt, mem, job>> /\ pc'[p] = "exit" /\ pc[p] = "rename"
    BY <1>5 DEF RenameTemp, Idle, Step, ghost, TypeOK
  <2>2. Published' = mem[p]
    BY <1>5, RenamePublishes
  <2>3. Remembers(mem[p], debt, now)
    BY <2>1 DEF DebtInv, DebtOf
  <2>. QED
    BY <2>1, <2>2, <2>3, DebtByProcess DEF DebtOf
<1>6. ASSUME NEW p \in Proc, RenameFails(p) \/ RemoveTemp(p) \/ SaveFails(p) PROVE FALSE
  BY <1>6 DEF RenameFails, RemoveTemp, SaveFails, FileInv, FileOf, DebtInv, DebtOf
<1>7. CASE UNCHANGED vars
  BY <1>1, <1>7 DEF vars
<1>. QED
  BY <1>2, <1>3, <1>4, <1>5, <1>6, <1>7, LoadRemembers, GateRemembers, ValidateRemembers,
     ExitRemembers DEF Next, Step

LEMMA DebtInit == Init => DebtInv
BY DEF Init, DebtInv, DebtOf, Remembers

(* One hook at a time, with a state file that can be read and written, no   *)
(* hook that is started after the host was told of a poisoning gets past    *)
(* the gate of that session before the poisoning is released or lapses,     *)
(* whoever is killed and wherever.                                          *)
THEOREM NoCommandEverPastPoison ==
  ASSUME Exclusive, "read" \notin Faults, "write" \notin Faults
  PROVE  Spec => NoCommandPastPoison
<1>. DEFINE passes(p) == pc[p] = "gate" /\ pc'[p] = "validate" /\ job[p].session # NoSession
            lapsed(p) == \A d \in due[p] \cap debt'[job[p].session] : Lapsed(d)
<1>1. TypeInv /\ AloneFileInv /\ DebtInv /\ [Next]_vars
        => [\A p \in Proc : passes(p) => lapsed(p)]_vars
  <2>. SUFFICES ASSUME TypeInv, DebtInv, Next, NEW p \in Proc, passes(p)
                PROVE  \A d \in debt'[job[p].session] : LapsedBy(d, now)
    BY LapsedAsDefined
  <2>. USE DEF TypeInv
  <2>. DEFINE s == job[p].session
  <2>1. Gate(p)
    BY PassesInGate
  <2>2. s \in Session
    BY RunningJob DEF Idle
  <2>3. CASE debt' = [debt EXCEPT ![s] = {}]
    BY <2>2, <2>3 DEF TypeOK
  <2>4. CASE ~IsPoisoned(mem[p], s, now) /\ debt' = debt
    <3>1. Remembers(mem[p], debt, now)
      BY DEF DebtInv, DebtOf
    <3>. QED
      BY <2>2, <2>4, <3>1, UnpoisonedOwesNothing DEF TypeOK
  <2>. QED
    BY <2>1, <2>3, <2>4 DEF Gate, TypeOK
<1>2. TypeInv /\ AloneFileInv /\ DebtInv /\ [Next]_vars => TypeInv' /\ AloneFileInv' /\ DebtInv'
  BY TypeStep, AloneFileStep, DebtStep DEF TypeInv
<1>3. Init => TypeInv /\ AloneFileInv /\ DebtInv
  BY InitType, AloneFileInit, DebtInit DEF TypeInv, BlockIsPoison, Init
<1>. QED
  BY <1>1, <1>2, <1>3, PTL DEF Spec, NoCommandPastPoison

-----------------------------------------------------------------------------
\* One hook at a time: the hooks implement SessionGate

LEMMA GateOfType ==
  ASSUME NEW info \in Info \cup {Absent}
  PROVE  /\ GateOf(info) \in Promise!Closed \cup {Absent}
         /\ GateOf(info) # Absent => info \in Info /\ info.status = "poisoned"
                                       /\ GateOf(info).since = info.last
                                       /\ GateOf(info).codes = info.codes
<1>1. CASE info \in Info /\ info # Absent /\ info.status = "poisoned"
  BY <1>1 DEF GateOf, Info, Promise!Closed, Promise!Code, Code
<1>2. CASE ~(info # Absent /\ info.status = "poisoned")
  BY <1>2 DEF GateOf
<1>. QED
  BY <1>1, <1>2

(* What the state file stands for, as gates.                                *)
LEMMA GatesOfPublished ==
  ASSUME TypeOK, FileInv
  PROVE  PublishedGate = [s \in Session |-> GateOf(Published[s])]
BY FreshType DEF PublishedGate, Published, Parsed, FileInv, FileOf, GateOf, Fresh

(* The gate the session would find shut is one its entry shuts.             *)
LEMMA UnpoisonedMayPass ==
  ASSUME TypeOK, NEW p \in Proc, NEW s \in Session, Untouched(p, s),
         ~IsPoisoned(mem[p], s, now)
  PROVE  ~Promise!Bars(s)
<1>1. CASE GateOf(mem[p][s]) = PublishedGate[s]
  <2>. SUFFICES ASSUME Promise!Bars(s) PROVE FALSE
    OBVIOUS
  <2>1. GateOf(mem[p][s]) # Absent
    BY <1>1 DEF Promise!Bars
  <2>2. mem[p][s] \in Info /\ mem[p][s].status = "poisoned" /\ PublishedGate[s].since = mem[p][s].last
    BY <1>1, <2>1, GateOfType DEF TypeOK, State
  <2>3. ~IsExpired(mem[p][s], now)
    BY <2>2, SessionAssumption DEF Promise!Bars, IsExpired, Info, TypeOK
  <2>. QED
    BY <2>2, <2>3, AbsentAssumption DEF IsPoisoned, Exists
<1>. QED
  BY <1>1 DEF Untouched

(* A step that publishes nothing leaves the gates alone.                    *)
LEMMA GatesStay ==
  ASSUME path' = path, path # None => disk'[path] = disk[path]
  PROVE  PublishedGate' = PublishedGate
BY DEF PublishedGate, Parsed, GateOf

LEMMA GatesStayUnlessRenamed ==
  ASSUME TypeOK, FileInv, NEW p \in Proc, Invoke(p) \/ Step(p), ~RenameTemp(p)
  PROVE  PublishedGate' = PublishedGate
BY PublishedStays, GatesStay

(* The gates have their type.                                               *)
LEMMA GatesType ==
  ASSUME TypeOK, FileInv, NEW s \in Session
  PROVE  PublishedGate[s] \in Promise!Closed \cup {Absent}
<1>1. Published[s] \in Info \cup {Absent}
  BY PublishedType DEF State
<1>. QED
  BY <1>1, GatesOfPublished, GateOfType

(* What a process may publish it may still publish later, of the same       *)
(* gates: time only makes a gate lapse.                                     *)
LEMMA SettledOn ==
  ASSUME TypeOK, FileInv, PublishedGate' = PublishedGate, now' = now \/ now' = now + 1,
         NEW p \in Proc, mem'[p] = mem[p], job'[p] = job[p]
  PROVE  /\ \A s \in Session : Promise!Bars(s)' => Promise!Bars(s)
         /\ \A s \in Session : Untouched(p, s) => Untouched(p, s)'
         /\ MayPass(p) => MayPass(p)'
<1>1. ASSUME NEW s \in Session, Promise!Bars(s)' PROVE Promise!Bars(s)
  <2>1. PublishedGate[s] # Absent /\ PublishedGate[s].since \in Nat /\ now \in Nat
    BY <1>1, GatesType DEF Promise!Bars, Promise!Closed, TypeOK
  <2>. QED
    BY <1>1, <2>1, SessionAssumption DEF Promise!Bars
<1>2. ASSUME NEW s \in Session, Untouched(p, s) PROVE Untouched(p, s)'
  BY <1>1, <1>2 DEF Untouched, GateOf
<1>3. ASSUME MayPass(p) PROVE MayPass(p)'
  BY <1>1, <1>3 DEF MayPass
<1>. QED
  BY <1>1, <1>2, <1>3

(* The load changes no gate, but that it forgets those that lapsed.         *)
LEMMA LoadSettles ==
  ASSUME "read" \notin Faults, TypeOK, FileInv, NEW p \in Proc, Load(p)
  PROVE  SettleOf(p)'
<1>1. PublishedGate' = PublishedGate /\ now' = now
  BY GatesStay DEF Load, file
<1>2. pc'[p] = "gate"
  BY DEF Load, TypeOK
<1>3. ASSUME NEW s \in Session PROVE Untouched(p, s)'
  <2>1. PublishedGate[s] = GateOf(Published[s]) /\ Published[s] \in Info \cup {Absent}
    BY PublishedType, GatesOfPublished DEF State
  <2>2. mem'[p][s] = Published[s]
          \/ (Exists(Published, s) /\ IsExpired(Published[s], now) /\ mem'[p][s] = Absent)
    <3>1. CASE \E st \in Parsed(path) : mem' = [mem EXCEPT ![p] = Cleanup(st, now)]
      <4>1. PICK st \in Parsed(path) : mem' = [mem EXCEPT ![p] = Cleanup(st, now)]
        BY <3>1
      <4>2. st \in State /\ st = Published
        BY <4>1 DEF Parsed, Published
      <4>. QED
        BY <4>1, <4>2 DEF Cleanup, TypeOK
    <3>2. CASE Parsed(path) = {} /\ mem' = [mem EXCEPT ![p] = Fresh]
      BY <3>2 DEF Parsed, Published, FileInv, FileOf, TypeOK
    <3>. QED
      BY <3>1, <3>2 DEF Load
  <2>3. CASE mem'[p][s] = Published[s]
    BY <1>1, <2>1, <2>3 DEF Untouched, GateOf
  <2>4. CASE Exists(Published, s) /\ IsExpired(Published[s], now) /\ mem'[p][s] = Absent
    <3>1. ~Promise!Bars(s)
      <4>1. CASE GateOf(Published[s]) = Absent
        BY <2>1, <4>1 DEF Promise!Bars
      <4>2. CASE GateOf(Published[s]) # Absent
        BY <2>1, <2>4, <4>2, GateOfType, SessionAssumption
           DEF Promise!Bars, IsExpired, Info, TypeOK
      <4>. QED
        BY <4>1, <4>2
    <3>2. ~Promise!Bars(s)'
      BY <1>1, <3>1 DEF Promise!Bars
    <3>. QED
      BY <2>4, <3>2 DEF Untouched, GateOf
  <2>. QED
    BY <2>2, <2>3, <2>4
<1>. QED
  BY <1>2, <1>3 DEF SettleOf

(* A command that the gate releases the session for is one that may pass.   *)
LEMMA ReleasedMayPass ==
  ASSUME TypeOK, NEW p \in Proc, NEW s \in Session, s = job[p].session, ~Idle(p),
         Untouched(p, s), IsPoisoned(mem[p], s, now),
         Releases(job[p].command, mem[p][s].codes)
  PROVE  MayPass(p)
<1>. DEFINE c == job[p].command
            codes == mem[p][s].codes
<1>1. mem[p][s] \in Info /\ codes \in SUBSET Code
  BY ExistingInfo DEF IsPoisoned, TypeOK, Info
<1>2. c \in CommandType
  <2>1. job[p] \in Request
    BY DEF TypeOK
  <2>. QED
    BY <2>1, CommandAssumption DEF Request
<1>3. Promise!Opens(c, codes)
  <2>1. CASE codes = {}
    BY <2>1 DEF Releases, Acknowledgment, Promise!Opens
  <2>2. CASE codes # {}
    <3>1. IsKey(c, codes)
      BY <1>1, <1>2, <2>2, ReleaseNeedsKey
    <3>. QED
      BY <2>2, <3>1 DEF Promise!Opens, Promise!IsKey, IsKey, Promise!NamesAll, NamesAll,
            Promise!ToSet, ToSet
  <2>. QED
    BY <2>1, <2>2
<1>4. GateOf(mem[p][s]).codes = codes
  BY <1>1 DEF GateOf, IsPoisoned, Exists
<1>. QED
  BY <1>3, <1>4 DEF MayPass, Untouched

(* The gate lets those through that may pass, and changes no other gate.    *)
LEMMA GateSettles ==
  ASSUME TypeOK, FileInv, NEW p \in Proc, SettleOf(p), Gate(p)
  PROVE  SettleOf(p)'
<1>. DEFINE s == job[p].session
<1>1. PublishedGate' = PublishedGate /\ UNCHANGED <<now, job>>
  BY GatesStay DEF Gate, file
<1>2. \A r \in Session : Untouched(p, r)
  BY DEF Gate, SettleOf
<1>3. ~Idle(p) /\ s \in Session \cup {NoSession}
  BY RunningJob DEF Gate, Idle
<1>4. CASE UNCHANGED mem
  <2>1. mem'[p] = mem[p] /\ job'[p] = job[p]
    BY <1>1, <1>4
  <2>2. \A r \in Session : Untouched(p, r)'
    BY <1>1, <1>2, <2>1, SettledOn
  <2>3. CASE pc'[p] = "validate"
    <3>1. s \in Session => ~IsPoisoned(mem[p], s, now)
            \/ (IsPoisoned(mem[p], s, now) /\ Releases(job[p].command, mem[p][s].codes))
      BY <2>3 DEF Gate, TypeOK
    <3>2. MayPass(p)
      <4>1. CASE s \notin Session
        BY <4>1 DEF MayPass
      <4>2. CASE s \in Session /\ ~IsPoisoned(mem[p], s, now)
        BY <1>2, <4>2, UnpoisonedMayPass DEF MayPass
      <4>3. CASE s \in Session /\ IsPoisoned(mem[p], s, now)
        BY <1>2, <1>3, <3>1, <4>3, ReleasedMayPass
      <4>. QED
        BY <4>1, <4>2, <4>3
    <3>3. MayPass(p)'
      BY <1>1, <2>1, <3>2, SettledOn
    <3>. QED
      BY <2>2, <2>3, <3>3 DEF SettleOf
  <2>4. CASE pc'[p] = "open"
    BY <2>2, <2>4 DEF SettleOf
  <2>. QED
    BY <2>3, <2>4 DEF Gate, TypeOK
<1>5. CASE /\ IsPoisoned(mem[p], s, now) /\ Releases(job[p].command, mem[p][s].codes)
           /\ mem' = [mem EXCEPT ![p] = Unpoison(mem[p], s, now)]
           /\ pc' = [pc EXCEPT ![p] = "validate"]
  <2>1. s \in Session /\ pc'[p] = "validate" /\ mem[p] \in State
    BY <1>5 DEF IsPoisoned, TypeOK
  <2>2. MayPass(p)
    BY <1>2, <1>3, <1>5, <2>1, ReleasedMayPass
  <2>3. MayPass(p)'
    BY <1>1, <2>2 DEF MayPass, Promise!Bars
  <2>4. mem'[p][s].status = "clean" /\ \A r \in Session : r # s => mem'[p][r] = mem[p][r]
    <3>1. mem'[p] = Unpoison(mem[p], s, now) /\ Exists(mem[p], s)
      BY <1>5 DEF TypeOK, IsPoisoned
    <3>. QED
      BY <2>1, <3>1 DEF Unpoison, State
  <2>5. GateOf(mem[p][s])' = Absent
    BY <1>1, <2>4 DEF GateOf
  <2>6. ASSUME NEW r \in Session, r # s PROVE Untouched(p, r)'
    BY <1>1, <1>2, <2>4, <2>6 DEF Untouched, GateOf, Promise!Bars
  <2>. QED
    BY <1>1, <2>1, <2>3, <2>5, <2>6 DEF SettleOf, GateOf
<1>. QED
  BY <1>4, <1>5 DEF Gate

(* Past the gate a run changes the gate of its own session only.            *)
LEMMA ValidateSettles ==
  ASSUME TypeOK, FileInv, NEW p \in Proc, SettleOf(p), Validate(p)
  PROVE  SettleOf(p)'
<1>. DEFINE s == job[p].session
<1>1. PublishedGate' = PublishedGate /\ UNCHANGED <<now, job>> /\ pc'[p] = "open"
  BY GatesStay DEF Validate, file, TypeOK
<1>2. MayPass(p) /\ MayPass(p)'
  BY <1>1 DEF Validate, SettleOf, MayPass, Promise!Bars
<1>3. s \in Session /\ GateOf(mem'[p][s]) # Absent => GateOf(mem'[p][s]).since = now
  <2>1. CASE s \notin Session
    BY <2>1
  <2>2. CASE s \in Session
    <3>1. mem'[p][s].last = now
      BY <2>2, SessionAssumption DEF Validate, Poison, RecordCommand, State, TypeOK
    <3>. QED
      BY <3>1 DEF GateOf
  <2>. QED
    BY <2>1, <2>2
<1>4. \A r \in Session : r # s => mem'[p][r] = mem[p][r]
  BY DEF Validate, Poison, RecordCommand, State, TypeOK
<1>5. ASSUME NEW r \in Session, r # s PROVE Untouched(p, r)'
  <2>1. Untouched(p, r)
    BY <1>5 DEF Validate, SettleOf
  <2>. QED
    BY <1>1, <1>4, <1>5, <2>1 DEF Untouched, GateOf, Promise!Bars
<1>6. (s \in Session /\ GateOf(mem[p][s]) # Absent => GateOf(mem[p][s]).since <= now)'
  BY <1>1, <1>3 DEF GateOf, TypeOK
<1>. QED
  BY <1>1, <1>2, <1>5, <1>6 DEF SettleOf

LEMMA SettleStep ==
  ASSUME Exclusive, "read" \notin Faults, TypeOK, AloneFileInv, SettleInv, [Next]_vars
  PROVE  SettleInv'
<1>. USE DEF AloneFileInv
<1>1. ASSUME NEW p \in Proc, PublishedGate' = PublishedGate, now' = now \/ now' = now + 1,
             mem'[p] = mem[p], job'[p] = job[p],
             \/ pc'[p] = pc[p]
             \/ pc[p] \in {"validate", "open", "write"} /\ pc'[p] \in {"open", "write", "rename"}
      PROVE  SettleOf(p)'
  <2>1. now \in Nat
    BY DEF TypeOK
  <2>2. ASSUME NEW s \in Session, GateOf(mem[p][s]) # Absent => GateOf(mem[p][s]).since <= now
        PROVE  (GateOf(mem[p][s]) # Absent => GateOf(mem[p][s]).since <= now)'
    <3>1. mem[p][s] \in Info \cup {Absent}
      BY DEF TypeOK, State
    <3>2. GateOf(mem[p][s]) # Absent => GateOf(mem[p][s]).since \in Nat
      BY <3>1, GateOfType DEF Info
    <3>. QED
      BY <1>1, <2>1, <2>2, <3>2 DEF GateOf
  <2>3. SettleOf(p)
    BY DEF SettleInv
  <2>4. /\ \A s \in Session : Untouched(p, s) => Untouched(p, s)'
        /\ MayPass(p) => MayPass(p)'
    BY <1>1, SettledOn
  <2>. QED
    BY <1>1, <2>2, <2>3, <2>4 DEF SettleOf
<1>2. CASE UNCHANGED vars \/ Tick
  <2>1. PublishedGate' = PublishedGate
    BY <1>2, GatesStay DEF vars, Tick, file
  <2>. QED
    BY <1>1, <1>2, <2>1 DEF vars, Tick, SettleInv
<1>3. ASSUME NEW p \in Proc, Invoke(p) \/ Step(p) PROVE SettleInv'
  <2>1. ASSUME NEW q \in Proc, q # p PROVE SettleOf(q)'
    <3>1. pc[q] = "idle"
      BY <1>3, <2>1 DEF AloneInv, Idle, Invoke, Step, Load, Gate, Validate, OpenTemp, WriteTemp,
             RenameTemp, RenameFails, RemoveTemp, SaveFails, Exit, Crash
    <3>2. pc'[q] = "idle"
      BY <1>3, <2>1, <3>1, OthersUnmoved
    <3>. QED
      BY <3>2 DEF SettleOf
  <2>2. SettleOf(p)'
    <3>1. CASE Load(p)
      BY <3>1, LoadSettles
    <3>2. CASE Gate(p)
      BY <3>2, GateSettles DEF SettleInv
    <3>3. CASE Validate(p)
      BY <3>3, ValidateSettles DEF SettleInv
    <3>4. CASE OpenTemp(p) \/ WriteTemp(p)
      <4>1. ~RenameTemp(p)
        BY <3>4 DEF OpenTemp, WriteTemp, RenameTemp
      <4>2. PublishedGate' = PublishedGate
        BY <1>3, <4>1, GatesStayUnlessRenamed
      <4>. QED
        BY <1>1, <3>4, <4>2 DEF OpenTemp, WriteTemp, TypeOK
    <3>5. CASE Invoke(p) \/ RenameTemp(p) \/ RenameFails(p) \/ RemoveTemp(p) \/ SaveFails(p)
               \/ Exit(p) \/ Crash(p)
      <4>1. pc'[p] \in {"load", "remove", "exit", "idle"}
        BY <3>5 DEF Invoke, RenameTemp, RenameFails, RemoveTemp, SaveFails, Exit, Crash, TypeOK
      <4>. QED
        BY <4>1 DEF SettleOf
    <3>. QED
      BY <1>3, <3>1, <3>2, <3>3, <3>4, <3>5 DEF Step
  <2>. QED
    BY <2>1, <2>2 DEF SettleInv
<1>. QED
  BY <1>2, <1>3 DEF Next

LEMMA SettleInit == Init => SettleInv
BY DEF Init, SettleInv, SettleOf

(* The rename is the step in which a request takes effect.                  *)
LEMMA RenameSettles ==
  ASSUME TypeOK, AloneFileInv, SettleInv, NEW p \in Proc, RenameTemp(p)
  PROVE  Promise!Settle(p)
<1>. USE DEF AloneFileInv
<1>1. UNCHANGED <<now, job>> /\ pc[p] = "rename" /\ job[p] # NoRequest
  <2>1. UNCHANGED <<now, job>> /\ pc[p] = "rename"
    BY DEF RenameTemp
  <2>2. job[p] \in Request
    BY <2>1 DEF TypeOK, Idle
  <2>. QED
    BY <2>1, <2>2, RequestAssumption
<1>2. \A s \in Session : PublishedGate'[s] = GateOf(mem[p][s])
  <2>1. path' # None /\ disk'[path'] = mem[p] /\ mem[p] \in State
    <3>1. tmp \in Inode /\ tmp # None /\ path' = tmp /\ disk[tmp] = mem[p]
      BY DEF RenameTemp, FileInv, FileOf, TypeOK
    <3>2. disk'[tmp] = disk[tmp]
      BY <3>1 DEF RenameTemp, Reclaimed, Held
    <3>. QED
      BY <3>1, <3>2 DEF TypeOK
  <2>. QED
    BY <2>1 DEF PublishedGate, Parsed, GateOf
<1>3. PublishedGate' = [s \in Session |-> PublishedGate'[s]]
  BY DEF PublishedGate
<1>4. ASSUME NEW s \in Session PROVE Promise!Untouched(s) \/ Promise!PassedBy(p, s)
  <2>1. \/ Untouched(p, s)
        \/ /\ s = job[p].session /\ MayPass(p)
           /\ GateOf(mem[p][s]) # Absent => GateOf(mem[p][s]).since <= now
    BY <1>1 DEF SettleInv, SettleOf
  <2>2. GateOf(mem[p][s]) \in Promise!Closed \cup {Absent}
    <3>1. mem[p][s] \in Info \cup {Absent}
      BY DEF TypeOK, State
    <3>. QED
      BY <3>1, GateOfType
  <2>. QED
    BY <1>2, <2>1, <2>2 DEF Untouched, MayPass, Promise!Untouched, Promise!PassedBy
<1>. QED
  BY <1>1, <1>3, <1>4 DEF Promise!Settle

(* Every step of a hook asks, settles, finishes, or is nothing the promise  *)
(* speaks of.                                                               *)
LEMMA HookRefines ==
  ASSUME Exclusive, "read" \notin Faults, TypeOK, AloneFileInv, SettleInv, [Next]_vars
  PROVE  [Promise!Next]_(Promise!gvars)
<1>. USE DEF AloneFileInv
<1>1. CASE UNCHANGED vars
  BY <1>1, GatesStay DEF vars, Promise!gvars
<1>2. CASE Tick
  BY <1>2, GatesStay DEF Tick, file, Promise!Next, Promise!Tick
<1>3. ASSUME NEW p \in Proc, RenameTemp(p) PROVE Promise!Next
  BY <1>3, RenameSettles DEF Promise!Next
<1>4. ASSUME NEW p \in Proc, Invoke(p) \/ Step(p), ~RenameTemp(p)
      PROVE  [Promise!Next]_(Promise!gvars)
  <2>1. PublishedGate' = PublishedGate
    BY <1>4, GatesStayUnlessRenamed
  <2>2. CASE Invoke(p)
    <3>1. job[p] = NoRequest /\ now' = now
      BY <2>2 DEF Invoke, AloneInv
    <3>2. \E r \in Request : job' = [job EXCEPT ![p] = r]
      BY <2>2 DEF Invoke
    <3>3. Promise!Ask(p)
      BY <2>1, <3>1, <3>2 DEF Promise!Ask
    <3>. QED
      BY <3>3 DEF Promise!Next
  <2>3. CASE Exit(p) \/ Crash(p)
    <3>1. ~Idle(p) /\ now' = now /\ job' = [job EXCEPT ![p] = NoRequest]
      BY <2>3 DEF Exit, Crash, Idle
    <3>2. job[p] # NoRequest
      BY <3>1, RequestAssumption DEF TypeOK
    <3>3. Promise!Finish(p)
      BY <2>1, <3>1, <3>2 DEF Promise!Finish
    <3>. QED
      BY <3>3 DEF Promise!Next
  <2>4. CASE Load(p) \/ Gate(p) \/ Validate(p) \/ OpenTemp(p) \/ WriteTemp(p)
             \/ RenameFails(p) \/ RemoveTemp(p) \/ SaveFails(p)
    <3>1. UNCHANGED <<now, job>>
      BY <2>4 DEF Load, Gate, Validate, OpenTemp, WriteTemp, RenameFails, RemoveTemp, SaveFails
    <3>. QED
      BY <2>1, <3>1 DEF Promise!gvars
  <2>. QED
    BY <1>4, <2>2, <2>3, <2>4 DEF Step
<1>. QED
  BY <1>1, <1>2, <1>3, <1>4 DEF Next, Step

(* Run one at a time and with a state file that can be read, the hooks      *)
(* implement the gate: a blocked command closes the gate of its session,    *)
(* only a key or age opens it, and neither a crash nor a failed save opens  *)
(* a gate or closes one.                                                    *)
THEOREM HooksKeepGate ==
  ASSUME Exclusive, "read" \notin Faults
  PROVE  Spec => KeepsGate
<1>1. Init => Promise!Init
  BY DEF Init, Promise!Init, PublishedGate, Parsed
<1>2. Init => AloneFileInv /\ SettleInv
  BY AloneFileInit, SettleInit
<1>3. TypeOK /\ AloneFileInv /\ SettleInv /\ [Next]_vars => AloneFileInv' /\ SettleInv'
  BY AloneFileStep, SettleStep
<1>4. TypeOK /\ AloneFileInv /\ SettleInv /\ [Next]_vars => [Promise!Next]_(Promise!gvars)
  BY HookRefines
<1>. QED
  BY <1>1, <1>2, <1>3, <1>4, TypeCorrect, PTL DEF Spec, KeepsGate, Promise!Spec

=============================================================================
