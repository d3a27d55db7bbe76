---------------------------- MODULE HookRunProofs ----------------------------
(***************************************************************************)
(* Proofs about HookRun, for any number of processes, sessions, codes,     *)
(* commands, reports and files and for every mode and set of faults.       *)
(*                                                                         *)
(* Type correctness comes first, then the origin of every poison, which    *)
(* holds however the processes interleave and whatever fails, and then     *)
(* what holds when the host runs one hook at a time.                       *)
(***************************************************************************)
EXTENDS HookRun, TLAPS

USE DEF Request, Poisoning

-----------------------------------------------------------------------------
\* The operations on the session map

LEMMA FreshType == Fresh \in State
BY DEF Fresh, State

LEMMA ExistingInfo ==
    ASSUME NEW st \in State, NEW s \in Session, Exists(st, s)
    PROVE  st[s] \in Info
BY DEF State, Exists

LEMMA CleanupType ==
    ASSUME NEW st \in State, NEW t \in Nat
    PROVE  Cleanup(st, t) \in State
BY DEF Cleanup, State

LEMMA PoisonType ==
    ASSUME NEW st \in State, NEW s \in Session, NEW t \in Nat, NEW codes \in SUBSET Code
    PROVE  Poison(st, s, codes, t) \in State
<1> DEFINE info == [status |-> "poisoned", codes |-> codes,
                    count |-> IF Exists(st, s) THEN st[s].count ELSE 0, last |-> t]
<1>1. info \in Info
  BY ExistingInfo DEF Info
<1> QED
  BY <1>1 DEF Poison, State

LEMMA PoisonedEntry ==
    ASSUME NEW st \in State, NEW s \in Session, NEW t \in Nat, NEW codes \in SUBSET Code
    PROVE  /\ Exists(Poison(st, s, codes, t), s)
           /\ Poison(st, s, codes, t)[s].status = "poisoned"
           /\ PoisonIn(Poison(st, s, codes, t)[s]) = <<codes, t>>
<1> DEFINE info == [status |-> "poisoned", codes |-> codes,
                    count |-> IF Exists(st, s) THEN st[s].count ELSE 0, last |-> t]
<1>1. Poison(st, s, codes, t)[s] = info
  BY DEF Poison, State
<1>2. info # Absent
  BY ExistingInfo, AbsentAssumption DEF Info
<1> QED
  BY <1>1, <1>2 DEF Exists, PoisonIn

LEMMA UnpoisonType ==
    ASSUME NEW st \in State, NEW s \in Session, NEW t \in Nat
    PROVE  Unpoison(st, s, t) \in State
<1>1. CASE ~Exists(st, s)
  BY <1>1 DEF Unpoison
<1>2. CASE Exists(st, s)
  <2> DEFINE info == [status |-> "clean", codes |-> {}, count |-> st[s].count, last |-> t]
  <2>1. info \in Info
    BY <1>2, ExistingInfo DEF Info
  <2> QED
    BY <1>2, <2>1 DEF Unpoison, State
<1> QED
  BY <1>1, <1>2

LEMMA RecordCommandType ==
    ASSUME NEW st \in State, NEW s \in Session, NEW t \in Nat
    PROVE  RecordCommand(st, s, t) \in State
<1> DEFINE kept == Exists(st, s) /\ ~IsExpired(st[s], t)
           info == [status |-> IF kept THEN st[s].status ELSE "clean",
                    codes  |-> IF kept THEN st[s].codes ELSE {},
                    count  |-> IF kept THEN st[s].count + 1 ELSE 1,
                    last   |-> t]
<1>1. info \in Info
  <2>1. CASE kept
    BY <2>1, ExistingInfo DEF Info
  <2>2. CASE ~kept
    BY <2>2 DEF Info
  <2> QED
    BY <2>1, <2>2
<1> QED
  BY <1>1 DEF RecordCommand, State

LEMMA PoisonCodesType ==
    ASSUME NEW reports \in SUBSET Report
    PROVE  PoisonCodes(reports) \in SUBSET Code
BY ReportAssumption DEF PoisonCodes

-----------------------------------------------------------------------------
\* The file system

Content == State \cup {Empty, Corrupt}

LEMMA ParsedIsState ==
    ASSUME NEW i, NEW st \in Parsed(i)
    PROVE  st \in State /\ st = disk[i]
BY DEF Parsed

LEMMA ReclaimedType ==
    ASSUME NEW content \in [Inode -> Content], NEW held
    PROVE  Reclaimed(content, held) \in [Inode -> Content]
BY DEF Reclaimed, Content

-----------------------------------------------------------------------------
\* Type correctness

(* The host learns of a poisoning that is in the memory of the process: no  *)
(* step between the validators and the exit takes it back.                  *)
BlockIsPoison ==
    \A p \in Proc :
        /\ pc[p] \in {"idle", "load", "gate", "validate"} => answer[p] = "none"
        /\ answer[p] = "block" /\ job[p].session \in Session =>
             /\ Exists(mem[p], job[p].session)
             /\ mem[p][job[p].session].status = "poisoned"

TypeInv == TypeOK /\ BlockIsPoison

LEMMA InitType == Init => TypeOK
BY FreshType DEF Init, TypeOK, Idle

LEMMA InvokeType ==
    ASSUME TypeOK, NEW p \in Proc, Invoke(p)
    PROVE  TypeOK'
<1>1. PICK r \in Request :
         /\ job' = [job EXCEPT ![p] = r]
         /\ due' = [due EXCEPT ![p] = IF r.session = NoSession THEN {} ELSE debt[r.session]]
  BY DEF Invoke
<1>2. (IF r.session = NoSession THEN {} ELSE debt[r.session]) \in SUBSET Poisoning
  BY DEF TypeOK
<1> QED
  BY <1>1, <1>2 DEF Invoke, TypeOK, Idle, file

LEMMA LoadType ==
    ASSUME TypeOK, NEW p \in Proc, Load(p)
    PROVE  TypeOK'
<1>1. \E m \in State : mem' = [mem EXCEPT ![p] = m]
  <2>1. CASE \E st \in Parsed(path) : mem' = [mem EXCEPT ![p] = Cleanup(st, now)]
    BY <2>1, ParsedIsState, CleanupType DEF TypeOK
  <2>2. CASE mem' = [mem EXCEPT ![p] = Fresh]
    BY <2>2, FreshType
  <2> QED
    BY <2>1, <2>2 DEF Load
<1> QED
  BY <1>1 DEF Load, TypeOK, Idle, file, ghost

\* What a process knows of its request past the start.
LEMMA RunningJob ==
    ASSUME TypeOK, NEW p \in Proc, ~Idle(p)
    PROVE  job[p].session \in Session \cup {NoSession}
BY DEF TypeOK

LEMMA GateType ==
    ASSUME TypeOK, NEW p \in Proc, Gate(p)
    PROVE  TypeOK'
<1> DEFINE s == job[p].session
<1>1. IsPoisoned(mem[p], s, now) =>
        /\ s \in Session
        /\ Unpoison(mem[p], s, now) \in State
  BY UnpoisonType DEF IsPoisoned, TypeOK
<1>2. mem' \in [Proc -> State] /\ debt' \in [Session -> SUBSET Poisoning]
  BY <1>1 DEF Gate, TypeOK
<1> QED
  BY <1>2 DEF Gate, TypeOK, Idle, file

LEMMA ValidateType ==
    ASSUME TypeOK, NEW p \in Proc, Validate(p)
    PROVE  TypeOK'
<1> DEFINE s == job[p].session
<1>1. PICK reports \in SUBSET Report :
         /\ answer' = [answer EXCEPT ![p] =
                          IF ShouldBlock(reports) THEN "block" ELSE "allow"]
         /\ \/ /\ s = NoSession
               /\ UNCHANGED <<mem, earned>>
            \/ /\ s # NoSession /\ ShouldBlock(reports)
               /\ mem' = [mem EXCEPT ![p] = Poison(mem[p], s, PoisonCodes(reports), now)]
               /\ earned' = [earned EXCEPT ![s] = @ \cup {<<PoisonCodes(reports), now>>}]
            \/ /\ s # NoSession /\ ~ShouldBlock(reports)
               /\ mem' = [mem EXCEPT ![p] = RecordCommand(mem[p], s, now)]
               /\ UNCHANGED earned
  BY DEF Validate
<1>2. s \in Session \cup {NoSession}
  BY RunningJob DEF Validate, Idle
<1>3. PoisonCodes(reports) \in SUBSET Code
  BY PoisonCodesType
<1>4. s \in Session =>
        /\ Poison(mem[p], s, PoisonCodes(reports), now) \in State
        /\ RecordCommand(mem[p], s, now) \in State
  BY <1>3, PoisonType, RecordCommandType DEF TypeOK
<1>5. mem' \in [Proc -> State] /\ earned' \in [Session -> SUBSET Poisoning]
  BY <1>1, <1>2, <1>3, <1>4 DEF TypeOK
<1>6. answer' \in [Proc -> {"none", "allow", "block", "refuse"}]
  BY <1>1 DEF TypeOK
<1> QED
  BY <1>5, <1>6 DEF Validate, TypeOK, Idle, file

LEMMA OpenTempType ==
    ASSUME TypeOK, NEW p \in Proc, OpenTemp(p)
    PROVE  TypeOK'
BY DEF OpenTemp, TypeOK, Idle, ghost

LEMMA WriteTempType ==
    ASSUME TypeOK, NEW p \in Proc, WriteTemp(p)
    PROVE  TypeOK'
<1>1. PICK content \in {mem[p]} \cup (IF disk[fd[p]] = Empty THEN {} ELSE {Corrupt}) :
         disk' = Reclaimed([disk EXCEPT ![fd[p]] = content],
                           Held({path, tmp}, [fd EXCEPT ![p] = None]))
  BY DEF WriteTemp
<1>2. content \in Content
  BY DEF TypeOK, Content
<1>3. disk' \in [Inode -> Content]
  BY <1>1, <1>2, ReclaimedType DEF TypeOK, Content
<1> QED
  BY <1>3 DEF WriteTemp, TypeOK, Idle, ghost, Content

LEMMA RenameTempType ==
    ASSUME TypeOK, NEW p \in Proc, RenameTemp(p)
    PROVE  TypeOK'
<1>1. disk' \in [Inode -> Content]
  BY ReclaimedType DEF RenameTemp, TypeOK, Content
<1> QED
  BY <1>1 DEF RenameTemp, TypeOK, Idle, ghost, Content

LEMMA RenameFailsType ==
    ASSUME TypeOK, NEW p \in Proc, RenameFails(p)
    PROVE  TypeOK'
BY DEF RenameFails, TypeOK, Idle, file, ghost

LEMMA RemoveTempType ==
    ASSUME TypeOK, NEW p \in Proc, RemoveTemp(p)
    PROVE  TypeOK'
<1>1. disk' \in [Inode -> Content]
  BY ReclaimedType DEF RemoveTemp, TypeOK, Content
<1> QED
  BY <1>1 DEF RemoveTemp, TypeOK, Idle, ghost, Content

LEMMA SaveFailsType ==
    ASSUME TypeOK, NEW p \in Proc, SaveFails(p)
    PROVE  TypeOK'
<1>1. disk' \in [Inode -> Content]
  <2>1. CASE UNCHANGED disk
    BY <2>1 DEF TypeOK, Content
  <2>2. CASE \E content \in {Empty, Corrupt} :
               disk' = Reclaimed([disk EXCEPT ![fd[p]] = content],
                                 Held({path, tmp}, [fd EXCEPT ![p] = None]))
    <3>1. PICK content \in {Empty, Corrupt} :
             disk' = Reclaimed([disk EXCEPT ![fd[p]] = content],
                               Held({path, tmp}, [fd EXCEPT ![p] = None]))
      BY <2>2
    <3>2. [disk EXCEPT ![fd[p]] = content] \in [Inode -> Content]
      BY DEF TypeOK, Content
    <3> QED
      BY <3>1, <3>2, ReclaimedType
  <2> QED
    BY <2>1, <2>2 DEF SaveFails
<1>2. /\ fd' = [fd EXCEPT ![p] = None]
      /\ pc' = [pc EXCEPT ![p] = "exit"]
      /\ UNCHANGED <<now, path, tmp, job, mem, answer, runs, earned, debt, due>>
      /\ ~Idle(p)
  BY DEF SaveFails, ghost, Idle
<1> QED
  BY <1>1, <1>2 DEF TypeOK, Idle, Content

LEMMA ExitType ==
    ASSUME TypeOK, BlockIsPoison, NEW p \in Proc, Exit(p)
    PROVE  TypeOK'
<1> DEFINE s == job[p].session
<1>1. s \in Session \cup {NoSession}
  BY RunningJob DEF Exit, Idle
<1>2. debt' \in [Session -> SUBSET Poisoning]
  <2>1. CASE answer[p] = "block" /\ s # NoSession
    <3>1. /\ debt' = [debt EXCEPT ![s] = @ \cup {<<mem[p][s].codes, mem[p][s].last>>}]
      BY <2>1 DEF Exit
    <3>2. s \in Session
      BY <1>1, <2>1
    <3>3. mem[p][s] \in Info
      BY <2>1, <3>2, ExistingInfo DEF BlockIsPoison, TypeOK, Exit, Idle
    <3>4. <<mem[p][s].codes, mem[p][s].last>> \in Poisoning
      BY <3>3 DEF Info
    <3> QED
      BY <3>1, <3>2, <3>4 DEF TypeOK
  <2>2. CASE ~(answer[p] = "block" /\ s # NoSession)
    BY <2>2 DEF Exit, TypeOK
  <2> QED
    BY <2>1, <2>2
<1> QED
  BY <1>2, FreshType DEF Exit, TypeOK, Idle, file

LEMMA CrashType ==
    ASSUME TypeOK, NEW p \in Proc, Crash(p)
    PROVE  TypeOK'
<1>1. disk' \in [Inode -> Content]
  BY ReclaimedType DEF Crash, TypeOK, Content
<1> QED
  BY <1>1, FreshType DEF Crash, TypeOK, Idle, Content

LEMMA BlockStep ==
    ASSUME TypeInv, TypeOK', [Next]_vars
    PROVE  BlockIsPoison'
<1> SUFFICES ASSUME NEW q \in Proc
             PROVE  /\ pc'[q] \in {"idle", "load", "gate", "validate"} => answer'[q] = "none"
                    /\ answer'[q] = "block" /\ job'[q].session \in Session =>
                         /\ Exists(mem'[q], job'[q].session)
                         /\ mem'[q][job'[q].session].status = "poisoned"
  BY DEF BlockIsPoison, Exists
<1> USE DEF TypeInv, TypeOK, BlockIsPoison, Idle
<1>1. CASE UNCHANGED <<pc, answer, job, mem>>
  BY <1>1 DEF Exists
<1>2. ASSUME NEW p \in Proc, p # q, Invoke(p) \/ Step(p)
      PROVE  pc'[q] = pc[q] /\ answer'[q] = answer[q] /\ job'[q] = job[q] /\ mem'[q] = mem[q]
  <2>1. CASE Invoke(p)
    BY <1>2, <2>1 DEF Invoke
  <2>2. CASE Load(p)
    BY <1>2, <2>2 DEF Load
  <2>3. CASE Gate(p)
    BY <1>2, <2>3 DEF Gate
  <2>4. CASE Validate(p)
    BY <1>2, <2>4 DEF Validate
  <2>5. CASE OpenTemp(p) \/ WriteTemp(p) \/ RenameTemp(p) \/ RenameFails(p) \/ RemoveTemp(p)
             \/ SaveFails(p)
    BY <1>2, <2>5 DEF OpenTemp, WriteTemp, RenameTemp, RenameFails, RemoveTemp, SaveFails
  <2>6. CASE Exit(p) \/ Crash(p)
    BY <1>2, <2>6 DEF Exit, Crash
  <2> QED
    BY <1>2, <2>1, <2>2, <2>3, <2>4, <2>5, <2>6 DEF Step
<1>3. CASE Invoke(q)
  BY <1>3 DEF Invoke
<1>4. CASE Load(q)
  BY <1>4 DEF Load
<1>5. CASE Gate(q)
  BY <1>5 DEF Gate
<1>6. CASE Validate(q)
  <2>1. PICK reports \in SUBSET Report :
           /\ answer'[q] = IF ShouldBlock(reports) THEN "block" ELSE "allow"
           /\ job[q].session \in Session /\ ShouldBlock(reports) =>
                mem'[q] = Poison(mem[q], job[q].session, PoisonCodes(reports), now)
    BY <1>6, SessionAssumption DEF Validate
  <2>2. job' = job /\ pc'[q] = "open"
    BY <1>6 DEF Validate
  <2>3. PoisonCodes(reports) \in SUBSET Code /\ mem[q] \in State /\ now \in Nat
    BY PoisonCodesType
  <2>4. CASE job[q].session \in Session /\ ShouldBlock(reports)
    BY <2>1, <2>2, <2>3, <2>4, PoisonedEntry
  <2> QED
    BY <2>1, <2>2, <2>4
<1>7. CASE OpenTemp(q) \/ WriteTemp(q) \/ RenameTemp(q) \/ RenameFails(q) \/ RemoveTemp(q)
           \/ SaveFails(q)
  BY <1>7 DEF OpenTemp, WriteTemp, RenameTemp, RenameFails, RemoveTemp, SaveFails, Exists, ghost
<1>8. CASE Exit(q) \/ Crash(q)
  BY <1>8 DEF Exit, Crash
<1> QED
  BY <1>1, <1>2, <1>3, <1>4, <1>5, <1>6, <1>7, <1>8 DEF Next, Step, vars, Tick, Exists

LEMMA TypeStep == TypeInv /\ [Next]_vars => TypeInv'
<1> SUFFICES ASSUME TypeInv, [Next]_vars PROVE TypeInv'
  OBVIOUS
<1>1. TypeOK'
  <2>1. CASE UNCHANGED vars
    BY <2>1 DEF TypeInv, TypeOK, vars, Idle
  <2>2. CASE Tick
    BY <2>2 DEF TypeInv, TypeOK, Tick, file, ghost, Idle
  <2>3. ASSUME NEW p \in Proc, Invoke(p) \/ Step(p)
        PROVE  TypeOK'
    BY <2>3, InvokeType, LoadType, GateType, ValidateType, OpenTempType, WriteTempType,
       RenameTempType, RenameFailsType, RemoveTempType, SaveFailsType, ExitType, CrashType
       DEF TypeInv, Step
  <2> QED
    BY <2>1, <2>2, <2>3 DEF Next
<1> QED
  BY <1>1, BlockStep DEF TypeInv

(* Every variable keeps its type, whatever the constants.                   *)
THEOREM TypeCorrect == Spec => []TypeOK
<1>1. Init => TypeInv
  BY InitType DEF TypeInv, BlockIsPoison, Init
<1>2. TypeInv => TypeOK
  BY DEF TypeInv
<1> QED
  BY <1>1, <1>2, TypeStep, PTL DEF Spec

-----------------------------------------------------------------------------
\* The origin of a poison

LEMMA FreshEarned == \A past : EarnedIn(Fresh, past)
BY DEF EarnedIn, Fresh, Exists

LEMMA EarnedGrows ==
    ASSUME NEW st, NEW past, NEW later, EarnedIn(st, past),
           \A s \in Session : past[s] \subseteq later[s]
    PROVE  EarnedIn(st, later)
BY DEF EarnedIn

LEMMA CleanupEarned ==
    ASSUME NEW st \in State, NEW t \in Nat, NEW past, EarnedIn(st, past)
    PROVE  EarnedIn(Cleanup(st, t), past)
BY DEF EarnedIn, Cleanup, Exists, State

\* A map that differs in one entry, which is no poison.
LEMMA ClearedEarned ==
    ASSUME NEW st \in State, NEW s \in Session, NEW info, NEW past,
           EarnedIn(st, past), info.status = "clean"
    PROVE  EarnedIn([st EXCEPT ![s] = info], past)
BY DEF EarnedIn, Exists, State

LEMMA UnpoisonEarned ==
    ASSUME NEW st \in State, NEW s \in Session, NEW t \in Nat, NEW past, EarnedIn(st, past)
    PROVE  EarnedIn(Unpoison(st, s, t), past)
<1> DEFINE info == [status |-> "clean", codes |-> {}, count |-> st[s].count, last |-> t]
<1>1. info.status = "clean"
  OBVIOUS
<1> HIDE DEF info
<1>2. EarnedIn([st EXCEPT ![s] = info], past)
  BY <1>1, ClearedEarned
<1> QED
  BY <1>2 DEF Unpoison, info

\* An entry that is still poisoned is not counted as a command: it would age anew.
LEMMA RecordCommandEarned ==
    ASSUME NEW st \in State, NEW s \in Session, NEW t \in Nat, NEW past, EarnedIn(st, past),
           ~IsPoisoned(st, s, t)
    PROVE  EarnedIn(RecordCommand(st, s, t), past)
<1> DEFINE kept == Exists(st, s) /\ ~IsExpired(st[s], t)
           info == [status |-> IF kept THEN st[s].status ELSE "clean",
                    codes  |-> IF kept THEN st[s].codes ELSE {},
                    count  |-> IF kept THEN st[s].count + 1 ELSE 1,
                    last   |-> t]
<1>1. info.status = "clean"
  BY ExistingInfo DEF IsPoisoned, Info
<1> QED
  BY <1>1, ClearedEarned DEF RecordCommand

LEMMA PoisonEarned ==
    ASSUME NEW st \in State, NEW s \in Session, NEW t \in Nat, NEW codes \in SUBSET Code,
           NEW past, EarnedIn(st, past), <<codes, t>> \in past[s]
    PROVE  EarnedIn(Poison(st, s, codes, t), past)
<1>1. \A r \in Session : r # s => Poison(st, s, codes, t)[r] = st[r]
  BY DEF Poison, State
<1> QED
  BY <1>1, PoisonedEntry DEF EarnedIn, Exists

(* Past the gate a process holds no live poison of its session: counting    *)
(* the command, which renews the entry, cannot renew a poison.              *)
PastGate ==
    \A p \in Proc : pc[p] = "validate" => ~IsPoisoned(mem[p], job[p].session, now)

EarnedInv == TypeInv /\ PastGate /\ PoisonIsEarned

\* Time only makes a poison lapse.
LEMMA PoisonAges ==
    ASSUME NEW st \in State, NEW s, NEW t \in Nat, ~IsPoisoned(st, s, t)
    PROVE  ~IsPoisoned(st, s, t + 1)
<1> SUFFICES ASSUME s \in Session, Exists(st, s), st[s].status = "poisoned", IsExpired(st[s], t)
             PROVE  IsExpired(st[s], t + 1)
  BY DEF IsPoisoned
<1> QED
  BY ExistingInfo, SessionAssumption DEF IsExpired, Info

LEMMA UnpoisonedIsClean ==
    ASSUME NEW st \in State, NEW s \in Session, NEW t \in Nat, Exists(st, s)
    PROVE  Unpoison(st, s, t)[s].status = "clean"
BY DEF Unpoison, State

LEMMA PastGateStep ==
    ASSUME TypeInv, PastGate, [Next]_vars
    PROVE  PastGate'
<1> SUFFICES ASSUME NEW q \in Proc, pc'[q] = "validate"
             PROVE  ~IsPoisoned(mem'[q], job'[q].session, now')
  BY DEF PastGate, IsPoisoned, Exists, IsExpired
<1> USE DEF TypeInv, TypeOK
<1>1. CASE UNCHANGED <<pc, job, mem, now>>
  BY <1>1 DEF PastGate
<1>2. CASE Tick
  BY <1>2, PoisonAges DEF Tick, PastGate
<1>3. ASSUME NEW p \in Proc, p # q, Invoke(p) \/ Step(p)
      PROVE  pc'[q] = pc[q] /\ job'[q] = job[q] /\ mem'[q] = mem[q] /\ now' = now
  <2>1. CASE Invoke(p)
    BY <1>3, <2>1 DEF Invoke
  <2>2. CASE Load(p)
    BY <1>3, <2>2 DEF Load
  <2>3. CASE Gate(p)
    BY <1>3, <2>3 DEF Gate
  <2>4. CASE Validate(p)
    BY <1>3, <2>4 DEF Validate
  <2>5. CASE OpenTemp(p) \/ WriteTemp(p) \/ RenameTemp(p) \/ RenameFails(p) \/ RemoveTemp(p)
             \/ SaveFails(p)
    BY <1>3, <2>5 DEF OpenTemp, WriteTemp, RenameTemp, RenameFails, RemoveTemp, SaveFails
  <2>6. CASE Exit(p) \/ Crash(p)
    BY <1>3, <2>6 DEF Exit, Crash
  <2> QED
    BY <1>3, <2>1, <2>2, <2>3, <2>4, <2>5, <2>6 DEF Step
<1>4. CASE Gate(q)
  <2> DEFINE s == job[q].session
  <2>1. job' = job /\ now' = now
    BY <1>4 DEF Gate, file
  <2>2. CASE ~IsPoisoned(mem[q], s, now) /\ UNCHANGED mem
    BY <2>1, <2>2
  <2>3. CASE IsPoisoned(mem[q], s, now) /\ mem' = [mem EXCEPT ![q] = Unpoison(mem[q], s, now)]
    <3>1. s \in Session /\ Exists(mem[q], s)
      BY <2>3 DEF IsPoisoned
    <3>2. mem'[q][s].status = "clean"
      BY <2>3, <3>1, UnpoisonedIsClean
    <3> QED
      BY <2>1, <3>2 DEF IsPoisoned
  <2> QED
    BY <1>4, <2>2, <2>3 DEF Gate
<1>5. CASE Invoke(q) \/ Load(q) \/ Validate(q) \/ Exit(q) \/ Crash(q)
  BY <1>5 DEF Invoke, Load, Validate, Exit, Crash
<1>6. CASE OpenTemp(q) \/ WriteTemp(q) \/ RenameTemp(q) \/ RenameFails(q) \/ RemoveTemp(q)
           \/ SaveFails(q)
  BY <1>6 DEF OpenTemp, WriteTemp, RenameTemp, RenameFails, RemoveTemp, SaveFails
<1> QED
  BY <1>1, <1>2, <1>3, <1>4, <1>5, <1>6 DEF Next, Step, vars, PastGate

(* What a step leaves in the memory of a process and in the files was there *)
(* before, or is what the process of the step just computed.                *)
LEMMA MemStep ==
    ASSUME EarnedInv, [Next]_vars
    PROVE  /\ \A s \in Session : earned[s] \subseteq earned'[s]
           /\ \A q \in Proc : EarnedIn(mem'[q], earned')
<1> USE DEF EarnedInv, TypeInv, TypeOK, PoisonIsEarned
<1> DEFINE Grown == \A s \in Session : earned[s] \subseteq earned'[s]
           OnlyMem(p, m) == Grown /\ mem' = [mem EXCEPT ![p] = m] /\ EarnedIn(m, earned')
<1>1. ASSUME UNCHANGED <<mem, earned>> PROVE Grown /\ \A q \in Proc : EarnedIn(mem'[q], earned')
  BY <1>1
<1>2. ASSUME NEW p \in Proc, NEW m, OnlyMem(p, m)
      PROVE  \A q \in Proc : EarnedIn(mem'[q], earned')
  BY <1>2, EarnedGrows
<1>3. ASSUME NEW p \in Proc, Load(p) \/ Gate(p) \/ Validate(p) \/ Exit(p) \/ Crash(p)
      PROVE  \E m : OnlyMem(p, m)
  <2> DEFINE s == job[p].session
  <2>1. CASE Load(p)
    <3>1. earned' = earned
      BY <2>1 DEF Load, ghost
    <3>2. CASE \E st \in Parsed(path) : mem' = [mem EXCEPT ![p] = Cleanup(st, now)]
      <4>1. PICK st \in Parsed(path) : mem' = [mem EXCEPT ![p] = Cleanup(st, now)]
        BY <3>2
      <4>2. st \in State /\ EarnedIn(st, earned)
        BY ParsedIsState DEF Parsed
      <4> QED
        BY <3>1, <4>1, <4>2, CleanupEarned
    <3>3. CASE mem' = [mem EXCEPT ![p] = Fresh]
      BY <3>1, <3>3, FreshEarned
    <3> QED
      BY <2>1, <3>2, <3>3 DEF Load
  <2>2. CASE Gate(p)
    <3>1. earned' = earned
      BY <2>2 DEF Gate
    <3>2. CASE IsPoisoned(mem[p], s, now) /\ mem' = [mem EXCEPT ![p] = Unpoison(mem[p], s, now)]
      <4>1. s \in Session
        BY <3>2 DEF IsPoisoned
      <4> QED
        BY <3>1, <3>2, <4>1, UnpoisonEarned
    <3>3. CASE UNCHANGED mem
      <4>1. mem' = [mem EXCEPT ![p] = mem[p]]
        BY <3>3
      <4> QED
        BY <3>1, <4>1
    <3> QED
      BY <2>2, <3>2, <3>3 DEF Gate
  <2>3. CASE Validate(p)
    <3>1. PICK reports \in SUBSET Report :
            \/ UNCHANGED <<mem, earned>>
            \/ /\ s # NoSession
               /\ mem' = [mem EXCEPT ![p] = Poison(mem[p], s, PoisonCodes(reports), now)]
               /\ earned' = [earned EXCEPT ![s] = @ \cup {<<PoisonCodes(reports), now>>}]
            \/ /\ s # NoSession
               /\ mem' = [mem EXCEPT ![p] = RecordCommand(mem[p], s, now)]
               /\ UNCHANGED earned
      BY <2>3 DEF Validate
    <3>2. s \in Session \cup {NoSession}
      BY <2>3, RunningJob DEF Validate, Idle
    <3>3. CASE UNCHANGED <<mem, earned>>
      <4>1. mem' = [mem EXCEPT ![p] = mem[p]]
        BY <3>3
      <4> QED
        BY <3>3, <4>1
    <3>4. CASE /\ s # NoSession
               /\ mem' = [mem EXCEPT ![p] = Poison(mem[p], s, PoisonCodes(reports), now)]
               /\ earned' = [earned EXCEPT ![s] = @ \cup {<<PoisonCodes(reports), now>>}]
      <4>1. Grown /\ <<PoisonCodes(reports), now>> \in earned'[s]
        BY <3>2, <3>4
      <4>2. EarnedIn(mem[p], earned')
        BY <4>1, EarnedGrows
      <4>3. PoisonCodes(reports) \in SUBSET Code
        BY PoisonCodesType
      <4>4. EarnedIn(Poison(mem[p], s, PoisonCodes(reports), now), earned')
        BY <3>2, <3>4, <4>1, <4>2, <4>3, PoisonEarned
      <4> QED
        BY <3>4, <4>1, <4>4
    <3>5. CASE /\ s # NoSession
               /\ mem' = [mem EXCEPT ![p] = RecordCommand(mem[p], s, now)]
               /\ UNCHANGED earned
      <4>1. ~IsPoisoned(mem[p], s, now)
        BY <2>3 DEF Validate, PastGate
      <4>2. EarnedIn(RecordCommand(mem[p], s, now), earned)
        BY <3>2, <3>5, <4>1, RecordCommandEarned
      <4> QED
        BY <3>5, <4>2
    <3> QED
      BY <3>1, <3>3, <3>4, <3>5
  <2>4. CASE Exit(p) \/ Crash(p)
    BY <2>4, FreshEarned DEF Exit, Crash
  <2> QED
    BY <1>3, <2>1, <2>2, <2>3, <2>4
<1>4. ASSUME NEW p \in Proc, Invoke(p) \/ OpenTemp(p) \/ WriteTemp(p) \/ RenameTemp(p)
                             \/ RenameFails(p) \/ RemoveTemp(p) \/ SaveFails(p)
      PROVE  UNCHANGED <<mem, earned>>
  BY <1>4 DEF Invoke, OpenTemp, WriteTemp, RenameTemp, RenameFails, RemoveTemp, SaveFails, ghost
<1>5. CASE UNCHANGED vars \/ Tick
  BY <1>1, <1>5 DEF vars, Tick, ghost
<1> QED
  BY <1>1, <1>2, <1>3, <1>4, <1>5 DEF Next, Step

LEMMA ReclaimedContent ==
    ASSUME NEW content, NEW held, NEW i \in Inode
    PROVE  Reclaimed(content, held)[i] \in {content[i], Empty}
BY DEF Reclaimed

LEMMA OverwrittenContent ==
    ASSUME TypeOK, NEW f, NEW content, NEW held, NEW i \in Inode
    PROVE  Reclaimed([disk EXCEPT ![f] = content], held)[i] \in {disk[i], content, Empty}
<1>1. [disk EXCEPT ![f] = content][i] \in {disk[i], content}
  BY DEF TypeOK
<1> QED
  BY <1>1, ReclaimedContent

LEMMA DiskStep ==
    ASSUME TypeOK, [Next]_vars, NEW i \in Inode
    PROVE  disk'[i] \in {disk[i], Empty, Corrupt} \cup {mem[q] : q \in Proc}
<1> DEFINE goal == disk'[i] \in {disk[i], Empty, Corrupt} \cup {mem[q] : q \in Proc}
<1> USE DEF TypeOK
<1>1. CASE UNCHANGED disk
  BY <1>1
<1>2. ASSUME NEW p \in Proc, OpenTemp(p)
      PROVE  goal
  BY <1>2 DEF OpenTemp
<1>4. ASSUME NEW p \in Proc, WriteTemp(p)
      PROVE  goal
  <2>1. PICK content \in {mem[p], Empty, Corrupt} :
           disk' = Reclaimed([disk EXCEPT ![fd[p]] = content],
                             Held({path, tmp}, [fd EXCEPT ![p] = None]))
    BY <1>4 DEF WriteTemp
  <2> QED
    <3>1. Reclaimed([disk EXCEPT ![fd[p]] = content],
                    Held({path, tmp}, [fd EXCEPT ![p] = None]))[i] \in {disk[i], content, Empty}
      BY OverwrittenContent
    <3> QED
      BY <2>1, <3>1
<1>5. ASSUME NEW p \in Proc, SaveFails(p)
      PROVE  goal
  <2>1. CASE UNCHANGED disk
    BY <1>1, <2>1
  <2>2. CASE \E content \in {Empty, Corrupt} :
               disk' = Reclaimed([disk EXCEPT ![fd[p]] = content],
                                 Held({path, tmp}, [fd EXCEPT ![p] = None]))
    <3>1. PICK content \in {Empty, Corrupt} :
             disk' = Reclaimed([disk EXCEPT ![fd[p]] = content],
                               Held({path, tmp}, [fd EXCEPT ![p] = None]))
      BY <2>2
    <3> QED
      <4>1. Reclaimed([disk EXCEPT ![fd[p]] = content],
                      Held({path, tmp}, [fd EXCEPT ![p] = None]))[i] \in {disk[i], content, Empty}
        BY OverwrittenContent
      <4> QED
        BY <3>1, <4>1
  <2> QED
    BY <1>5, <2>1, <2>2 DEF SaveFails
<1>6. ASSUME NEW p \in Proc, RenameTemp(p) \/ RemoveTemp(p) \/ Crash(p)
      PROVE  goal
  BY <1>6, ReclaimedContent DEF RenameTemp, RemoveTemp, Crash
<1>7. ASSUME NEW p \in Proc, Invoke(p) \/ Load(p) \/ Gate(p) \/ Validate(p)
                             \/ RenameFails(p) \/ Exit(p)
      PROVE  UNCHANGED disk
  BY <1>7 DEF Invoke, Load, Gate, Validate, RenameFails, Exit, file
<1>8. CASE UNCHANGED vars \/ Tick
  BY <1>1, <1>8 DEF vars, Tick, file
<1> QED
  BY <1>1, <1>2, <1>4, <1>5, <1>6, <1>7, <1>8 DEF Next, Step

LEMMA EarnedStep == EarnedInv /\ [Next]_vars => EarnedInv'
<1> SUFFICES ASSUME EarnedInv, [Next]_vars PROVE EarnedInv'
  OBVIOUS
<1>1. TypeInv' /\ PastGate'
  BY TypeStep, PastGateStep DEF EarnedInv
<1>2. ASSUME NEW i \in Inode, NEW st \in Parsed(i)'
      PROVE  EarnedIn(st, earned')
  <2>1. st = disk'[i] /\ st \in State
    BY DEF Parsed
  <2>2. disk'[i] = disk[i] \/ \E q \in Proc : disk'[i] = mem[q]
    BY <2>1, DiskStep, FileAssumption DEF EarnedInv, TypeInv
  <2>3. EarnedIn(st, earned)
    <3>1. CASE disk'[i] = disk[i]
      <4>1. st \in Parsed(i)
        BY <2>1, <3>1, FileAssumption DEF Parsed
      <4> QED
        BY <4>1 DEF EarnedInv, PoisonIsEarned
    <3>2. CASE \E q \in Proc : disk'[i] = mem[q]
      BY <2>1, <3>2 DEF EarnedInv, PoisonIsEarned
    <3> QED
      BY <2>2, <3>1, <3>2
  <2> QED
    BY <2>3, MemStep, EarnedGrows
<1>3. PoisonIsEarned'
  BY <1>2, MemStep DEF PoisonIsEarned, EarnedIn, Exists, PoisonIn
<1> QED
  BY <1>1, <1>3 DEF EarnedInv

LEMMA EarnedInit == Init => EarnedInv
<1> SUFFICES ASSUME Init PROVE EarnedInv
  OBVIOUS
<1>1. TypeInv
  BY InitType DEF TypeInv, BlockIsPoison, Init
<1>2. PastGate
  BY DEF PastGate, Init
<1>3. PoisonIsEarned
  BY FreshEarned, FileAssumption DEF PoisonIsEarned, Init, Parsed
<1> QED
  BY <1>1, <1>2, <1>3 DEF EarnedInv

(* However the processes interleave, whatever fails and whoever is killed,  *)
(* every poison in a memory or a file was left by a blocked command of that *)
(* session, with those codes and at that time.                              *)
THEOREM PoisonEarnedAlways == Spec => []PoisonIsEarned
<1>1. EarnedInv => PoisonIsEarned
  BY DEF EarnedInv
<1> QED
  BY <1>1, EarnedInit, EarnedStep, PTL DEF Spec

(* A run refuses a command only while a block of its session that left the  *)
(* codes it names is at most MaxSessionAge old.                             *)
THEOREM RefusalEarnedAlways == Spec => RefusalIsEarned
<1> DEFINE refused(p) == pc[p] = "gate" /\ answer'[p] = "refuse"
           cause(p) == \E e \in earned[job[p].session] :
                          e[1] = mem[p][job[p].session].codes /\ ~Lapsed(e)
<1>1. EarnedInv /\ [Next]_vars => [\A p \in Proc : refused(p) => cause(p)]_vars
  <2> SUFFICES ASSUME EarnedInv, Next, NEW p \in Proc, refused(p)
               PROVE  cause(p)
    OBVIOUS
  <2> DEFINE s == job[p].session
  <2>1. answer[p] = "none"
    BY DEF EarnedInv, TypeInv, BlockIsPoison
  <2>2. Gate(p)
    <3>1. PICK q \in Proc : Invoke(q) \/ Step(q)
      BY <2>1 DEF Next, Tick
    <3>2. q = p
      BY <2>1, <3>1 DEF EarnedInv, TypeInv, TypeOK, Step, Invoke, Load, Gate, Validate, OpenTemp,
                        WriteTemp, RenameTemp, RenameFails, RemoveTemp, SaveFails, Exit, Crash
    <3> QED
      BY <2>1, <3>1, <3>2 DEF EarnedInv, TypeInv, TypeOK, Step, Invoke, Load, Validate, OpenTemp,
             WriteTemp, RenameTemp, RenameFails, RemoveTemp, SaveFails, Exit, Crash, Idle
  <2>3. IsPoisoned(mem[p], s, now)
    BY <2>1, <2>2 DEF Gate
  <2>4. /\ s \in Session /\ Exists(mem[p], s)
        /\ mem[p][s].status = "poisoned"
        /\ ~IsExpired(mem[p][s], now)
    BY <2>3 DEF IsPoisoned
  <2>5. PoisonIn(mem[p][s]) \in earned[s]
    BY <2>4 DEF EarnedInv, PoisonIsEarned, EarnedIn
  <2>6. ~Lapsed(PoisonIn(mem[p][s]))
    BY <2>4 DEF Lapsed, PoisonIn, IsExpired
  <2> QED
    BY <2>5, <2>6 DEF PoisonIn
<1> QED
  BY <1>1, EarnedInit, EarnedStep, PTL DEF Spec, RefusalIsEarned
=============================================================================
