------------------------------ MODULE HookRun ------------------------------
(***************************************************************************)
(* Runs of the hook binary, each a process of its own, that share one      *)
(* session state file (cmd/klaudiush/main.go run, internal/session,        *)
(* internal/dispatcher).                                                   *)
(*                                                                         *)
(* The host starts a process for every tool call.  The process loads the   *)
(* state file, asks the gate whether the session is poisoned, runs the     *)
(* validators, poisons the session or counts the command, saves the state  *)
(* and exits with the answer.  Calls of several sessions, and parallel     *)
(* calls of one, overlap: nothing locks the file between Load and Save.    *)
(*                                                                         *)
(* Save is os.WriteFile to path.tmp, which opens with O_CREATE|O_TRUNC and *)
(* then writes, and os.Rename.  Every process uses the same path.tmp, so   *)
(* the file system is modelled by inodes: the two names point to inodes, a *)
(* process that opened the temporary file writes to its inode, whatever    *)
(* name that inode has by then.                                            *)
(*                                                                         *)
(* The clock is taken to be nondecreasing and every read of it inside one  *)
(* step to give the same instant.  Session tracking is enabled; when it is *)
(* not, no step below touches anything.                                    *)
(***************************************************************************)
EXTENDS SessionState

CONSTANTS
    Proc,       \* process slots of the host
    Command,    \* commands of the requests, members of CommandType
    Report,     \* results of validators that did not pass
    Inode,      \* files on disk
    NoRequest,  \* the job of a slot without a process
    None,       \* a name or a descriptor that leads to no file
    Empty,      \* content of a file opened and not yet written
    Corrupt,    \* content json.Unmarshal refuses
    Exclusive,  \* TRUE: the host runs one hook at a time
    Faults,     \* which of "read", "write" and "crash" may happen
    MaxTime,    \* bound of the clock
    MaxRuns     \* bound of the number of runs

ASSUME CommandAssumption == Command \subseteq CommandType

\* A report blocks or only warns; codes is the code of its reference, {} without one.
ASSUME ReportAssumption ==
    Report \subseteq [blocks: BOOLEAN, codes: SUBSET Code]

ASSUME FileAssumption ==
    /\ None \notin Inode
    /\ Empty \notin State /\ Corrupt \notin State /\ Empty # Corrupt

ASSUME ModeAssumption ==
    /\ Exclusive \in BOOLEAN
    /\ Faults \subseteq {"read", "write", "crash"}

VARIABLES
    now,      \* the clock
    path,     \* inode of session_state.json, or None
    tmp,      \* inode of session_state.json.tmp, or None
    disk,     \* content of every inode
    fd,       \* inode a process has open for writing, or None
    pc,       \* where a process is in run
    job,      \* the hook context of a process
    mem,      \* the tracker's map in a process
    answer,   \* what the process will tell the host
    runs,     \* runs started
    earned,   \* ghost: the poisonings performed, as <<codes, time>>, by session
    debt,     \* ghost: the poisonings told to the host and not released, by session
    due       \* ghost: the debts of its session when a process started

file  == <<path, tmp, disk, fd>>
ghost == <<earned, debt, due>>
vars  == <<now, path, tmp, disk, fd, pc, job, mem, answer, runs, earned, debt, due>>

-----------------------------------------------------------------------------
\* Values

Request == [session: Session \cup {NoSession}, command: Command]

\* A slot without a process has no request.
ASSUME RequestAssumption == NoRequest \notin Request

\* A poisoning: the codes it left and the time it happened.
Poisoning == (SUBSET Code) \X Nat

\* A poisoning that is too old to stop anything.
Lapsed(d) == MaxSessionAge > 0 /\ now - d[2] > MaxSessionAge

Idle(p) == pc[p] = "idle"

\* json.Unmarshal of what a name leads to: an unreadable content is no state.
Parsed(i) == IF i # None /\ disk[i] \in State THEN {disk[i]} ELSE {}

(* The inodes a name or a descriptor leads to; the content of any other is  *)
(* gone.                                                                    *)
Held(names, fds) == (names \cup {fds[p] : p \in Proc}) \ {None}

Reclaimed(content, held) ==
    [i \in Inode |-> IF i \in held THEN content[i] ELSE Empty]

TypeOK ==
    /\ now \in Nat /\ runs \in Nat
    /\ path \in Inode \cup {None}
    /\ tmp \in Inode \cup {None}
    /\ disk \in [Inode -> State \cup {Empty, Corrupt}]
    /\ fd \in [Proc -> Inode \cup {None}]
    /\ pc \in [Proc -> {"idle", "load", "gate", "validate", "open", "write",
                        "rename", "remove", "exit"}]
    /\ job \in [Proc -> Request \cup {NoRequest}]
    /\ \A p \in Proc : ~Idle(p) => job[p] \in Request
    /\ mem \in [Proc -> State]
    /\ answer \in [Proc -> {"none", "allow", "block", "refuse"}]
    /\ earned \in [Session -> SUBSET Poisoning]
    /\ debt \in [Session -> SUBSET Poisoning]
    /\ due \in [Proc -> SUBSET Poisoning]

Init ==
    /\ now = 0 /\ runs = 0
    /\ path = None /\ tmp = None
    /\ disk = [i \in Inode |-> Empty]
    /\ fd = [p \in Proc |-> None]
    /\ pc = [p \in Proc |-> "idle"]
    /\ job = [p \in Proc |-> NoRequest]
    /\ mem = [p \in Proc |-> Fresh]
    /\ answer = [p \in Proc |-> "none"]
    /\ earned = [s \in Session |-> {}]
    /\ debt = [s \in Session |-> {}]
    /\ due = [p \in Proc |-> {}]

-----------------------------------------------------------------------------
\* The host and the clock

Tick ==
    /\ now < MaxTime
    /\ now' = now + 1
    /\ UNCHANGED <<file, pc, job, mem, answer, runs, ghost>>

\* Mutant of Invoke: the tracker is loaded before the input is parsed.
InvokeUnparsed(p) ==
    /\ Idle(p)
    /\ runs < MaxRuns
    /\ runs' = runs + 1
    /\ pc' = [pc EXCEPT ![p] = "load"]
    /\ UNCHANGED <<now, file, job, mem, answer, ghost>>

(* The host calls a tool and starts the hook with the request on its input. *)
Invoke(p) ==
    /\ Idle(p)
    /\ runs < MaxRuns
    /\ Exclusive => \A q \in Proc : Idle(q)
    /\ \E r \in Request :
          /\ job' = [job EXCEPT ![p] = r]
          /\ due' = [due EXCEPT ![p] = IF r.session = NoSession THEN {}
                                     ELSE debt[r.session]]
    /\ runs' = runs + 1
    /\ pc' = [pc EXCEPT ![p] = "load"]
    /\ UNCHANGED <<now, file, mem, answer, earned, debt>>

-----------------------------------------------------------------------------
\* initSessionTracker

(* Load: a missing file and one that does not parse leave the new tracker's *)
(* empty state, without an error.  A read error is logged and ignored, with *)
(* the same result.                                                         *)
Load(p) ==
    /\ pc[p] = "load"
    /\ \/ \E st \in Parsed(path) : mem' = [mem EXCEPT ![p] = Cleanup(st, now)]
       \/ /\ Parsed(path) = {} \/ "read" \in Faults
          /\ mem' = [mem EXCEPT ![p] = Fresh]
    /\ pc' = [pc EXCEPT ![p] = "gate"]
    /\ UNCHANGED <<now, file, job, answer, runs, ghost>>

-----------------------------------------------------------------------------
\* Dispatcher.Dispatch

(* checkUnpoisonAcknowledgment releases the session in memory; otherwise a  *)
(* poisoned session is refused without running a validator.                 *)
Gate(p) ==
    LET s == job[p].session
        c == job[p].command
    IN  /\ pc[p] = "gate"
        /\ \/ /\ ~IsPoisoned(mem[p], s, now)
              /\ pc' = [pc EXCEPT ![p] = "validate"]
              /\ UNCHANGED <<mem, answer, debt>>
           \/ /\ IsPoisoned(mem[p], s, now)
              /\ Releases(c, mem[p][s].codes)
              /\ mem' = [mem EXCEPT ![p] = Unpoison(mem[p], s, now)]
              /\ debt' = [debt EXCEPT ![s] = {}]
              /\ pc' = [pc EXCEPT ![p] = "validate"]
              /\ UNCHANGED answer
           \/ /\ IsPoisoned(mem[p], s, now)
              /\ ~Releases(c, mem[p][s].codes)
              /\ answer' = [answer EXCEPT ![p] = "refuse"]
              /\ pc' = [pc EXCEPT ![p] = "open"]
              /\ UNCHANGED <<mem, debt>>
        /\ UNCHANGED <<now, file, job, runs, earned, due>>

ShouldBlock(reports) == \E r \in reports : r.blocks

\* extractSessionPoisonCodes: a blocking report without a reference adds none.
PoisonCodes(reports) == UNION {r.codes : r \in {x \in reports : x.blocks}}

(* The validators of the context and those of the file writes a Bash        *)
(* command contains report what they like; the session is poisoned with the *)
(* codes of the blocking reports, or the command is counted.  A context     *)
(* without session only gets its answer.                                    *)
Validate(p) ==
    LET s == job[p].session
    IN  /\ pc[p] = "validate"
        /\ \E reports \in SUBSET Report :
              /\ answer' = [answer EXCEPT ![p] =
                               IF ShouldBlock(reports) THEN "block" ELSE "allow"]
              /\ \/ /\ s = NoSession
                    /\ UNCHANGED <<mem, earned>>
                 \/ /\ s # NoSession /\ ShouldBlock(reports)
                    /\ mem' = [mem EXCEPT ![p] =
                                  Poison(mem[p], s, PoisonCodes(reports), now)]
                    /\ earned' = [earned EXCEPT ![s] =
                                     @ \cup {<<PoisonCodes(reports), now>>}]
                 \/ /\ s # NoSession /\ ~ShouldBlock(reports)
                    /\ mem' = [mem EXCEPT ![p] = RecordCommand(mem[p], s, now)]
                    /\ UNCHANGED earned
        /\ pc' = [pc EXCEPT ![p] = "open"]
        /\ UNCHANGED <<now, file, job, runs, debt, due>>

-----------------------------------------------------------------------------
\* Tracker.Save, whatever the answer is

\* Mutant of OpenTemp: the state file itself is opened for writing.
OpenInPlace(p) ==
    /\ pc[p] = "open"
    /\ \E i \in Inode :
          /\ IF path = None THEN i \notin Held({tmp}, fd) ELSE i = path
          /\ path' = i /\ tmp' = i
          /\ fd' = [fd EXCEPT ![p] = i]
          /\ disk' = [disk EXCEPT ![i] = Empty]
    /\ pc' = [pc EXCEPT ![p] = "write"]
    /\ UNCHANGED <<now, job, mem, answer, runs, ghost>>

(* WriteFile opens path.tmp: an existing file is truncated, whoever made    *)
(* it, a missing one is created.                                            *)
OpenTemp(p) ==
    /\ pc[p] = "open"
    /\ \E i \in Inode :
          /\ IF tmp = None THEN i \notin Held({path}, fd) ELSE i = tmp
          /\ tmp' = i
          /\ fd' = [fd EXCEPT ![p] = i]
          /\ disk' = [disk EXCEPT ![i] = Empty]
    /\ pc' = [pc EXCEPT ![p] = "write"]
    /\ UNCHANGED <<now, path, job, mem, answer, runs, ghost>>

(* WriteFile writes from the start of the file it opened and closes it.     *)
(* Over bytes another process wrote in between, the result is this state or *)
(* this state followed by the tail of a longer one.                         *)
WriteTemp(p) ==
    /\ pc[p] = "write"
    /\ \E content \in {mem[p]} \cup (IF disk[fd[p]] = Empty THEN {} ELSE {Corrupt}) :
          disk' = Reclaimed([disk EXCEPT ![fd[p]] = content],
                            Held({path, tmp}, [fd EXCEPT ![p] = None]))
    /\ fd' = [fd EXCEPT ![p] = None]
    /\ pc' = [pc EXCEPT ![p] = "rename"]
    /\ UNCHANGED <<now, path, tmp, job, mem, answer, runs, ghost>>

(* Rename publishes whatever path.tmp leads to by now.                      *)
RenameTemp(p) ==
    /\ pc[p] = "rename"
    /\ tmp # None
    /\ path' = tmp /\ tmp' = None
    /\ disk' = Reclaimed(disk, Held({tmp}, fd))
    /\ pc' = [pc EXCEPT ![p] = "exit"]
    /\ UNCHANGED <<now, fd, job, mem, answer, runs, ghost>>

(* Rename fails because another process took path.tmp away, or the disk     *)
(* refuses it.                                                              *)
RenameFails(p) ==
    /\ pc[p] = "rename"
    /\ tmp = None \/ "write" \in Faults
    /\ pc' = [pc EXCEPT ![p] = "remove"]
    /\ UNCHANGED <<now, file, job, mem, answer, runs, ghost>>

(* os.Remove of path.tmp, which may be another process's file by now.       *)
RemoveTemp(p) ==
    /\ pc[p] = "remove"
    /\ tmp' = None
    /\ disk' = Reclaimed(disk, Held({path}, fd))
    /\ pc' = [pc EXCEPT ![p] = "exit"]
    /\ UNCHANGED <<now, path, fd, job, mem, answer, runs, ghost>>

(* The directory or the temporary file cannot be created, or the write      *)
(* stops short and leaves an unreadable file behind.                        *)
SaveFails(p) ==
    /\ "write" \in Faults
    /\ \/ /\ pc[p] = "open"
          /\ UNCHANGED disk
       \/ /\ pc[p] = "write"
          /\ \E content \in {Empty, Corrupt} :
                disk' = Reclaimed([disk EXCEPT ![fd[p]] = content],
                                  Held({path, tmp}, [fd EXCEPT ![p] = None]))
    /\ fd' = [fd EXCEPT ![p] = None]
    /\ pc' = [pc EXCEPT ![p] = "exit"]
    /\ UNCHANGED <<now, path, tmp, job, mem, answer, runs, ghost>>

-----------------------------------------------------------------------------
\* The end of a process

(* The host reads the exit status: code 2 blocks the tool call.  From here  *)
(* on the host knows of the poisoning.                                      *)
Exit(p) ==
    LET s == job[p].session
    IN  /\ pc[p] = "exit"
        /\ debt' = IF answer[p] = "block" /\ s # NoSession
                   THEN [debt EXCEPT ![s] = @ \cup {<<mem[p][s].codes, mem[p][s].last>>}]
                   ELSE debt
        /\ pc' = [pc EXCEPT ![p] = "idle"]
        /\ job' = [job EXCEPT ![p] = NoRequest]
        /\ mem' = [mem EXCEPT ![p] = Fresh]
        /\ answer' = [answer EXCEPT ![p] = "none"]
        /\ due' = [due EXCEPT ![p] = {}]
        /\ UNCHANGED <<now, file, runs, earned>>

(* A panic (recovered by mainWithExitCode, which saves nothing) or a kill   *)
(* by the host's hook timeout.                                              *)
Crash(p) ==
    /\ "crash" \in Faults
    /\ ~Idle(p)
    /\ fd' = [fd EXCEPT ![p] = None]
    /\ disk' = Reclaimed(disk, Held({path, tmp}, [fd EXCEPT ![p] = None]))
    /\ pc' = [pc EXCEPT ![p] = "idle"]
    /\ job' = [job EXCEPT ![p] = NoRequest]
    /\ mem' = [mem EXCEPT ![p] = Fresh]
    /\ answer' = [answer EXCEPT ![p] = "none"]
    /\ due' = [due EXCEPT ![p] = {}]
    /\ UNCHANGED <<now, path, tmp, runs, earned, debt>>

Step(p) ==
    \/ Load(p) \/ Gate(p) \/ Validate(p)
    \/ OpenTemp(p) \/ WriteTemp(p) \/ RenameTemp(p)
    \/ RenameFails(p) \/ RemoveTemp(p) \/ SaveFails(p)
    \/ Exit(p) \/ Crash(p)

Next == Tick \/ \E p \in Proc : Invoke(p) \/ Step(p)

Spec == Init /\ [][Next]_vars

-----------------------------------------------------------------------------
\* Properties

PoisonIn(info) == <<info.codes, info.last>>

\* Every poisoned entry of a map is one of the poisonings in past.
EarnedIn(st, past) ==
    \A s \in Session :
        Exists(st, s) /\ st[s].status = "poisoned" => PoisonIn(st[s]) \in past[s]

(* No interleaving, torn file, fault or crash makes up a poison: whatever   *)
(* poisoned entry is in a process's memory or in a file, some run really    *)
(* blocked a command of that very session, with those codes and at that     *)
(* time.  Expiry counts from that time, so nothing prolongs a poison.       *)
PoisonIsEarned ==
    /\ \A p \in Proc : EarnedIn(mem[p], earned)
    /\ \A i \in Inode : \A st \in Parsed(i) : EarnedIn(st, earned)

(* A run refuses a command as "session poisoned" only while a block of that *)
(* session, with the codes it names, is at most MaxSessionAge old.          *)
RefusalIsEarned ==
    [][\A p \in Proc :
         pc[p] = "gate" /\ answer'[p] = "refuse" =>
           \E e \in earned[job[p].session] :
               e[1] = mem[p][job[p].session].codes /\ ~Lapsed(e)]_vars

(* Whenever there is a state file it is a complete one: what the guide      *)
(* claims of writing to a temporary file and renaming it.                   *)
PublishedIsWhole == path # None => Parsed(path) # {}

(* Once the host was told that a command poisoned its session, a hook it    *)
(* starts afterwards does not get past the gate, unless that session was    *)
(* released since or the poison lapsed.                                     *)
NoCommandPastPoison ==
    [][\A p \in Proc :
         pc[p] = "gate" /\ pc'[p] = "validate" /\ job[p].session # NoSession =>
             \A d \in due[p] \cap debt'[job[p].session] : Lapsed(d)]_vars

(* The gate releases a poisoned session only to a command that carries a    *)
(* key for its codes.                                                       *)
KeyNeeded ==
    [][\A p \in Proc :
         LET s == job[p].session
         IN  pc[p] = "gate" /\ pc'[p] = "validate" /\ IsPoisoned(mem[p], s, now)
               => IsKey(job[p].command, mem[p][s].codes)]_vars

(* A run that refuses prints a token, and a command with that token is let  *)
(* through: the instructions of the error work.                             *)
AdvertisedTokenUnlocks ==
    \A p \in Proc : answer[p] = "refuse" =>
        LET codes == mem[p][job[p].session].codes
        IN  Releases(Advertised(codes), codes)

-----------------------------------------------------------------------------
\* The promise of session tracking, kept when hooks do not overlap

(* The gates the state file stands for.                                     *)
GateOf(info) ==
    IF info # Absent /\ info.status = "poisoned"
    THEN [codes |-> info.codes, since |-> info.last]
    ELSE Absent

PublishedGate ==
    [s \in Session |-> IF Parsed(path) = {} THEN Absent ELSE GateOf(disk[path][s])]

Promise == INSTANCE SessionGate
            WITH request <- job, gate <- PublishedGate, Open <- Absent

(* Run one at a time, the hooks implement the gate: publishing the state    *)
(* file is the step in which a request takes effect, and neither a crash    *)
(* nor a failed save opens a gate or closes one.                            *)
KeepsGate == Promise!Spec
=============================================================================
