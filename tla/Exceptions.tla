----------------------------- MODULE Exceptions -----------------------------
(***************************************************************************)
(* Hook processes that decide on exceptions and share the rate limit state *)
(* file and the audit log (internal/exceptions handler.go, ratelimit.go,   *)
(* audit.go), and "audit cleanup", which a person runs.                    *)
(*                                                                         *)
(* A hook loads the rate limit state, puts every error of the validators   *)
(* through CheckException, one after the other, saves the state and        *)
(* answers.  main does not hand the checker to the dispatcher: where the   *)
(* state is loaded and saved is taken from the session state, which the    *)
(* same binary loads before Dispatch and saves before it answers.          *)
(*                                                                         *)
(* Save writes path.tmp and renames it.  A descriptor is modelled by the   *)
(* name its file has at the moment: it follows renames, and a file whose   *)
(* name another one took is gone.  The same holds for the log.             *)
(***************************************************************************)
EXTENDS RateLimit, AuditLog

CONSTANTS
    Proc,          \* process slots
    Commands,      \* commands of the requests, members of CommandType
    Errors,        \* errors the validators report, members of ErrorType
    Torn,          \* a state file truncated or overwritten in part
    MaxTime,       \* bound of the clock
    Calls,         \* bound of the processes and of what hooks are asked: the
                   \* calls of the first, of the second and so on, by mode,
                   \* TRUE for overlaps
    Faults         \* which file operations on the log may fail, likewise

ASSUME InputAssumption ==
    /\ Commands \subseteq CommandType
    /\ Errors \subseteq ErrorType
    /\ Calls \in [BOOLEAN -> Seq(SUBSET [cmd: Commands, errs: Seq(Errors)])]
    /\ Faults \in [BOOLEAN -> Seq(SUBSET {"rotate", "remove", "write", "rewrite"})]
    /\ Torn # Missing /\ {Torn, Missing} \cap RateState = {}

VARIABLES
    overlaps,  \* chosen at the start: the host runs hooks in parallel, and
               \* the clock may be set back
    now,       \* the clock, in hours
    second,    \* the latest second a backup was named after
    state,     \* exception_state.json: a state, Torn or Missing
    tmp,       \* exception_state.json.tmp, likewise
    dir,       \* the directory of the audit log
    pc,        \* where a process is
    todo,      \* errors still to check
    cmd,       \* the command of a process
    mem,       \* the limiter's state in a process
    fd,        \* name of the file a process has open, NoFile or Gone
    entry,     \* audit entry a process is logging
    copy,      \* what a cleanup keeps of the log, until it replaces it
    used,      \* ghost: uses a process recorded
    run,       \* the number of a process
    runs,      \* processes started
    counted,   \* ghost: uses in a state file that was published
    granted,   \* ghost: uses the host was told of
    missed     \* ghost: uses of which no record was kept; the ghosts are kept
               \* while hooks do not overlap

files == <<state, tmp, dir, fd>>
ghost == <<counted, granted, missed>>
vars  == <<overlaps, now, second, state, tmp, dir, pc, todo, cmd, mem, fd, entry,
           copy, used, run, runs, counted, granted, missed>>

Idle(p) == pc[p] = "idle"

NoFile    == <<"none">>
Gone      == <<"gone">>
TmpFile   == <<"tmp">>
StateFile == <<"state">>
LogFile   == <<"log">>
Backup(s) == <<"backup", s>>

Entry == [run: Nat, left: Nat, code: Code, allowed: BOOLEAN, at: Nat,
          bad: BOOLEAN, long: BOOLEAN, open: BOOLEAN]

ASSUME LogAssumption == Missing \notin Seq(Entry)

\* at: when it was recorded, asked: when it was evaluated
Use == [run: Nat, left: Nat, code: Code, at: Nat, asked: Nat]

NoEntry == [run |-> 0, left |-> 0, code |-> NoCode, allowed |-> FALSE, at |-> 0,
            bad |-> FALSE, long |-> FALSE, open |-> FALSE]

TypeOK ==
    /\ overlaps \in BOOLEAN /\ now \in Nat /\ second \in Nat /\ runs \in Nat
    /\ {state, tmp} \subseteq RateState \cup {Torn, Missing}
    /\ dir.log = Missing \/ dir.log \in Seq(Entry)
    /\ \A s \in DOMAIN dir.backups : s \in 0..second /\ dir.backups[s] \in Seq(Entry)
    /\ pc \in [Proc -> {"idle", "load", "check", "record", "stat", "rotate", "trim", "openlog",
                        "append", "open", "write", "rename", "exit",
                        "prune", "filter", "swap"}]
    /\ todo \in [Proc -> Seq(Errors)]
    /\ \A p \in Proc : todo[p] # <<>> => cmd[p] \in Commands
    /\ mem \in [Proc -> RateState]
    /\ \A p \in Proc : fd[p] \in {NoFile, Gone, TmpFile, StateFile, LogFile}
                              \cup {Backup(s) : s \in 0..second}
    /\ \A p \in Proc : pc[p] \in {"record", "stat", "rotate", "trim", "openlog", "append"} =>
                          entry[p] \in Entry
    /\ copy \in [Proc -> Seq(Entry)]
    /\ \A p \in Proc : used[p] \subseteq Use
    /\ run \in [Proc -> Nat]
    /\ counted \subseteq Use /\ granted \subseteq Use /\ missed \subseteq Use

Init ==
    /\ overlaps \in BOOLEAN
    /\ now = 0 /\ second = 0 /\ runs = 0
    /\ state = Missing /\ tmp = Missing
    /\ dir = NoLog
    /\ pc = [p \in Proc |-> "idle"]
    /\ todo = [p \in Proc |-> <<>>]
    /\ cmd = [p \in Proc |-> Missing]
    /\ mem = [p \in Proc |-> FreshState(0)]
    /\ fd = [p \in Proc |-> NoFile]
    /\ entry = [p \in Proc |-> NoEntry]
    /\ copy = [p \in Proc |-> <<>>]
    /\ used = [p \in Proc |-> {}]
    /\ run = [p \in Proc |-> 0]
    /\ counted = {} /\ granted = {} /\ missed = {}

-----------------------------------------------------------------------------
\* The clock, the host and a person who cleans up

Tick ==
    /\ now < MaxTime
    /\ now' = now + 1
    /\ UNCHANGED <<overlaps, second, files, pc, todo, cmd, mem, entry, copy, used, run, runs,
                   ghost>>

SetBack ==
    /\ overlaps /\ now > 0
    /\ now' = now - 1
    /\ UNCHANGED <<overlaps, second, files, pc, todo, cmd, mem, entry, copy, used, run, runs,
                   ghost>>

Starts(p) ==
    /\ Idle(p)
    /\ runs < Len(Calls[overlaps])
    /\ ~overlaps => \A q \in Proc : Idle(q)
    /\ runs' = runs + 1
    /\ run' = [run EXCEPT ![p] = runs + 1]

(* A hook whose validators reported: those of the call itself first, then   *)
(* those of the files the command writes.                                   *)
Invoke(p) ==
    /\ Starts(p)
    /\ \E call \in Calls[overlaps][runs + 1] :
          /\ call.errs # <<>>
          /\ \A i, j \in DOMAIN call.errs :
                i < j /\ call.errs[j].hooked => call.errs[i].hooked
          /\ cmd' = [cmd EXCEPT ![p] = call.cmd]
          /\ todo' = [todo EXCEPT ![p] = call.errs]
    /\ pc' = [pc EXCEPT ![p] = "load"]
    /\ UNCHANGED <<overlaps, now, second, files, mem, entry, copy, used, ghost>>

\* "audit cleanup", one at a time.
Cleanup(p) ==
    /\ Starts(p)
    /\ \A q \in Proc : pc[q] \notin {"prune", "filter", "swap"}
    /\ pc' = [pc EXCEPT ![p] = "prune"]
    /\ UNCHANGED <<overlaps, now, second, files, todo, cmd, mem, entry, copy, used, ghost>>

-----------------------------------------------------------------------------
\* RateLimiter.Load

(* A missing or unreadable state file leaves the new limiter's state.       *)
LoadState(p) ==
    /\ pc[p] = "load"
    /\ mem' = [mem EXCEPT ![p] = IF state \in {Missing, Torn} THEN FreshState(now)
                                ELSE ResetIfExpired(state, now)]
    /\ pc' = [pc EXCEPT ![p] = "check"]
    /\ UNCHANGED <<overlaps, now, second, files, todo, cmd, entry, copy, used, run, runs,
                   ghost>>

-----------------------------------------------------------------------------
\* Handler.Check, by way of CheckException, for the next error

NewEntry(p, allowed) ==
    LET token == FoundToken(cmd[p])
    IN  [run |-> run[p], left |-> Len(todo[p]), code |-> token.code, allowed |-> allowed,
         at |-> now, bad |-> FALSE, long |-> token.reason = "endless", open |-> FALSE]

Verdict(p) == Evaluate(cmd[p], Head(todo[p]))

\* Nothing in the command is about the error: it stands, unaudited.
Stand(p) ==
    /\ pc[p] = "check" /\ todo[p] # <<>>
    /\ Verdict(p) = "unnamed"
    /\ todo' = [todo EXCEPT ![p] = Tail(@)]
    /\ UNCHANGED <<overlaps, now, second, files, pc, cmd, mem, entry, copy, used, run, runs,
                   ghost>>

\* The policy refuses, and the limits are not looked at.
DenyByPolicy(p) ==
    /\ pc[p] = "check" /\ todo[p] # <<>>
    /\ Verdict(p) = "denied"
    /\ entry' = [entry EXCEPT ![p] = NewEntry(p, FALSE)]
    /\ pc' = [pc EXCEPT ![p] = "stat"]
    /\ UNCHANGED <<overlaps, now, second, files, todo, cmd, mem, copy, used, run, runs, ghost>>

\* RateLimiter.Check, which first brings the windows up to date.
CheckLimits(p) ==
    LET fresh == ResetIfExpired(mem[p], now)
        allowed == Within(fresh, FoundToken(cmd[p]).code)
    IN  /\ pc[p] = "check" /\ todo[p] # <<>>
        /\ Verdict(p) = "allowed"
        /\ mem' = [mem EXCEPT ![p] = fresh]
        /\ entry' = [entry EXCEPT ![p] = NewEntry(p, allowed)]
        /\ pc' = [pc EXCEPT ![p] = IF allowed THEN "record" ELSE "stat"]
        /\ UNCHANGED <<overlaps, now, second, files, todo, cmd, copy, used, run, runs, ghost>>

\* RateLimiter.Record, perhaps in a later window than the check.
RecordUse(p) ==
    /\ pc[p] = "record"
    /\ mem' = [mem EXCEPT ![p] = Record(@, entry[p].code, now)]
    /\ used' = [used EXCEPT ![p] = @ \cup
                   {u \in {[run |-> run[p], left |-> Len(todo[p]), code |-> entry[p].code,
                            at |-> now, asked |-> entry[p].at]} : ~overlaps}]
    /\ pc' = [pc EXCEPT ![p] = "stat"]
    /\ UNCHANGED <<overlaps, now, second, files, todo, cmd, entry, copy, run, runs, ghost>>

-----------------------------------------------------------------------------
(* AuditLogger.Log.  Every call to the file system may fail.  logAuditEntry *)
(* only reports what Log returns: the answer to the host does not change.   *)

MayFail(p, operation) == operation \in Faults[overlaps][run[p]]

\* A log that is full is not rotated when its size cannot be had.
StatLog(p) ==
    /\ pc[p] = "stat"
    /\ \/ IsFull(dir) /\ pc' = [pc EXCEPT ![p] = "rotate"]
       \/ /\ ~IsFull(dir) \/ MayFail(p, "rotate")
          /\ pc' = [pc EXCEPT ![p] = "openlog"]
    /\ UNCHANGED <<overlaps, now, second, files, todo, cmd, mem, entry, copy, used, run, runs,
                   ghost>>

\* The descriptors after a file took a name, and another its name away.
Renamed(from, to) ==
    [q \in Proc |-> CASE fd[q] = from -> to
                      [] fd[q] = to /\ fd[q] # from -> Gone
                      [] OTHER -> fd[q]]

\* The uses that lines are about.
About(uses, lines) ==
    {u \in uses : \E line \in ToSet(lines) : line.run = u.run /\ line.left = u.left}

(* rotateLocked: two rotations of one second have the same backup, and the  *)
(* first is lost.  The log may have been taken away, or the rename fail:    *)
(* Log goes on to append to what is there.                                  *)
RotateLog(p) ==
    /\ pc[p] = "rotate"
    /\ \/ /\ Exists(dir)
          /\ second' \in {second + 1} \cup ({second} \cap DOMAIN dir.backups)
          /\ dir' = Rotated(dir, second')
          /\ fd' = Renamed(LogFile, Backup(second'))
          /\ missed' = missed \cup
                 (IF second' \in DOMAIN dir.backups
                  THEN About(granted \cup used[p], dir.backups[second']) ELSE {})
          /\ pc' = [pc EXCEPT ![p] = "trim"]
       \/ /\ ~Exists(dir) \/ MayFail(p, "rotate")
          /\ pc' = [pc EXCEPT ![p] = "openlog"]
          /\ UNCHANGED <<second, dir, fd, missed>>
    /\ UNCHANGED <<overlaps, now, state, tmp, todo, cmd, mem, entry, copy, used, run, runs,
                   counted, granted>>

\* The descriptors of removed backups lead nowhere.
Removed(names) == [q \in Proc |-> IF fd[q] \in names THEN Gone ELSE fd[q]]

(* cleanupBackupsLocked, after a rotation and at the start of a cleanup,    *)
(* which ends when the directory cannot be read.                            *)
TrimBackups(p) ==
    /\ pc[p] \in {"trim", "prune"}
    /\ \E removed \in SUBSET Excess(dir) :
          /\ removed = Excess(dir) \/ MayFail(p, "remove")
          /\ dir' = Trimmed(dir, removed)
          /\ fd' = Removed({Backup(s) : s \in removed})
          /\ \/ pc' = [pc EXCEPT ![p] = IF @ = "trim" THEN "openlog" ELSE "filter"]
             \/ /\ pc[p] = "prune" /\ removed = {} /\ MayFail(p, "remove")
                /\ pc' = [pc EXCEPT ![p] = "exit"]
    /\ UNCHANGED <<overlaps, now, second, state, tmp, todo, cmd, mem, entry, copy, used, run,
                   runs, ghost>>

\* Log returns: the next error.
Logged(p) ==
    /\ entry' = [entry EXCEPT ![p] = NoEntry]
    /\ todo' = [todo EXCEPT ![p] = Tail(@)]
    /\ pc' = [pc EXCEPT ![p] = "check"]

\* The use that a process is logging.
Own(p) == {u \in used[p] : u.left = Len(todo[p])}

\* MkdirAll and OpenFile, with O_APPEND and O_CREATE
OpenLog(p) ==
    /\ pc[p] = "openlog"
    /\ \/ /\ dir' = [dir EXCEPT !.log = IF @ = Missing THEN <<>> ELSE @]
          /\ fd' = [fd EXCEPT ![p] = LogFile]
          /\ pc' = [pc EXCEPT ![p] = "append"]
          /\ UNCHANGED <<todo, entry, missed>>
       \/ /\ MayFail(p, "write")
          /\ Logged(p)
          /\ missed' = missed \cup Own(p)
          /\ UNCHANGED <<dir, fd>>
    /\ UNCHANGED <<overlaps, now, second, state, tmp, cmd, mem, copy, used, run, runs, counted,
                   granted>>

\* The lines of the file that a process has open, wherever that is by now.
Opened(p) == IF fd[p] = LogFile THEN dir.log ELSE dir.backups[fd[p][2]]

(* A line that is written whole can be read, unless it goes to the end of a *)
(* cut one, or is or comes after one that is too long.                      *)
Readable(lines, line) ==
    /\ ~CutOff(lines)
    /\ \A l \in ToSet(lines) \cup {line} : ~l.long

(* The entry, or what a write that fails leaves of it, goes to the end of   *)
(* the opened file.                                                         *)
AppendEntry(p) ==
    /\ pc[p] = "append"
    /\ \/ /\ fd[p] # Gone
          /\ \E line \in {entry[p]} \cup Cut(entry[p]) :
                LET lines == Added(Opened(p), line)
                IN  /\ line = entry[p] \/ MayFail(p, "write")
                    /\ dir' = IF fd[p] = LogFile THEN [dir EXCEPT !.log = lines]
                              ELSE [dir EXCEPT !.backups[fd[p][2]] = lines]
                    /\ missed' = IF line = entry[p] /\ Readable(Opened(p), line) THEN missed
                                 ELSE missed \cup Own(p)
       \/ /\ fd[p] = Gone \/ MayFail(p, "write")
          /\ dir' = dir /\ missed' = missed \cup Own(p)
    /\ fd' = [fd EXCEPT ![p] = NoFile]
    /\ Logged(p)
    /\ UNCHANGED <<overlaps, now, second, state, tmp, cmd, mem, copy, used, run, runs, counted,
                   granted>>

-----------------------------------------------------------------------------
\* RateLimiter.Save

OpenState(p) ==
    /\ pc[p] = "check" /\ todo[p] = <<>>
    /\ tmp' = Torn
    /\ fd' = [fd EXCEPT ![p] = TmpFile]
    /\ pc' = [pc EXCEPT ![p] = "write"]
    /\ UNCHANGED <<overlaps, now, second, state, dir, todo, cmd, mem, entry, copy, used, run,
                   runs, ghost>>

(* Over the bytes of another process the result is this state, or this      *)
(* state and the tail of a longer one.                                      *)
WriteState(p) ==
    LET written(old) == {mem[p]} \cup (IF old = Torn THEN {} ELSE {Torn})
    IN  /\ pc[p] = "write"
        /\ \/ fd[p] = TmpFile /\ tmp' \in written(tmp) /\ UNCHANGED state
           \/ fd[p] = StateFile /\ state' \in written(state) /\ UNCHANGED tmp
           \/ fd[p] = Gone /\ UNCHANGED <<state, tmp>>
        /\ fd' = [fd EXCEPT ![p] = NoFile]
        /\ pc' = [pc EXCEPT ![p] = "rename"]
        /\ UNCHANGED <<overlaps, now, second, dir, todo, cmd, mem, entry, copy, used, run, runs,
                       ghost>>

(* The rename fails when another process took the temporary file; Save then *)
(* removes the name, which leads to nothing, and the error is logged.       *)
RenameState(p) ==
    /\ pc[p] = "rename"
    /\ IF tmp = Missing
       THEN UNCHANGED <<state, tmp, fd, counted>>
       ELSE /\ state' = tmp /\ tmp' = Missing
            /\ fd' = Renamed(TmpFile, StateFile)
            /\ counted' = counted \cup used[p]
    /\ pc' = [pc EXCEPT ![p] = "exit"]
    /\ UNCHANGED <<overlaps, now, second, dir, todo, cmd, mem, entry, copy, used, run, runs,
                   granted, missed>>

-----------------------------------------------------------------------------
\* The end of a process

Forget(p) ==
    /\ pc' = [pc EXCEPT ![p] = "idle"]
    /\ todo' = [todo EXCEPT ![p] = <<>>]
    /\ cmd' = [cmd EXCEPT ![p] = Missing]
    /\ mem' = [mem EXCEPT ![p] = FreshState(0)]
    /\ fd' = [fd EXCEPT ![p] = NoFile]
    /\ entry' = [entry EXCEPT ![p] = NoEntry]
    /\ copy' = [copy EXCEPT ![p] = <<>>]
    /\ used' = [used EXCEPT ![p] = {}]
    /\ run' = [run EXCEPT ![p] = 0]
    /\ UNCHANGED <<overlaps, now, second, state, tmp, dir, runs, counted, missed>>

Exit(p) ==
    /\ pc[p] = "exit"
    /\ granted' = granted \cup used[p]
    /\ Forget(p)

\* The process is killed; the host gets no answer.
Crash(p) ==
    /\ ~Idle(p)
    /\ Forget(p)
    /\ UNCHANGED granted

-----------------------------------------------------------------------------
\* cleanupOldEntriesLocked

(* What is to remain is kept in mind until the log is replaced by it.  The  *)
(* cleanup ends here when nothing is old or the log cannot be opened.       *)
FilterLog(p) ==
    /\ pc[p] = "filter"
    /\ LET lines == IF Exists(dir) THEN dir.log ELSE <<>>
       IN  \/ /\ NeedsRewrite(lines, now)
              /\ pc' = [pc EXCEPT ![p] = "swap"]
              /\ copy' = [copy EXCEPT ![p] = Filtered(lines, now)]
           \/ /\ ~NeedsRewrite(lines, now) \/ MayFail(p, "rewrite")
              /\ pc' = [pc EXCEPT ![p] = "exit"]
              /\ UNCHANGED copy
    /\ UNCHANGED <<overlaps, now, second, files, todo, cmd, mem, entry, used, run, runs, ghost>>

(* writeFilteredEntries: the copy takes the name of the log, which stays as *)
(* it was when the copy cannot be made.                                     *)
SwapLog(p) ==
    /\ pc[p] = "swap"
    /\ \/ dir' = [dir EXCEPT !.log = copy[p]] /\ fd' = Removed({LogFile})
       \/ MayFail(p, "rewrite") /\ UNCHANGED <<dir, fd>>
    /\ copy' = [copy EXCEPT ![p] = <<>>]
    /\ pc' = [pc EXCEPT ![p] = "exit"]
    /\ UNCHANGED <<overlaps, now, second, state, tmp, todo, cmd, mem, entry, used, run, runs,
                   ghost>>

Step(p) ==
    \/ Invoke(p) \/ Cleanup(p) \/ LoadState(p)
    \/ Stand(p) \/ DenyByPolicy(p) \/ CheckLimits(p) \/ RecordUse(p)
    \/ StatLog(p) \/ RotateLog(p) \/ TrimBackups(p) \/ OpenLog(p) \/ AppendEntry(p)
    \/ OpenState(p) \/ WriteState(p) \/ RenameState(p)
    \/ FilterLog(p) \/ SwapLog(p)
    \/ Exit(p) \/ Crash(p)

Next == Tick \/ SetBack \/ \E p \in Proc : Step(p)

Spec == Init /\ [][Next]_vars
-----------------------------------------------------------------------------
\* Properties

InHour(uses, h) == {u \in uses : HourOf(u.at) = h}
InDay(uses, d)  == {u \in uses : DayOf(u.at) = d}
OfCode(uses, c) == {u \in uses : u.code = c}

Exceeds(uses, limit) == limit # 0 /\ Cardinality(uses) > limit
Reaches(uses, limit) == limit # 0 /\ Cardinality(uses) >= limit

(* Whatever crashes, and however the clock runs between a check and the     *)
(* record: in no hour and on no day were more exceptions granted than the   *)
(* global limits and those of the code's policy allow                       *)
(* (docs/EXCEPTIONS_GUIDE.md:25), when hooks do not overlap.                *)
LimitsKept ==
    ~overlaps /\ RateEnabled =>
        \A u \in granted :
            LET hour == InHour(granted, HourOf(u.at))
                day  == InDay(granted, DayOf(u.at))
            IN  /\ ~Exceeds(hour, MaxPerHour)
                /\ ~Exceeds(day, MaxPerDay)
                /\ ~Exceeds(OfCode(hour, u.code), PolicyOf(u.code).perHour)
                /\ ~Exceeds(OfCode(day, u.code), PolicyOf(u.code).perDay)

(* A limit refuses an exception only for uses of the current hour or day    *)
(* that are on record: windows that are over are forgotten.                 *)
RefusesOnlyWhenSpent ==
    [][\A p \in Proc :
          ~overlaps /\ CheckLimits(p) /\ ~entry'[p].allowed =>
              LET c == entry'[p].code
                  hour == InHour(counted \cup used[p], HourOf(now))
                  day  == InDay(counted \cup used[p], DayOf(now))
              IN  \/ Reaches(hour, MaxPerHour)
                  \/ Reaches(day, MaxPerDay)
                  \/ Reaches(OfCode(hour, c), PolicyOf(c).perHour)
                  \/ Reaches(OfCode(day, c), PolicyOf(c).perDay)]_vars

States == {mem[p] : p \in Proc} \cup ({state, tmp} \ {Torn, Missing})

Nested(st) ==
    /\ DayOf(st.hour) = st.day
    /\ st.hourly.all =< st.daily.all
    /\ \A c \in Code : st.hourly.of[c] =< st.daily.of[c]

(* In every state a process or a file holds the hour is one of the day, and *)
(* no hourly count is above its daily one, also when processes overlap and  *)
(* the clock is set back.                                                   *)
HourWithinDay == \A st \in States : Nested(st)

Later(e, u) == e.run > u.run \/ (e.run = u.run /\ e.left < u.left)

(* Rotation, trimming, cleaning, failures and crashes in any of them lose   *)
(* no record of an exception the host was told of: it can be read in the    *)
(* log or a backup, it is of age, or MaxBackups backups of later entries    *)
(* pushed it out.  Left out are the uses in missed, which the host is told  *)
(* of all the same: the entry could not be written, it went behind a cut    *)
(* line, it is or it went behind a line too long for the scanner, or a      *)
(* rotation of the same second replaced the backup it was in.               *)
GrantsAudited ==
    ~overlaps =>
        \A u \in granted \ missed :
            \/ \E e \in Kept(dir) : e.run = u.run /\ e.left = u.left /\ e.allowed
            \/ u.asked =< now - MaxAge
            \/ Cardinality({s \in DOMAIN dir.backups :
                               \A e \in ToSet(dir.backups[s]) : Later(e, u)}) >= MaxBackups
=============================================================================
