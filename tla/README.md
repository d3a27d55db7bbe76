# Verification of klaudiush

klaudiush is a binary that Claude Code runs as a hook before and after its tool
calls. It parses the call from its input, runs validators on it, and tells the
host by its exit status whether the call may go ahead. This directory holds TLA+
modules for the parts of it that keep state or run concurrently, the TLC
configurations that check them on small instances, and TLAPS proofs about them.

Paths below are relative to the repository. `tlc -config X.cfg M` checks a
configuration, `tlapm M.tla` the proofs of a module whose name ends in `Proofs`.
`PROJECT.json` lists the components, the runs, the lines
every definition models, and the hazards the properties are aimed at.

## The system and its parts

| Part | Source | State | What makes it correct |
|---|---|---|---|
| hook process | `cmd/klaudiush/main.go` | one process per tool call; loads and saves the session state | the answer follows from the validators and from the session; a crash loses at most its own update |
| session tracking | `internal/session` (tracker, persistence, state) | a map of sessions in memory and in `session_state.json`, written through one shared `.tmp` file | a session that was blocked refuses later commands until it is released or expires; nothing is refused that was not blocked; the file is whole |
| unpoison tokens | `internal/session/unpoison.go`, `internal/dispatcher/session_error.go` | none | the session opens to exactly the commands that acknowledge all its codes; the token printed works |
| dispatcher | `internal/dispatcher` | none of its own | gate before validators, poison after a block, count after a pass |
| executors | `internal/dispatcher/executor.go` | semaphores, wait group, results under a mutex | every failure is reported once, permits are conserved, Execute returns, nothing runs after it |
| configuration | `internal/config`, `pkg/config` | five sources, merged at the start of a process | the last source to speak of a setting decides it |
| rule engine | `internal/rules` | rules sorted by priority | of the rules that match, the first decides |
| registry, validators | `internal/validator`, `internal/config/factory`, `internal/validators`, `pkg/parser` | the git runner's answers of one process | what an allowed call does obeys the settings; what is refused deserves it |
| exception workflow | `internal/exceptions`, `internal/dispatcher/exception.go` | rate limits with a state file, audit log with backups | no more exceptions than the limits allow, none refused without cause, each on record |
| plugins | `internal/plugin`, `internal/config/factory/plugin_factory.go` | loaded plugins, gRPC connection pool | one connection per address, closed for good; silence is not consent; every call ends |
| configuration backup | `internal/backup`, `cmd/klaudiush/backup.go`, `internal/config/writer.go`, `cmd/klaudiush/init.go` | snapshot files and `metadata.json` per storage, the configuration file | what is listed can be restored; what is overwritten was backed up; retention drops the oldest and no more than it must |
| session audit log | `internal/session/audit.go` | as the exceptions' | no entry lost but by the limits |
| linters, git and GitHub access, crash dumps, doctor, texts | the rest of `internal`, `pkg`, `cmd` | files written once, answers of other programs | I/O |

Interaction: the host starts a process per call. `run` builds the tracker and
the dispatcher, `Dispatch` asks the tracker, hands the matching validators to an
executor and writes the outcome back to the tracker, `run` saves the state and
prints the answer. Processes meet only in files: the session state, the backup
storage, the logs. Inside a process only the executor's goroutines and an
asynchronous backup run concurrently.

Hard behaviour: hook processes of parallel tool calls and of several sessions
overlap with no lock on any file; a process may die anywhere (panic, the host's
timeout); files are truncated and written in two steps; the temporary file's
name is shared; indexes and counters are loaded, changed and saved whole;
validators race with the end of their context; a verdict is about the repository
and the files as they were when they were read; a command line holds several
commands, and its flags may be joined, repeated or spelt out; a linter sees a
fragment of the file; plugins fail, time out, or are closed under a caller.

## Modules

    UnpoisonToken   what a command says about unpoisoning
      SessionState    one entry, one map of sessions, and the tracker's operations on it
        HookRun         hook processes over the state file, its temporary and the gate
          HookRunMC       constants for TLC
          HookRunProofs   theorems about hooks however they overlap
            HookRunGateProofs   theorems about the gate, and about hooks one at a time
    SessionGate     what session tracking promises (abstract; HookRun instantiates it)
    Execution       what an executor promises (abstract; Executor instantiates it)
      Executor        both executors, goroutine by goroutine
        ExecutorMC      constants for TLC
        ExecutorProofs  theorems
    ShellCommands   what the parsers make of a command line
    CommitMessage   the rules of a commit message and the reference they report
      GitValidators, GitHubValidators, ShellValidators    validators of command lines
    EditFragment    the part of a file around an edit
      FileValidators  validators of writes and edits
    Rules           which rule decides about a call
      Settings        what the sources of the configuration come to
        Gate            hook processes with all of these, and what allowed calls do
          GateMC          constants for TLC: the scenes
          GateProofs      theorems
    ExceptionPolicy tokens, and which errors they may turn into warnings
      RateLimit       uses per hour and day
    AuditLog        log, backups, rotation and cleanup
        Exceptions      processes over the state file and the log (with both above)
          ExceptionsMC    constants for TLC
          ExceptionsProofs  theorems about types and limits
            ExceptionsAuditProofs  theorem about the log
    PluginLoaders   which plugins load, which a call concerns, what their answers come to
      Plugins         goroutines that load and ask plugins, and the loader's Close
        PluginsMC       constants for TLC
        PluginsProofs   theorems
    Retention       retention policies, a prune and its preview, as operators
      Backup          commands over one backup storage and the configuration file
        BackupMC        constants for TLC
        BackupProofs    theorems

**UnpoisonToken.** A command is what the parser sees of it: the tokens in
assignments and comments, whether it parses, whether it is a Bash command. A
code is a value of one of three kinds (accepted by the parser's pattern, refused
by it, empty), and a token is a prefix and codes. `Releases` is
`Dispatcher.checkUnpoisonAcknowledgment`, `Advertised` the token the refusal
prints.

**SessionState.** `Poison`, `Unpoison`, `RecordCommand`, `Cleanup`, `IsPoisoned`
are the tracker's methods as functions from a map and the time to a map. An
expired entry stays in the map until a load cleans it up, as in the code.

**HookRun.** A process goes load, gate, validate, open, write, rename, exit; the
names are those of `pc`. The file system is modelled by inodes, because a
process goes on writing to a temporary file that another has renamed: `path` and
`tmp` are the two names, `disk` the contents, `fd` the open descriptors. A
truncated file is `Empty`; a write over bytes of another process may leave
`Corrupt`; both fail to parse, and `Load` then starts from the empty state, as
the code does. `Faults` selects read errors, write errors and crashes. Ghosts:
`earned`, all poisonings ever performed; `debt`, those the host was told of and
that were not released; `due`, the debts a process found when it started.

**SessionGate** is the promise: each session has a gate, open or closed by a
poisoning, and a request changes only its own session's gate, in one step, by
the rules of the guide.

**Executor.** Goroutines take a permit of their validator's pool or give up when
the context ends, run, take the mutex, append a failure, leave the wait group.
`Execution` is the abstract specification: one Execute call that reports every
failure of the validators that ran, and any subset only of them when the context
was cancelled.

**Gate.** Where HookRun takes the verdict of a call as given, Gate is about the
verdict. `Ask` is the host starting a process; `Start` loads the configuration
and builds the registry (`Settings.Load`, `Registered`); `Jobs` are the places in
the order of the dispatch, the call first (0) and then each file it writes, the
validators of each in the order of the registry; `Validate` is the first of those
left, one validator, which reads the repositories and the file at that moment and
keeps what the shared git runner caches (`Answers`); `Answer` is the verdict.
The commands of an allowed line run one after the other: `Perform` is the next
one (`ReposAfter`, `FilesAfter`), `Stop` the one that fails, and between them
other hooks judge and other calls run. What a call does is written beside it in
the scene (`does`), apart from its words, so the properties compare the words the
parsers read with effects they do not see. Two hooks run at once, and
`EditSettings` changes the configuration under them. A text is a record of what
the rules and expressions find in it; a script is what the shell parser returns:
its calls in order, each with words that are plain, quoted, joined flags, or
flags with a value. `wired` selects the registry with the rule engine
(`BuildWithRuleEngine`) or the one main builds. `SceneAssumption` says what a
scene is; further predicates on scenes and linters (`Plainly`, `Worded`, `Filed`,
`Understood`, `Excused`, `Contained`) are what single theorems assume, and
`PlainScenes` and `PlainLinters` of GateMC have TLC evaluate them on the scenes of
the runs.

**ShellCommands**, **CommitMessage** and the validators translate the parsers
and the checks of each validator in their order, down to the reference code
reported; **EditFragment** is the fragment of an edit with its context lines;
**Settings** lays the global file, the project's, the variables and the flags
over the defaults, field by field, merges the rules by name and refuses what
validation refuses; **Rules** has matchers, patterns, priorities and the
adapter.

**Exceptions.** A hook loads the rate limit state, takes the errors one by one
through token, policy and limit (`Check`), records an allowed use and logs it,
saves the state through a temporary file and exits. The log is rotated when
full, trimmed, opened and appended in steps of their own; `Cleanup` is "audit
cleanup". Any process may be killed at any step, and `Faults` says of each
process which operations on the log may fail: the look at its size and the
rename, the removal of backups, the open and the write (in the middle of a line
too, after which the next entry is glued to what is there), the copy of a
cleanup. None of them changes the answer to the host, as in `logAuditEntry`. The
state `overlaps` selects, at the start of a behaviour, between one process at a
time and hooks that overlap under a clock that may be set back. Ghosts:
`granted`, uses the host was told of; `counted`, uses in a published state;
`missed`, uses of which no record that can be read was kept: the entry could not
be written or was cut, went behind a cut line, is or went behind a line too long
for the scanner that reads the log, or was in a backup that a rotation of the
same second replaced. The hook's load and save of the state are external to the
handler; main wires neither in, and they are placed where the session state's
are. The state's save may be cut short by a kill, and its rename lost to another
hook; other failures of it are not modelled. Auditing is taken to be enabled.

**Plugins.** A goroutine loads its configured plugins one after the other, then
is asked about a call and asks in turn the plugins the call concerns. The gRPC
loader's critical sections are the steps: the look under the read lock
(`Lookup`), the creation under the write lock with its double check (`Create`),
and `Close`, which holds the lock while it closes one connection after the
other. `Reply` is any answer of a plugin, `CallFails` an error, a closed
connection or a bad answer, `TimesOut` the timeout. In the hook one goroutine
loads the plugins and nothing calls `Close`; the loader's lock is there for
more, and the model has them.

**Backup.** A command is a process with two control states: `pc` for the command
and `bpc` for its call of `CreateBackup` (or `SaveIndex`), because the
asynchronous writer goes on while the call runs. Snapshots are identified by the
instant they are made at. `Failing` selects the operations that may be killed at
any step or whose saves may fail. The storage belongs to the user's
configuration (`Global`) or to a project; only the delete command tells them
apart. **Retention** holds the count, age and size policies over chains,
`ToRemove` (what a prune removes) and `Preview` (what the dry run lists), and
`Retained`, a reference definition of what retention is for, written
independently of the policies.

## Runs

| Run | Question | Result |
|---|---|---|
| `hookrun_concurrent` | two overlapping hooks of a session, crashes, all faults: are poisons and refusals ever made up? | no: `PoisonIsEarned`, `RefusalIsEarned` |
| `hookrun_exclusive` | hooks of two sessions one at a time, crashes: is tracking the gate the guide promises? | yes: `KeepsGate` (refinement of SessionGate), `NoCommandPastPoison`, `KeyNeeded`, `AdvertisedTokenUnlocks`, `PublishedIsWhole` |
| `hookrun_lost_poison` | two overlapping hooks, no fault | violated: a save overwrites another session's poison |
| `executor` | both executors, two pools, cancellation | holds: `Implements` (refinement of Execution), `PoolsBounded`, `QuietAfterReturn`, `Returns` |
| `gate` | two hooks, changing settings and repositories: does what is allowed obey the settings, and is what is refused refused for a reason? | holds: `MessagesConform`, `ChainsAreClear`, `PushesAvoidBlocked`, `CleanStaysClean` of what allowed calls do; `CleanEditsPass`, `DisabledAreSilent`, `RulesObeyed` of refusals |
| `gate_rules` | the registry as main builds it | violated: no rule ever decides |
| `exceptions` | exceptions and cleanups, killed anywhere, with failing operations on the log, overlapping or not | holds: `LimitsKept`, `RefusesOnlyWhenSpent`, `GrantsAudited` of hooks one at a time, `HourWithinDay` also of overlapping ones |
| `plugins` | shared loader, Close at any time, plugins that answer anything or nothing | holds: `OneConnection`, `NothingLeftOpen`, `SilenceIsNoConsent`, `EveryCallEnds` |
| `plugins_failed_load` | one plugin of two does not load | violated: the other is not asked |
| `backup_exclusive` | all commands one at a time, all but delete and prune killed anywhere | holds: `OverwriteIsBackedUp`, `ChainsAlone`, `PruneIsExact`, `PreviewIsPrune` |
| `backup_concurrent` | overlapping, killed backups, asynchronous writes and restores | holds: whatever the index lists can be restored |
| `backup_global_delete` | delete of a global snapshot, then a restore | violated: a restore destroys the only copy |

The violated runs are disagreements between the code and its documents; the
findings in `PROJECT.json` quote both sides. Smaller ones, which the properties
leave out by name, are in the notes of the hazards: among them a block without a
reference (its poison opens to any command), a plugin's code the token parser
does not accept, an executor pool of size zero, a dry run that misses snapshots
only too large together, a Python edit refused for a name its fragment does not
define, and the messages of all but the first commit of a line. Three more:

- A granted exception may have no record, though `docs/EXCEPTIONS_GUIDE.md:34`
  calls the log one of all attempts: `logAuditEntry` drops the error of a failed
  write, and the exception is granted all the same. `GrantsAudited` leaves out
  such uses (`missed`).
- A line too long for the scanner hides what comes after it. `audit list` shows
  nothing while one is in the log, and `filterEntries` never asks the scanner for
  its error, so that a cleanup that finds something old before such a line drops
  it and all behind it. The reason `Endless` of the run makes one; `missed` has
  the uses concerned.
- A variable that speaks of `no_verify`, or of any key with an underscore, sets a
  key nothing reads, and `--disable` ignores the names that are not in its table,
  such as `fetch`. `README.md:332-333,368,434-436` promise that both work.
  `DisabledAreSilent` leaves out the validators they speak of (`Unheard`); the
  scenes of the run have both, and without the exclusion the property fails.

Bounds and why they are enough. HookRun: two processes are the fewest that
overlap, three runs let one poison, one overwrite and one be judged, two
sessions or one session with two codes, three inodes (the file, the temporary
and one still open), time up to 2 with a session age of 1 so that both sides of
the expiry limit occur. Executor: three validators, two in one pool of size 1
and one in another, so that waiting, parallelism and cancellation in between all
happen. Gate: eight scenes, each with the calls whose interplay is in question:
commits and staging in chains, remotes, branches, scripts, other files,
workflows, gh commands, and rules. Two hooks are enough for a verdict to be
about a state the other changes; configurations are the defaults and the ones
that move a limit, disable, break or override. The scene is chosen in `Init`, so
calls of different scenes do not mix; they read no common state. Exceptions:
limits of two an hour and three a day, a policy of its own for one code, a clock
of one day boundary, a log of one entry and one backup, so that every append
rotates and every rotation trims. `Calls` and `Faults` are given process by
process: one at a time there are three, the first of which may write half a
line, the second leave the log unrotated or backups in place, and the third give
up a rotation or a cleanup; at once there are two without faults, since only
`HourWithinDay` and the types speak of them and neither depends on the log's
faults. Each may be a cleanup instead. Plugins:
two goroutines, three connections for two addresses, plans that put both
goroutines on one address, mix all loaders, or fail to load; answers of every
kind. Backup: four instants and three contents against limits of two snapshots,
age 2 and size 3 let each policy be the binding one; five commands are enough to
back up, overwrite, delete, prune and back up again. The concurrent run has two
processes, three commands and two snapshots. Deadlock is not checked where the
host or the user may stop starting processes, or where the bounds stop them.

Fairness. Two modules have liveness. Executor (`Returns`): weak fairness of the
goroutines' steps, which the Go scheduler gives to runnable goroutines, and of
permits and the mutex; validators are assumed to end, since each of them has a
timeout or is a pure function; the context is not assumed to end. Plugins
(`EveryCallEnds`): weak fairness of a goroutine's own steps (`Proceeds`) and of
a `Close` that has begun. Programs and servers need never answer: the timeouts,
which the loaders set for them, are among the goroutine's steps. A Go plugin
runs in the goroutine itself without a timeout and is assumed to return.

## Proofs

Every theorem is for all values of the constants that satisfy the named ASSUMEs
of the modules, which TLC evaluates in the runs. What a theorem assumes beyond
them stands in its statement and is explained here. An invariant that a run
checks is seldom inductive; each module defines the stronger one it needs before
the lemmas, one lemma per action keeps it, and the theorems follow.

`HookRunProofs`, with overlapping hooks, torn files and all faults:

- `TypeCorrect`: `Spec => []TypeOK`.
- `PoisonEarnedAlways`: `Spec => []PoisonIsEarned`. No interleaving, torn file
  or crash makes up a poison or moves its time.
- `RefusalEarnedAlways`: `Spec => RefusalIsEarned`. A refusal rests on a block
  of that session with the codes it names and no older than the limit.

`TypeOK` is not inductive, since `Exit` reads the entry of a session that
blocked; `TypeInv` adds `BlockIsPoison` (a process that will answer "block" for a
session holds the poisoned entry). `PoisonIsEarned` needs to know what memory a
refusal was taken from; `EarnedInv` is `TypeInv`, `PastGate` (a process that runs
its validators holds no live poison of its session in memory, so counting the
command cannot renew one) and `PoisonIsEarned`.

`HookRunGateProofs`:

- `KeyAlwaysNeeded`, `AdvertisedTokenAlwaysUnlocks`: `KeyNeeded` and
  `AdvertisedTokenUnlocks`, with overlapping hooks and all faults (the runs have
  them one at a time). The first assumes that blocking reports have codes, the
  second that their codes are ones a token can carry. Both are needed: a block
  without a reference makes a poison any command opens, and a code the token
  parser does not accept one that no token opens (see the hazards). The argument
  is about the search for a token: the candidate `Releases` finds is written in
  the command (`CandidateIsWritten`), and the advertised token is found
  (`AdvertisedReleases`); that the codes of a poison are those of a report comes
  from `PoisonEarnedAlways`.
- `PublishedAlwaysWhole`: `PublishedIsWhole`, for `Exclusive` hooks. The
  invariant `FileInv` follows the temporary file: open only in "write", empty
  then, a whole state in "rename", and never the inode of the state file.
- `NoCommandEverPastPoison`: `NoCommandPastPoison`, for `Exclusive` hooks and a
  file that can be read and written. `DebtInv` says that the published map
  remembers every poisoning the host was told of that is neither released nor
  lapsed, that so does the memory of the one hook at work, and that a hook past
  the gate owes none for its session. Without the assumption it is false as it
  should be: a hook that cannot read the state starts from the empty one, and
  one that cannot save tells the host of a poisoning no file has.
- `HooksKeepGate`: `KeepsGate`, the refinement of SessionGate, for `Exclusive`
  hooks and a file that can be read. Only `Rename` changes what the published
  map says of a gate, and maps to the abstract `Settle`; `SettleInv` says why
  that is a legal step by then: the hook at work changed the gate of its own
  session alone, and only after its command could pass it.

`ExecutorProofs`, for any number of validators, categories and pool sizes:

- `TypeCorrect`, `PoolsAlwaysBounded`, `NothingLeftBehind`: `TypeOK`,
  `PoolsBounded` and `QuietAfterReturn`, always.
- `ExecutorsImplementExecution`: `Spec => Implements`. Both executors refine
  Execution, step by step: the end of a validator is `Judge`, the return `Reply`,
  the rest stutters.

The inductive invariant counts: the wait group is the number of live goroutines
(`CountInv`), a pool's permits out are those of the goroutines inside it
(`HeldInv`), the results name the failing validators but those that have yet to
append (`ResultsInv`), and a goroutine that read the slice under the mutex still
has it as it is (`MutexInv`). Sets of validators change by one at a step, which
the lemmas on cardinality turn into plus or minus one.

`BackupProofs`:

- `TypeCorrect`, `ChainsAlwaysAlone`: `TypeOK` and `ChainsAlone`, with commands
  that overlap, are killed and remove. The invariant is that the index and every
  copy of it in memory is `Sound`: chains are no more than the instants so far,
  so that the next chain number is new.
- `ListedAlwaysRestorable`: `ListedIsRestorable`, if nothing is removed
  (`Unremoved`: any overlap and kill), or if commands run one at a time on a
  project's storage and removals are not cut short (`Orderly`). A removal deletes
  the file before it saves the index, so a killed one leaves a listed snapshot
  without its file: the code gives no more than this. `FilesInv` says of each
  process which snapshot it has yet to write and which it has yet to drop from
  the index.
- `OverwriteAlwaysBackedUp`: `OverwriteIsBackedUp`, if commands are `Orderly`
  (the run `backup_global_delete` shows why not on the user's storage). `Marked`
  says that the three marks of an absent, empty or torn index are no sets of
  snapshots, as the model's notation wants. `BackedInv` follows the content from
  the read in CreateBackup to the truncation.
- `PruneAlwaysExact`, `PreviewAlwaysPrune`: `PruneIsExact` and `PreviewIsPrune`,
  without any assumption. Each policy judges one snapshot by itself, the size
  policy by what is left once all older chains are gone; the theorem is that
  together they keep the largest set of newest snapshots within the limits. It
  rests on `TotalSplits` (the size of a set is that of its parts, from the
  definition of the fold), `RetainsIffWithin` (the policies keep a snapshot if
  and only if it fits with all newer ones) and `WithinFewer`.

`ExceptionsProofs`, for all policies, limits and commands:

- `WindowsNested`: `HourWithinDay`, with overlap, crashes and a clock set back.
  `IInv` says that every limiter state in memory or in a file is `Good`: typed,
  its hour within its day, no hourly count above its daily one. A reset of the
  day implies one of the hour (`ResetGood`, from the monotonicity of division),
  and a record adds to both (`RecordGood`).
- `TypeCorrect`: `TypeOK`, with overlap. `TypeInv` adds where a descriptor may
  point, as processes rename and replace the log under each other, and what a
  process holds when it logs. It rests on what `filterEntries` returns for any
  log (`FilteredYoung`).
- `LimitsAlwaysKept`, `RefusalsAlwaysSpent`: `LimitsKept` and
  `RefusesOnlyWhenSpent`, which speak of hooks that do not overlap. In `LimitInv`
  the counters are the cardinalities of the uses in the current hour and day
  (`Accounts`), the published state accounts for the uses that were saved, and
  those are within the limits for every hour and day (`Limited`).

`ExceptionsAuditProofs` proves `GrantsAlwaysAudited`: `Spec => []GrantsAudited`,
for any reasons and any faults. `AuditInv` says that entries in the log are
later than those of any backup and a backup's later than those of an older one
(`Ordered`), and of each use counted that it is in `missed`, on record, of age,
or pushed out by enough backups of later entries (`Audited`). Rotation keeps the
set of entries written but for the backup it replaces, trimming removes none
that is not in excess, an entry written whole behind whole and short ones can be
read, and a cleanup replaces the log by what is young in what it read. What the
theorem does not say is that `missed` stays small: each way into it is a step of
the code, listed above, and no other is.

`GateProofs`, for any number of hooks, any sources, command lines, repositories,
files and linters:

- `DisabledAlwaysSilent`: `Spec => []DisabledAreSilent`. `LastSpeaks` is about the
  four `Overlay`s of `MergedSections`: the section has what the last source that
  speaks of it says. `GateInv` carries that from the load to the answer while
  `EditSettings` changes the sources: what a hook has yet to run and what it
  objects to was left on by the sources it loaded (`under`), unless one of them
  speaks of it in vain. `LeftOn` takes every source at its word, as README.md
  does; where a variable or a flag does not reach the settings (`Unheard`) the
  theorem says nothing, and for the rest `LastSpeaks` gives it. A configuration
  that does not load lets the call go ahead unjudged: there are no objections
  then, and that none is made is no subject of this property. `KeyAssumption` says
  that the word "enabled" has no underscore, which makes it a key the variables
  can set.
- `RulesAlwaysObeyed`: `Spec => []RulesObeyed`, if every source of every scene is
  `Understood`: within a file no two rules share a name, conditions have one
  pattern each and do not ignore case, and the names that occur are ranked. The
  assumption is needed: the loader drops lists of patterns (`Simple`), and of two
  rules of one name keeps one, so that neither decides as it is written. All
  sources of the runs' scenes are. The argument has three parts. Sorting:
  `Before` orders rules of different names (`BeforeIsOrder`), so finitely many of
  them can be put in order (`SortedExists`, by way of a smallest set that could
  not be), and in a list in order the first that matches is the one that comes
  before all others that match (`FirstDecides`). Merging: what `MergeRules` has is
  the project's rules and the global ones it has no name for (`MergedAreBoth`),
  also when a project without rules has the global ones merged with themselves
  (`LoadedRules`), and the engine has the enabled ones of them (`EngineRules`).
  Judging: `RuleInv` says of each validator of the order that the rules answer
  for, that it is silent while its place is still to come, and has objected as
  they say afterwards (`Heeds`). It takes that no validator looks both at a
  command and at a file the command writes (`CallOrWrite`), or the second would
  object where a rule made the first pass.
- `GateTyped`: `Spec => []TypeOK`, if every source is `Understood`
  (what the engine has of the rules is known from `EngineRules`). `WorldInv` has the types of what
  a scene keeps, one command after the other. `ToldInv` is about what a hook is
  told: its jobs are still those of the settings it loaded, and each objection has
  a reference of the validators or of an enabled rule of its own sources
  (`VerdictReferenced`), for which the answers of each validator are followed to
  the code they end in.
- `ChainsStayClear`, `PushesStayAllowed`: `ChainsAreClear` and
  `PushesAvoidBlocked`, if the scenes are `Plainly` (`Truthful`: the parser reads
  in a line what the commands the properties speak of do; `Housed`: hooks run in
  repositories). `MindInv` is the invariant: for each validator of git or gh that
  is on and that no rule answers for, either its job is to come, or it has objected
  if its settings forbid something in the line (`Minds`, `Forbids`), and nothing is
  objected to in an allowed call. What a validator forbids is a statement about
  every command of the line, although `FirstFailure` goes through them one by one
  and stops at the first. For a push, `Knows` says that the hook that looked at the
  branch remembers what it was told, so that the comparison with the repository at
  the time of the push means something; `HousedInv` keeps repositories such that
  the hook gets an answer at all.
- `MessagesStayConform`: `MessagesConform`, if the parsers also read the messages
  in the scenes' lines (`Worded`: joined flags and files are the model's business,
  a message in a variable is not). From the same invariant: an allowed commit has
  no `Faults` under the settings its hook loaded, and each clause of `Conforms` is
  the negation of the rule that looks for it (title, type, scope, length of every
  body line, references, attributions, forbidden patterns; required flags through
  their long forms).
- `CleanEditsAlwaysPass`: `Spec => []CleanEditsPass`, for all texts, edits and
  numbers of context lines. It assumes of the linter only that a part of a text
  that begins and ends with a line has no fault the text has not, except the
  excused ones (`Excused`), and that a script's shell is that of its first line or
  the directive's (`ShellsByLine`). That the fragment is such a part is what the
  lemmas about ExtractEditFragment show (`FragmentIsCut`, from `EditedText`,
  `LineOf` and the lines trimmed at the end): it is cut out of the edited file, or
  out of the old one where the edit only shifts empty lines that are not shown; it
  holds all of the new text in the first case, and it starts after the first line
  exactly when a directive is due (`StartsLater`). `ViewInv` says of every validator of files that
  is done whether it objected to what it read (`Judges`), and that it read a text.
- `CleanAlwaysStaysClean`: `CleanStaysClean`, if hooks see what is written
  (`Filed`) and each new fault of an edited file is one of the fragment, each new
  secret one of the new text (`Contained`). `ViewInv` again; the file may have been
  changed by other hooks since, which is why the property asks that it is still the
  one the validator read (`Comparable`). `FragmentIsCut` gives the fragment that
  `Contained` speaks of, `HandedIsLinted` that the linter does see it, and
  `WriteIsSeen` that a heredoc is judged as a write of its own.

The hypotheses on linters quantify over all texts, as they must where a theorem
is about all texts; a linter that judges line by line satisfies them. They are
needed. An edit that makes a fault a hundred lines away is let through, and a
linter that finds in a fragment what is none in the file (a name defined
elsewhere, unless the excuse is given) refuses it: `FragmentsSuffice` for Python
is such a case and is no property.

`PluginsProofs`, for any number of goroutines, plugins, addresses and
connections:

- `TypeCorrect`: `Spec => []TypeOK`.
- `AtMostOneConnection`, `ClosedForGood`: `Spec => []OneConnection`, `Spec =>
  []NothingLeftOpen`. The invariant is `Records` (each goroutine's record is one
  of the `Good` ones) and `Pooled`: an open connection is the one its address
  has in the pool, and none is open once the loader is closed.
- `NoSilentConsent`: `Spec => []SilenceIsNoConsent`. `Heard` strengthens it:
  each answer a goroutine holds was heard from that plugin, or is the refusal
  that stands for a failure.

Only model-checked: `Returns` and `EveryCallEnds`, since liveness is beyond the
prover, and the runs that end in a violation. Every invariant and action property
and both refinements that a passing run checks are also proved, for all values of
the constants. What the recursive functions and folds of the model compute (the
parsers over command lines, foremost) is an induction over data and is not proved:
where a theorem depends on it, its hypothesis says so.

## What is not modelled, and why

- What regular expressions, globs, linters and the shell grammar find in a text:
  they are constants or fields, and the modules have what the code makes of the
  result. Markdown analysis (`markdown_utils.go`) and the patterns of secrets
  are such findings.
- `Reset`, `GetInfo`, `ClearAll` of the tracker, `RateLimiter.Reset`,
  `AuditLogger.Rotate`, `Remove` and `Clear` of the rule registry: nothing calls
  them.
- `backup create` on the command line chooses its storage by position: it puts a
  project's configuration into the global storage, and finds no manager with
  `--global`. The model's create is the backup itself (first-run migration,
  writer).
- `main` wires in neither the exception checker nor the rule engine, the session
  audit log, the parallel executor and the writer with backups; all but the
  session's log are modelled all the same, since the guides document them. The
  log is the same code as the exceptions'.
- Sessions and verdicts in one machine: HookRun and Gate meet in the set of
  blocking references, which HookRun takes to be any.
- Crash dumps, doctor, listings, prompts, logging, the JSON of the hook's input,
  the reads of repositories and GitHub: I/O and wording, by one process at a
  time.
- Two snapshots made in the same nanosecond of the same content, equal hashes of
  different contents, and clocks that go backwards (but in Exceptions).

## Plan

1. Done: session tracking, executors, backups; exceptions with their audit log;
   configuration, rules, validators and the gate they form; plugins; proofs of
   all safety properties of the passing runs.
2. Crash dumps (writing, listing, pruning with its dry run), after the backup
   store; the doctor's fix and recheck.
3. Parsers of a line proved to read what its commands do, in place of `Truthful`
   and `Worded`, for which the folds need an induction principle that the prover
   can instantiate.
