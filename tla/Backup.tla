------------------------------- MODULE Backup -------------------------------
(***************************************************************************)
(* The backups of one configuration file (internal/backup, internal/config *)
(* writer.go, cmd/klaudiush backup.go, init.go and main.go).               *)
(*                                                                         *)
(* Every command is a process of its own.  A storage is a directory with a *)
(* file per snapshot and metadata.json, the index of them.  A process      *)
(* loads the whole index, changes it in memory and writes the whole index  *)
(* back, in place: os.WriteFile truncates the file and then writes it, and *)
(* nothing locks anything.                                                 *)
(*                                                                         *)
(* CreateBackup is a call with a control state of its own (bpc): the       *)
(* asynchronous writer goes on while it runs, and takes it along when the  *)
(* process ends.  Backups are enabled.  The audit log of the backups is    *)
(* left out: nothing reads it back.                                        *)
(***************************************************************************)
EXTENDS Retention

CONSTANTS
    Proc,       \* process slots
    Op,         \* operations that are started
    Failing,    \* operations that may be killed, or whose saves may fail
    NoJob,      \* the job of a slot without a process
    None,       \* a file that is not there, a snapshot or text not known yet
    Exclusive,  \* TRUE: one process at a time
    Global,     \* TRUE: the user's configuration, FALSE: that of a project
    MaxClock,   \* bound of the clock
    MaxRuns     \* bound of the number of processes

Writes == {"sync", "async", "init"}
Operation == Writes \cup {"create", "restore", "forced", "delete", "prune"}

ASSUME OperationAssumption == Op \subseteq Operation /\ Failing \subseteq Op

ASSUME NoneAssumption == None \notin Contents /\ None \notin Snapshot

ASSUME ModeAssumption ==
    /\ Exclusive \in BOOLEAN /\ Global \in BOOLEAN
    /\ MaxClock \in Nat /\ MaxRuns \in Nat

VARIABLES
    config,  \* content of the configuration file, or None
    root,    \* whether the storage directory exists
    index,   \* metadata.json: None, Empty, Corrupt or a set of snapshots
    file,    \* content of the snapshot files by identifier, or None
    clock,   \* the instant, advanced by the snapshots too
    runs,    \* processes started
    pc,      \* where a command is
    job,     \* its operation, and the text it is to write
    bpc,     \* where its call of CreateBackup or SaveIndex is
    data,    \* the configuration CreateBackup read
    idx,     \* the index it holds in memory
    snap,    \* the snapshot it restores, deletes or creates
    todo     \* the snapshots a prune has not come to

disk  == <<config, root, index, file>>
local == <<pc, job, bpc, data, idx, snap, todo>>
vars  == <<config, root, index, file, clock, runs, pc, job, bpc, data, idx, snap, todo>>

-----------------------------------------------------------------------------
\* Values

Id == 1..MaxClock

\* What a command is asked to do; only a writer knows its text at the start.
Job ==
    {[op |-> o, text |-> c] : o \in Op \cap Writes, c \in Content}
        \cup {[op |-> o, text |-> None] : o \in Op \ Writes}

Idle(p) == pc[p] = "idle"
Does(p, ops) == ~Idle(p) /\ job[p].op \in ops

\* LoadIndex: a missing file is an empty index, one that does not parse an error.
Loaded == IF index = None THEN {{}}
          ELSE IF index \in {Empty, Corrupt} THEN {}
          ELSE {index}

\* Over bytes another process wrote since the truncation, a write may leave a mix.
Written(content, before) == {content} \cup (IF before = Empty THEN {} ELSE {Corrupt})

TypeOK ==
    /\ config \in Contents \cup {None}
    /\ root \in BOOLEAN
    /\ index \in {None, Empty, Corrupt} \/ index \subseteq Snapshot
    /\ file \in [Id -> Contents \cup {None}]
    /\ clock \in 0..MaxClock /\ runs \in 0..MaxRuns
    /\ pc \in [Proc -> {"idle", "backup", "truncate", "fill", "get", "validate",
                        "reload", "reread", "remove", "list", "sweep", "swept",
                        "save", "exit"}]
    /\ job \in [Proc -> [op : Op, text : Contents \cup {None}] \cup {NoJob}]
    /\ bpc \in [Proc -> {"none", "read", "exists", "mkdir", "stat", "initopen",
                         "initwrite", "load", "file", "open", "write", "ok", "failed"}]
    /\ data \in [Proc -> Contents \cup {None}]
    /\ idx \in [Proc -> SUBSET Snapshot]
    /\ snap \in [Proc -> Snapshot \cup {None}]
    /\ todo \in [Proc -> SUBSET Snapshot]

Init ==
    /\ config \in Content \cup {None}
    /\ root = FALSE /\ index = None
    /\ file = [i \in Id |-> None]
    /\ clock = 0 /\ runs = 0
    /\ pc = [p \in Proc |-> "idle"]
    /\ job = [p \in Proc |-> NoJob]
    /\ bpc = [p \in Proc |-> "none"]
    /\ data = [p \in Proc |-> None]
    /\ idx = [p \in Proc |-> {}]
    /\ snap = [p \in Proc |-> None]
    /\ todo = [p \in Proc |-> {}]

Tick ==
    /\ clock < MaxClock
    /\ clock' = clock + 1
    /\ UNCHANGED <<disk, runs, local>>

-----------------------------------------------------------------------------
\* A command starts

(* A writer first looks whether there is anything to back up; the           *)
(* asynchronous one leaves the call of CreateBackup to a goroutine.         *)
FirstStep(op) ==
    CASE op = "create" -> "backup"
      [] op \in {"sync", "init"} -> IF config = None THEN "truncate" ELSE "backup"
      [] op = "async" -> "truncate"
      [] op \in {"restore", "forced", "delete"} -> "get"
      [] op = "prune" -> "list"

BacksUp(op) == op = "create" \/ (op \in Writes /\ config # None)

Start(p) ==
    /\ Idle(p)
    /\ runs < MaxRuns
    /\ Exclusive => \A q \in Proc : Idle(q)
    /\ \E j \in Job :
          /\ job' = [job EXCEPT ![p] = j]
          /\ pc' = [pc EXCEPT ![p] = FirstStep(j.op)]
          /\ bpc' = [bpc EXCEPT ![p] = IF BacksUp(j.op) THEN "read" ELSE "none"]
    /\ runs' = runs + 1
    /\ UNCHANGED <<disk, clock, data, idx, snap, todo>>

-----------------------------------------------------------------------------
\* Manager.CreateBackup

\* Mutant of ReadConfig: a missing configuration is not noticed.
ReadConfigBlindly(p) ==
    /\ bpc[p] = "read"
    /\ data' = [data EXCEPT ![p] = config]
    /\ bpc' = [bpc EXCEPT ![p] = "exists"]
    /\ UNCHANGED <<disk, clock, runs, pc, job, idx, snap, todo>>

(* A configuration that is not there cannot be backed up.                   *)
ReadConfig(p) ==
    /\ bpc[p] = "read"
    /\ data' = [data EXCEPT ![p] = config]
    /\ bpc' = [bpc EXCEPT ![p] = IF config = None THEN "failed" ELSE "exists"]
    /\ UNCHANGED <<disk, clock, runs, pc, job, idx, snap, todo>>

StorageExists(p) ==
    /\ bpc[p] = "exists"
    /\ bpc' = [bpc EXCEPT ![p] = IF root THEN "load" ELSE "mkdir"]
    /\ UNCHANGED <<disk, clock, runs, pc, job, data, idx, snap, todo>>

(* Initialize: the directories, then an empty index unless there is one.    *)
MakeDirs(p) ==
    /\ bpc[p] = "mkdir"
    /\ root' = TRUE
    /\ bpc' = [bpc EXCEPT ![p] = "stat"]
    /\ UNCHANGED <<config, index, file, clock, runs, pc, job, data, idx, snap, todo>>

StatIndex(p) ==
    /\ bpc[p] = "stat"
    /\ bpc' = [bpc EXCEPT ![p] = IF index = None THEN "initopen" ELSE "load"]
    /\ UNCHANGED <<disk, clock, runs, pc, job, data, idx, snap, todo>>

\* Mutant of NextChain: chains are numbered by how many there are.
NextChainCounted(snapshots) == Cardinality(snapshots) + 1

(* generateChainID: every snapshot is a chain of its own for now.           *)
NextChain(snapshots) ==
    IF snapshots = {} THEN 1 ELSE Max({s.chain : s \in snapshots}) + 1

\* Mutant of LoadIndex: the instant is too coarse to tell snapshots apart.
LoadIndexCoarsely(p) ==
    /\ bpc[p] = "load"
    /\ \E st \in Loaded :
          /\ \A s \in st : s.hash # data[p]
          /\ idx' = [idx EXCEPT ![p] =
                st \cup {[id |-> 1, hash |-> data[p], chain |-> NextChain(st)]}]
    /\ bpc' = [bpc EXCEPT ![p] = "file"]
    /\ UNCHANGED <<disk, clock, runs, pc, job, data, snap, todo>>

(* LoadIndex and FindByHash: a content the index lists is not saved again,  *)
(* whatever became of its file; a new one gets a snapshot of this instant.  *)
LoadIndex(p) ==
    /\ bpc[p] = "load"
    /\ \/ /\ Loaded = {}
          /\ bpc' = [bpc EXCEPT ![p] = "failed"]
          /\ UNCHANGED <<clock, idx>>
       \/ \E st \in Loaded :
          /\ \E s \in st : s.hash = data[p]
          /\ bpc' = [bpc EXCEPT ![p] = "ok"]
          /\ UNCHANGED <<clock, idx>>
       \/ \E st \in Loaded :
          /\ \A s \in st : s.hash # data[p]
          /\ clock < MaxClock
          /\ clock' = clock + 1
          /\ idx' = [idx EXCEPT ![p] =
                st \cup {[id |-> clock + 1, hash |-> data[p], chain |-> NextChain(st)]}]
          /\ bpc' = [bpc EXCEPT ![p] = "file"]
    /\ UNCHANGED <<disk, runs, pc, job, data, snap, todo>>

(* Storage.Save: the file of the new snapshot, a name no one else has.      *)
SaveFile(p) ==
    /\ bpc[p] = "file"
    /\ file' = [file EXCEPT ![Newest(idx[p])] = data[p]]
    /\ bpc' = [bpc EXCEPT ![p] = "open"]
    /\ UNCHANGED <<config, root, index, clock, runs, pc, job, data, idx, snap, todo>>

(* SaveIndex: WriteFile truncates metadata.json; Initialize writes an empty *)
(* index, the others the one in memory.                                     *)
OpenIndex(p) ==
    /\ bpc[p] \in {"initopen", "open"}
    /\ index' = Empty
    /\ bpc' = [bpc EXCEPT ![p] = IF bpc[p] = "open" THEN "write" ELSE "initwrite"]
    /\ UNCHANGED <<config, root, file, clock, runs, pc, job, data, idx, snap, todo>>

WriteIndex(p) ==
    /\ \/ /\ bpc[p] = "initwrite"
          /\ index' \in Written({}, index)
          /\ bpc' = [bpc EXCEPT ![p] = "load"]
       \/ /\ bpc[p] = "write"
          /\ index' \in Written(idx[p], index)
          /\ bpc' = [bpc EXCEPT ![p] = "ok"]
    /\ UNCHANGED <<config, root, file, clock, runs, pc, job, data, idx, snap, todo>>

(* A directory or file cannot be made or written; what was truncated stays. *)
SaveFails(p) ==
    /\ Does(p, Failing)
    /\ bpc[p] \in {"mkdir", "initopen", "initwrite", "file", "open", "write"}
    /\ bpc' = [bpc EXCEPT ![p] = "failed"]
    /\ UNCHANGED <<disk, clock, runs, pc, job, data, idx, snap, todo>>

-----------------------------------------------------------------------------
\* After the call

\* Mutant of Proceeds: every command goes on after a failed backup.
ProceedsAnyway(p) == bpc[p] \in {"ok", "failed"}

(* init --force only warns of a failed backup, the others give up.          *)
Proceeds(p) ==
    bpc[p] = "ok" \/ (bpc[p] = "failed" /\ job[p].op = "init")

Called(p) ==
    /\ pc[p] \in {"backup", "save"}
    /\ bpc[p] \in {"ok", "failed"}
    /\ pc' = [pc EXCEPT ![p] =
                 CASE Proceeds(p) /\ job[p].op \in Writes -> "truncate"
                   [] Proceeds(p) /\ job[p].op = "restore" -> "reload"
                   [] OTHER -> "exit"]
    /\ bpc' = [bpc EXCEPT ![p] = "none"]
    /\ UNCHANGED <<disk, clock, runs, job, data, idx, snap, todo>>

-----------------------------------------------------------------------------
\* Writer.WriteFile and the last step of a restore

Truncate(p) ==
    /\ pc[p] = "truncate"
    /\ config' = Empty
    /\ pc' = [pc EXCEPT ![p] = "fill"]
    /\ UNCHANGED <<root, index, file, clock, runs, job, bpc, data, idx, snap, todo>>

Fill(p) ==
    /\ pc[p] = "fill"
    /\ config' \in Written(job[p].text, config)
    /\ pc' = [pc EXCEPT ![p] = "exit"]
    /\ UNCHANGED <<root, index, file, clock, runs, job, bpc, data, idx, snap, todo>>

-----------------------------------------------------------------------------
\* backup restore and backup delete

(* Manager.Get: the user names a snapshot, which has to be listed.          *)
Get(p) ==
    /\ pc[p] = "get"
    /\ \/ \E st \in Loaded : \E s \in st :
             /\ snap' = [snap EXCEPT ![p] = s]
             /\ pc' = [pc EXCEPT ![p] = IF job[p].op = "delete" THEN "reread" ELSE "validate"]
       \/ /\ \A st \in Loaded : st = {}
          /\ pc' = [pc EXCEPT ![p] = "exit"]
          /\ UNCHANGED snap
    /\ UNCHANGED <<disk, clock, runs, job, bpc, data, idx, todo>>

Intact(s) == file[s.id] = s.hash

(* The checksum is verified, then an existing configuration is backed up    *)
(* unless the restore is forced.                                            *)
Validate(p) ==
    LET backup == job[p].op = "restore" /\ config # None
    IN  /\ pc[p] = "validate"
        /\ pc' = [pc EXCEPT ![p] = CASE ~Intact(snap[p]) -> "exit"
                                     [] Intact(snap[p]) /\ backup -> "backup"
                                     [] OTHER -> "reload"]
        /\ bpc' = [bpc EXCEPT ![p] = IF Intact(snap[p]) /\ backup THEN "read" ELSE "none"]
        /\ UNCHANGED <<disk, clock, runs, job, data, idx, snap, todo>>

(* The content is read again, and verified again.                           *)
Reload(p) ==
    /\ pc[p] = "reload"
    /\ \/ /\ Intact(snap[p])
          /\ job' = [job EXCEPT ![p].text = file[snap[p].id]]
          /\ pc' = [pc EXCEPT ![p] = "truncate"]
       \/ /\ ~Intact(snap[p])
          /\ pc' = [pc EXCEPT ![p] = "exit"]
          /\ UNCHANGED job
    /\ UNCHANGED <<disk, clock, runs, bpc, data, idx, snap, todo>>

(* The delete command opens the storage again, by the type of the snapshot. *)
(* determineConfigType takes every path with a .klaudiush directory for a   *)
(* project's, the user's ~/.klaudiush too: the delete of a global snapshot  *)
(* loads the index of a project storage, which does not list it.            *)
Reread(p) ==
    /\ pc[p] = "reread"
    /\ \/ \E st \in (IF Global THEN {{}} ELSE Loaded) :
             /\ idx' = [idx EXCEPT ![p] = st]
             /\ pc' = [pc EXCEPT ![p] = "remove"]
       \/ /\ ~Global /\ Loaded = {}
          /\ pc' = [pc EXCEPT ![p] = "exit"]
          /\ UNCHANGED idx
    /\ UNCHANGED <<disk, clock, runs, job, bpc, data, snap, todo>>

(* The file goes first; a file that is gone, or a snapshot no longer listed *)
(* ends the command before the index is saved.                              *)
Remove(p) ==
    LET s == snap[p]
        listed == file[s.id] # None /\ s \in idx[p]
    IN  /\ pc[p] = "remove"
        /\ file' = [file EXCEPT ![s.id] = None]
        /\ idx' = [idx EXCEPT ![p] = @ \ {s}]
        /\ pc' = [pc EXCEPT ![p] = IF listed THEN "save" ELSE "exit"]
        /\ bpc' = [bpc EXCEPT ![p] = IF listed THEN "open" ELSE "none"]
        /\ UNCHANGED <<config, root, index, clock, runs, job, data, snap, todo>>

-----------------------------------------------------------------------------
\* backup prune, Manager.ApplyRetention

List(p) ==
    /\ pc[p] = "list"
    /\ \/ \E st \in Loaded :
             /\ root
             /\ idx' = [idx EXCEPT ![p] = st]
             /\ todo' = [todo EXCEPT ![p] = ToRemove(st, clock)]
             /\ pc' = [pc EXCEPT ![p] = "sweep"]
       \/ /\ ~root \/ Loaded = {}
          /\ pc' = [pc EXCEPT ![p] = "exit"]
          /\ UNCHANGED <<idx, todo>>
    /\ UNCHANGED <<disk, clock, runs, job, bpc, data, snap>>

(* A snapshot whose file cannot be removed stays in the index.              *)
Sweep(p) ==
    /\ pc[p] \in {"sweep", "swept"}
    /\ \E s \in todo[p] :
          /\ todo' = [todo EXCEPT ![p] = @ \ {s}]
          /\ \/ /\ file[s.id] # None
                /\ file' = [file EXCEPT ![s.id] = None]
                /\ idx' = [idx EXCEPT ![p] = @ \ {s}]
                /\ pc' = [pc EXCEPT ![p] = "swept"]
             \/ /\ file[s.id] = None \/ Does(p, Failing)
                /\ UNCHANGED <<file, idx, pc>>
    /\ UNCHANGED <<config, root, index, clock, runs, job, bpc, data, snap>>

Swept(p) ==
    /\ pc[p] \in {"sweep", "swept"}
    /\ todo[p] = {}
    /\ pc' = [pc EXCEPT ![p] = IF pc[p] = "swept" THEN "save" ELSE "exit"]
    /\ bpc' = [bpc EXCEPT ![p] = IF pc[p] = "swept" THEN "open" ELSE "none"]
    /\ UNCHANGED <<disk, clock, runs, job, data, idx, snap, todo>>

-----------------------------------------------------------------------------
\* The end of a process

(* The process ends after its last step, or is killed: a goroutine that     *)
(* still backs up ends with it.                                             *)
End(p) ==
    /\ pc[p] = "exit" \/ Does(p, Failing)
    /\ pc' = [pc EXCEPT ![p] = "idle"]
    /\ job' = [job EXCEPT ![p] = NoJob]
    /\ bpc' = [bpc EXCEPT ![p] = "none"]
    /\ data' = [data EXCEPT ![p] = None]
    /\ idx' = [idx EXCEPT ![p] = {}]
    /\ snap' = [snap EXCEPT ![p] = None]
    /\ todo' = [todo EXCEPT ![p] = {}]
    /\ UNCHANGED <<disk, clock, runs>>

Step(p) ==
    \/ ReadConfig(p) \/ StorageExists(p) \/ MakeDirs(p) \/ StatIndex(p)
    \/ LoadIndex(p) \/ SaveFile(p) \/ OpenIndex(p) \/ WriteIndex(p) \/ SaveFails(p)
    \/ Called(p) \/ Truncate(p) \/ Fill(p)
    \/ Get(p) \/ Validate(p) \/ Reload(p) \/ Reread(p) \/ Remove(p)
    \/ List(p) \/ Sweep(p) \/ Swept(p) \/ End(p)

Next == Tick \/ \E p \in Proc : Start(p) \/ Step(p)

Spec == Init /\ [][Next]_vars

-----------------------------------------------------------------------------
\* Properties

Listed == UNION Loaded

\* No delete or prune is under way.
Settled == \A p \in Proc : ~Does(p, {"delete", "prune"})

(* The index only lists snapshots that can be restored: whatever commands   *)
(* overlap and wherever they are killed, the file is there, whole, before   *)
(* the index names it, and no other snapshot takes its name.                *)
ListedIsRestorable == Settled => \A s \in Listed : Intact(s)

(* No two listed snapshots share a chain, also after deletions from the     *)
(* middle: retention, which drops whole chains, drops them one by one.      *)
ChainsAlone == \A s, t \in Listed : s.chain = t.chain => s = t

(* The guide's "Guaranteed backup before write": when a synchronous write   *)
(* or a restore overwrites the configuration, the content it destroys can   *)
(* be restored.                                                             *)
OverwriteIsBackedUp ==
    [][\A p \in Proc :
         /\ pc[p] = "truncate" /\ pc'[p] = "fill"
         /\ job[p].op \in {"sync", "restore"}
         /\ config \notin {None, job[p].text}
         => \E s \in Listed : s.hash = config /\ Intact(s)]_vars

(* A prune sets out to keep exactly the largest set of newest snapshots     *)
(* that is within the limits: it drops the oldest first, enough of them and *)
(* none too many, though every policy judges each snapshot by itself.       *)
PruneIsExact ==
    [][\A p \in Proc :
         pc[p] = "list" /\ pc'[p] = "sweep" =>
             idx'[p] \ todo'[p] = Retained(idx'[p], clock)]_vars

(* A dry run instead of a prune would have listed nothing that the prune keeps,  *)
(* and all that it removes while the snapshots fit into MaxSize together         *)
(* (runBackupPruneDryRun against ApplyRetention).                                *)
PreviewIsPrune ==
    [][\A p \in Proc :
         pc[p] = "list" /\ pc'[p] = "sweep" =>
             LET shown == Preview(idx'[p], clock)
             IN  /\ shown \subseteq todo'[p]
                 /\ Total(idx'[p]) <= MaxSize => shown = todo'[p]]_vars
=============================================================================
