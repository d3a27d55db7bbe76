---------------------------- MODULE BackupProofs ----------------------------
(***************************************************************************)
(* Proofs about the backups of a configuration file: the types, the chains *)
(* and the listed snapshots with commands that overlap and are killed, the *)
(* guaranteed backup of commands that run one at a time, and what retention*)
(* keeps.                                                                  *)
(***************************************************************************)
EXTENDS Backup, FiniteSetTheorems, TLAPS

Removing == {"delete", "prune"}
Restoring == {"restore", "forced"}

-----------------------------------------------------------------------------
\* Snapshots

(* A set of naturals with a bound has a greatest element, and Max is it.    *)
LEMMA GreatestExists ==
  ASSUME NEW n \in Nat, NEW T \in SUBSET (0..n), T # {}
  PROVE  Max(T) \in T /\ \A y \in T : Max(T) >= y
<1>. DEFINE R == {ss \in Nat \X Nat : ss[1] < ss[2]}
            D == {n - y : y \in T}
<1>1. IsWellFoundedOn(R, Nat)
  BY NatLessThanWellFounded DEF OpToRel
<1>2. D \subseteq Nat /\ D # {}
  <2>1. \A y \in T : n - y \in Nat
    OBVIOUS
  <2>. QED
    BY <2>1
<1>3. PICK d \in D : \A e \in D : ~ (<<e, d>> \in R)
  <2>. HIDE DEF R, D
  <2>. QED
    BY <1>1, <1>2, WFMin
<1>4. PICK x \in T : d = n - x
  OBVIOUS
<1>5. \A y \in T : x >= y
  <2>. SUFFICES ASSUME NEW y \in T, y > x PROVE FALSE
    OBVIOUS
  <2>1. n - y \in D /\ <<n - y, d>> \in R
    BY <1>4
  <2>. QED
    BY <1>3, <2>1
<1>. QED
  BY <1>4, <1>5 DEF Max

(* The snapshots of an index at an instant: made until then, each under an  *)
(* instant and in a chain of its own.                                       *)
Sound(st, t) ==
  /\ st \subseteq Snapshot
  /\ \A s \in st : s.id \in 1..t /\ s.chain \in 1..s.id
  /\ \A r, s \in st : r.id = s.id \/ r.chain = s.chain => r = s

LEMMA SoundLater ==
  ASSUME NEW t \in Nat, NEW u \in Nat, t =< u, NEW st, Sound(st, t)
  PROVE  Sound(st, u)
BY DEF Sound, Snapshot

LEMMA SoundPart ==
  ASSUME NEW t \in Nat, NEW st, Sound(st, t), NEW part \in SUBSET st
  PROVE  Sound(part, t)
BY DEF Sound

LEMMA SoundEmpty == \A t \in Nat : Sound({}, t)
BY DEF Sound

(* The chain of a new snapshot is no other's (generateChainID).             *)
LEMMA ChainIsNew ==
  ASSUME NEW t \in Nat, NEW st, Sound(st, t)
  PROVE  /\ NextChain(st) \in 1..(t + 1)
         /\ \A s \in st : s.chain < NextChain(st)
<1>1. CASE st = {}
  BY <1>1 DEF NextChain
<1>2. CASE st # {}
  <2>. DEFINE T == {s.chain : s \in st}
  <2>1. T \subseteq 0..t /\ T # {}
    BY <1>2 DEF Sound, Snapshot
  <2>. HIDE DEF T
  <2>2. Max(T) \in T /\ \A y \in T : Max(T) >= y
    BY <2>1, GreatestExists
  <2>3. NextChain(st) = Max(T) + 1
    BY <1>2 DEF NextChain, T
  <2>4. \A s \in st : s.chain \in T /\ s.chain \in Nat
    BY DEF Sound, Snapshot, T
  <2>5. Max(T) \in 0..t /\ \A s \in st : s.chain =< Max(T)
    BY <2>1, <2>2, <2>4
  <2>. QED
    BY <2>3, <2>4, <2>5
<1>. QED
  BY <1>1, <1>2

(* An index with the snapshot of a new instant is sound, and that snapshot  *)
(* is its newest.                                                           *)
LEMMA SoundWithNew ==
  ASSUME NEW t \in Nat, NEW st, Sound(st, t), NEW h \in Contents
  PROVE  LET new == [id |-> t + 1, hash |-> h, chain |-> NextChain(st)]
         IN  /\ Sound(st \cup {new}, t + 1)
             /\ Newest(st \cup {new}) = t + 1
             /\ new \notin st
<1>. DEFINE new == [id |-> t + 1, hash |-> h, chain |-> NextChain(st)]
            T == {s.id : s \in st \cup {new}}
<1>1. NextChain(st) \in 1..(t + 1) /\ \A s \in st : s.chain < NextChain(st)
  BY ChainIsNew
<1>2. new \in Snapshot /\ new.id = t + 1 /\ new.chain = NextChain(st)
  BY <1>1 DEF Snapshot
<1>. HIDE DEF new
<1>3. Sound(st \cup {new}, t + 1)
  <2>1. st \cup {new} \subseteq Snapshot
    BY <1>2 DEF Sound
  <2>2. \A s \in st : s.id \in 1..t /\ s.chain \in 1..s.id
    BY DEF Sound
  <2>3. \A s \in st \cup {new} : s.id \in 1..(t + 1) /\ s.chain \in 1..s.id
    BY <1>1, <1>2, <2>2
  <2>4. \A s \in st : s.id # new.id /\ s.chain # new.chain
    BY <1>1, <1>2, <2>2
  <2>. QED
    BY <2>1, <2>3, <2>4 DEF Sound
<1>4. T \subseteq 0..(t + 1) /\ t + 1 \in T
  BY <1>2, <1>3 DEF Sound
<1>5. Max(T) = t + 1
  <2>. HIDE DEF T
  <2>1. t + 1 \in Nat /\ T # {}
    BY <1>4
  <2>2. Max(T) \in T /\ Max(T) >= t + 1
    BY <1>4, <2>1, GreatestExists
  <2>3. Max(T) \in 0..(t + 1)
    BY <1>4, <2>2
  <2>. QED
    BY <2>2, <2>3
<1>6. new \notin st
  BY <1>2 DEF Sound
<1>. QED
  BY <1>3, <1>5, <1>6 DEF Newest, new

-----------------------------------------------------------------------------
\* The invariant of all commands, however they overlap and are killed

Calling == {"read", "exists", "mkdir", "stat", "initopen", "initwrite", "load", "file",
            "open", "write", "ok", "failed"}

\* What a process was asked to do, and the text it came to write.
Asked == [op : Op, text : Contents \cup {None}]

(* Which operation is where, and during which steps a call of CreateBackup  *)
(* or SaveIndex is under way.                                               *)
Route(p) ==
  /\ ~Idle(p) => job[p] \in Asked
  /\ pc[p] = "backup" => bpc[p] # "none" /\ job[p].op \in {"create", "sync", "init", "restore"}
  /\ pc[p] \in {"truncate", "fill"} => job[p].op \in Writes \cup Restoring
  /\ pc[p] = "get" => job[p].op \in Restoring \cup {"delete"}
  /\ pc[p] \in {"validate", "reload"} => job[p].op \in Restoring
  /\ pc[p] \in {"reread", "remove"} => job[p].op = "delete"
  /\ pc[p] \in {"list", "sweep", "swept"} => job[p].op = "prune"
  /\ pc[p] = "save" => bpc[p] # "none" /\ job[p].op \in Removing
  /\ bpc[p] # "none" =>
        \/ pc[p] = "backup"
        \/ pc[p] \in {"truncate", "fill", "exit"} /\ job[p].op = "async"
        \/ pc[p] = "save" /\ bpc[p] \in {"open", "write", "ok", "failed"}

(* What a process holds when it needs it: a snapshot someone made, and a    *)
(* configuration that was there.                                            *)
Carry(p) ==
  /\ snap[p] # None => snap[p].id \in 1..clock
  /\ pc[p] \in {"validate", "reload", "reread", "remove"} => snap[p] # None
  /\ pc[p] = "backup" /\ job[p].op = "restore" => snap[p] # None
  /\ \A s \in todo[p] : s.id \in 1..clock
  /\ bpc[p] \in Calling \ {"read", "open", "write", "ok", "failed"} => data[p] # None

(* The index and the copies of it that processes hold are sound.            *)
AllSound == Sound(Listed, clock) /\ \A p \in Proc : Sound(idx[p], clock)

TypeInv ==
  /\ TypeOK
  /\ \A p \in Proc : Route(p)
  /\ \A p \in Proc : Carry(p)
  /\ AllSound

-----------------------------------------------------------------------------
\* The files of the snapshots

(* Nothing is removed; or commands run one at a time on a project's storage *)
(* and those that remove are neither killed nor fail to save.               *)
Orderly ==
  /\ Exclusive /\ ~Global
  /\ Failing \cap Removing = {}

Unremoved == Op \cap Removing = {}

Alone ==
  Exclusive => \A p, q \in Proc : ~Idle(p) /\ ~Idle(q) => p = q

(* The snapshot a call has made and not yet saved: its identifier is in no  *)
(* index and no other process's memory, and the others are on disk.         *)
Pending(p) ==
  bpc[p] = "file" =>
    \E new \in idx[p] :
      /\ Newest(idx[p]) = new.id /\ new.hash = data[p]
      /\ \A s \in idx[p] : s # new => Intact(s)
      /\ \A s \in Listed : s.id # new.id
      /\ \A q \in Proc : q # p => \A s \in idx[q] : s.id # new.id

(* An index that is about to be written names only what is on disk.         *)
Writable(p) ==
  /\ bpc[p] \in {"open", "write"} => \A s \in idx[p] : Intact(s)
  /\ pc[p] \in {"remove", "sweep", "swept"} => \A s \in idx[p] : Intact(s)

(* What a removal is about is listed, as long as nothing is removed.        *)
Chosen(p) ==
  /\ pc[p] = "reread" => snap[p] \in Listed
  /\ pc[p] = "remove" => snap[p] \in idx[p] \cap Listed
  /\ pc[p] \in {"sweep", "swept"} => todo[p] \subseteq idx[p] \cap Listed
  /\ Does(p, Removing) => bpc[p] # "failed"

(* A listed snapshot is on disk but for one that is being removed, and that *)
(* one leaves the index with the next save.                                 *)
Removed(p, s) ==
  /\ Does(p, Removing) /\ s \notin idx[p]
  /\ pc[p] = "swept" \/ (pc[p] = "save" /\ bpc[p] = "open")

ListedKept == \A s \in Listed : Intact(s) \/ \E p \in Proc : Removed(p, s)

FilesInv ==
  /\ Alone
  /\ \A p \in Proc : Pending(p) /\ Writable(p)
  /\ Orderly => \A p \in Proc : Chosen(p)
  /\ ListedKept

-----------------------------------------------------------------------------
\* The guaranteed backup

Held(content) == \E s \in Listed : s.hash = content

(* A synchronous write or a restore on its way to overwrite: the content    *)
(* CreateBackup read is still the configuration, and it is in the index     *)
(* when the call is over.                                                   *)
Backed(p) ==
  Does(p, {"sync", "restore"}) =>
    /\ bpc[p] \in Calling \ {"read", "failed"} => data[p] = config
    /\ bpc[p] \in {"file", "open", "write"} => \E s \in idx[p] : s.hash = data[p]
    /\ bpc[p] = "write" => index = Empty
    /\ bpc[p] = "ok" => Held(config)
    /\ pc[p] \in {"reload", "truncate"} => config = None \/ Held(config)

BackedInv == \A p \in Proc : Backed(p)

-----------------------------------------------------------------------------
\* Types

(* What a load returns is what is listed.                                   *)
LEMMA LoadedIsListed ==
  /\ Loaded = {} \/ Loaded = {Listed}
  /\ Listed = {} \/ Listed = index
  /\ index = {} \/ index = None \/ index = Empty \/ index = Corrupt => Listed = {}
<1>1. CASE index = None
  BY <1>1 DEF Loaded, Listed
<1>2. CASE index # None /\ index \in {Empty, Corrupt}
  BY <1>2 DEF Loaded, Listed
<1>3. CASE index \notin {None, Empty, Corrupt}
  BY <1>3 DEF Loaded, Listed
<1>. QED
  BY <1>1, <1>2, <1>3

LEMMA InitTyped == Init => TypeInv
<1>. SUFFICES ASSUME Init PROVE TypeInv
  OBVIOUS
<1>1. TypeOK
  <2>1. /\ config \in Contents \cup {None} /\ index = None
        /\ clock \in 0..MaxClock /\ runs \in 0..MaxRuns
    <3>1. clock = 0 /\ runs = 0
      BY DEF Init
    <3>2. config \in Contents \cup {None} /\ index = None
      BY DEF Init, Contents
    <3>. QED
      BY <3>1, <3>2, ModeAssumption
  <2>2. /\ file \in [Id -> Contents \cup {None}]
        /\ data \in [Proc -> Contents \cup {None}]
        /\ snap \in [Proc -> Snapshot \cup {None}]
        /\ idx \in [Proc -> SUBSET Snapshot] /\ todo \in [Proc -> SUBSET Snapshot]
    BY DEF Init
  <2>3. job \in [Proc -> Asked \cup {NoJob}]
    BY DEF Init
  <2>4. root \in BOOLEAN
    BY Zenon DEF Init
  <2>. QED
    BY <2>1, <2>2, <2>3, <2>4 DEF Init, TypeOK, Asked
<1>2. \A p \in Proc : Route(p) /\ Carry(p)
  BY DEF Init, Route, Carry, Idle, Calling
<1>3. AllSound
  <2>1. Listed = {}
    BY LoadedIsListed DEF Init
  <2>. QED
    BY <2>1, SoundEmpty DEF Init, AllSound
<1>. QED
  BY <1>1, <1>2, <1>3 DEF TypeInv

(* A prune sets out to remove snapshots that it loaded.                     *)
LEMMA RemovesListed == \A st, t : ToRemove(st, t) \subseteq st
BY DEF ToRemove

(* Every step keeps the types.                                              *)
LEMMA TypesKept ==
  ASSUME TypeInv, [Next]_vars
  PROVE  TypeOK'
<1>. USE ModeAssumption DEF disk, local
<1>1. TypeOK /\ Loaded \in SUBSET (SUBSET Snapshot)
  <2>1. Listed \subseteq Snapshot
    BY DEF TypeInv, AllSound, Sound
  <2>. QED
    BY <2>1, LoadedIsListed DEF TypeInv
<1>2. CASE Tick
  BY <1>1, <1>2 DEF TypeOK, Tick
<1>3. CASE UNCHANGED vars
  BY <1>1, <1>3 DEF TypeOK, vars
<1>4. ASSUME NEW p \in Proc, Start(p) PROVE TypeOK'
  BY <1>1, <1>4, OperationAssumption DEF TypeOK, Start, Job, FirstStep, Operation, Writes,
                                         Contents
<1>5. ASSUME NEW p \in Proc, Step(p) PROVE TypeOK'
  <2>. USE <1>1
  <2>1. CASE ReadConfig(p)
    BY <2>1 DEF TypeOK, ReadConfig
  <2>2. CASE StorageExists(p)
    BY <2>2 DEF TypeOK, StorageExists
  <2>3. CASE MakeDirs(p)
    BY <2>3 DEF TypeOK, MakeDirs
  <2>4. CASE StatIndex(p)
    BY <2>4 DEF TypeOK, StatIndex
  <2>5. CASE LoadIndex(p)
    <3>1. idx' \in [Proc -> SUBSET Snapshot]
      <4>1. CASE bpc'[p] = "file"
        <5>1. PICK st \in Loaded :
                idx' = [idx EXCEPT ![p] =
                  st \cup {[id |-> clock + 1, hash |-> data[p], chain |-> NextChain(st)]}]
          BY <2>5, <4>1 DEF LoadIndex, TypeOK
        <5>2. clock \in Nat /\ data[p] \in Contents /\ Sound(st, clock)
          BY <2>5, LoadedIsListed DEF TypeInv, TypeOK, Carry, AllSound, LoadIndex, Calling
        <5>. HIDE <1>1
        <5>3. st \cup {[id |-> clock + 1, hash |-> data[p], chain |-> NextChain(st)]}
                \subseteq Snapshot
          BY <5>2, SoundWithNew DEF Sound
        <5>. QED
          BY <1>1, <5>1, <5>3 DEF TypeOK
      <4>2. CASE bpc'[p] # "file"
        BY <2>5, <4>2 DEF LoadIndex, TypeOK
      <4>. QED
        BY <4>1, <4>2
    <3>2. /\ UNCHANGED <<config, root, index, file, runs, pc, job, data, snap, todo>>
          /\ clock' = clock \/ (clock < MaxClock /\ clock' = clock + 1)
          /\ bpc' \in {[bpc EXCEPT ![p] = b] : b \in {"failed", "ok", "file"}}
      BY <2>5 DEF LoadIndex
    <3>. QED
      BY <3>1, <3>2 DEF TypeOK
  <2>6. CASE SaveFile(p)
    BY <2>6 DEF TypeOK, SaveFile
  <2>7. CASE OpenIndex(p)
    BY <2>7 DEF TypeOK, OpenIndex
  <2>8. CASE WriteIndex(p)
    BY <2>8 DEF TypeOK, WriteIndex, Written
  <2>9. CASE SaveFails(p)
    BY <2>9 DEF TypeOK, SaveFails
  <2>10. CASE Called(p)
    BY <2>10 DEF TypeOK, Called
  <2>11. CASE Truncate(p)
    BY <2>11 DEF TypeOK, Truncate, Contents
  <2>12. CASE Fill(p)
    <3>1. job[p] \in Asked
      BY <2>12 DEF TypeInv, Route, Idle, Fill
    <3>2. config' \in Contents \cup {None}
      BY <2>12, <3>1 DEF Fill, Written, Asked, Contents
    <3>. QED
      BY <2>12, <3>2 DEF TypeOK, Fill
  <2>13. CASE Get(p)
    BY <2>13 DEF TypeOK, Get
  <2>14. CASE Validate(p)
    BY <2>14 DEF TypeOK, Validate
  <2>15. CASE Reload(p)
    <3>1. job[p] \in Asked
      BY <2>15 DEF TypeInv, Route, Idle, Reload
    <3>2. snap[p] \in Snapshot
      BY <2>15 DEF TypeInv, TypeOK, Carry, Reload
    <3>3. CASE Intact(snap[p])
      <4>1. [job[p] EXCEPT !.text = file[snap[p].id]] \in Asked
        BY <3>1, <3>2, <3>3 DEF Intact, Asked, Snapshot
      <4>2. job' = [job EXCEPT ![p] = [job[p] EXCEPT !.text = file[snap[p].id]]]
        BY <2>15, <3>3 DEF Reload
      <4>3. job' \in [Proc -> Asked \cup {NoJob}]
        BY <4>1, <4>2 DEF TypeOK, Asked
      <4>. QED
        BY <2>15, <4>3 DEF TypeOK, Reload, Asked
    <3>4. CASE ~Intact(snap[p])
      BY <2>15, <3>4 DEF TypeOK, Reload
    <3>. QED
      BY <3>3, <3>4
  <2>16. CASE Reread(p)
    BY <2>16 DEF TypeOK, Reread
  <2>17. CASE Remove(p)
    BY <2>17 DEF TypeOK, Remove
  <2>18. CASE List(p)
    BY <2>18, RemovesListed DEF TypeOK, List
  <2>19. CASE Sweep(p)
    BY <2>19 DEF TypeOK, Sweep
  <2>20. CASE Swept(p)
    BY <2>20 DEF TypeOK, Swept
  <2>21. CASE End(p)
    BY <2>21 DEF TypeOK, End
  <2>. QED
    BY <1>5, <2>1, <2>2, <2>3, <2>4, <2>5, <2>6, <2>7, <2>8, <2>9, <2>10, <2>11, <2>12,
       <2>13, <2>14, <2>15, <2>16, <2>17, <2>18, <2>19, <2>20, <2>21
       DEF Step
<1>. QED
  BY <1>2, <1>3, <1>4, <1>5 DEF Next

(* Every step keeps each process on its route.                              *)
LEMMA RoutesKept ==
  ASSUME TypeInv, [Next]_vars, NEW q \in Proc
  PROVE  Route(q)'
<1>. USE DEF disk, local
<1>1. TypeOK /\ TypeOK' /\ Route(q)
  BY TypesKept DEF TypeInv
<1>2. CASE Tick \/ UNCHANGED vars
  BY <1>1, <1>2 DEF Tick, vars, Route, Idle
<1>3. ASSUME NEW p \in Proc, Start(p) PROVE Route(q)'
  <2>1. PICK j \in Job :
          /\ job' = [job EXCEPT ![p] = j]
          /\ pc' = [pc EXCEPT ![p] = FirstStep(j.op)]
          /\ bpc' = [bpc EXCEPT ![p] = IF BacksUp(j.op) THEN "read" ELSE "none"]
    BY <1>3 DEF Start
  <2>2. j \in Asked
    BY <2>1 DEF Job, Asked, Contents
  <2>3. CASE q = p
    BY <1>1, <2>1, <2>2, <2>3, OperationAssumption
          DEF TypeOK, Route, Idle, FirstStep, BacksUp, Operation, Writes, Restoring,
              Removing, Asked
  <2>4. CASE q # p
    BY <1>1, <2>1, <2>4 DEF TypeOK, Route, Idle
  <2>. QED
    BY <2>3, <2>4
<1>4. ASSUME NEW p \in Proc, Step(p) PROVE Route(q)'
  <2>1. CASE q # p
    <3>1. pc'[q] = pc[q] /\ bpc'[q] = bpc[q] /\ job'[q] = job[q]
      BY <1>1, <1>4, <2>1 DEF TypeOK, Step, ReadConfig, StorageExists, MakeDirs, StatIndex,
                              LoadIndex, SaveFile, OpenIndex, WriteIndex, SaveFails, Called,
                              Truncate, Fill, Get, Validate, Reload, Reread, Remove, List,
                              Sweep, Swept, End
    <3>. QED
      BY <1>1, <3>1 DEF Route, Idle
  <2>2. CASE q = p
    <3>. USE <1>1, <2>2 DEF TypeOK, Route, Idle
    <3>1. CASE ReadConfig(p)
      BY <3>1 DEF ReadConfig
    <3>2. CASE StorageExists(p)
      BY <3>2 DEF StorageExists
    <3>3. CASE MakeDirs(p)
      BY <3>3 DEF MakeDirs
    <3>4. CASE StatIndex(p)
      BY <3>4 DEF StatIndex
    <3>5. CASE LoadIndex(p)
      BY <3>5 DEF LoadIndex
    <3>6. CASE SaveFile(p)
      BY <3>6 DEF SaveFile
    <3>7. CASE OpenIndex(p)
      BY <3>7 DEF OpenIndex
    <3>8. CASE WriteIndex(p)
      BY <3>8 DEF WriteIndex
    <3>9. CASE SaveFails(p)
      BY <3>9 DEF SaveFails
    <3>10. CASE Called(p)
      BY <3>10 DEF Called, Writes, Proceeds, Restoring, Removing
    <3>11. CASE Truncate(p)
      BY <3>11 DEF Truncate
    <3>12. CASE Fill(p)
      BY <3>12 DEF Fill
    <3>13. CASE Get(p)
      BY <3>13 DEF Get, Restoring
    <3>14. CASE Validate(p)
      BY <3>14 DEF Validate, Restoring
    <3>15. CASE Reload(p)
      <4>1. /\ pc[p] = "reload" /\ pc'[p] \in {"truncate", "exit"} /\ bpc' = bpc
            /\ job' = job \/ job' = [job EXCEPT ![p] = [job[p] EXCEPT !.text = file[snap[p].id]]]
        BY <3>15 DEF Reload
      <4>2. job[p] \in Asked /\ job[p].op \in Restoring
        BY <4>1
      <4>3. job'[p].op = job[p].op
        BY <4>1, <4>2 DEF Asked
      <4>4. job'[p] \in Asked
        <5>1. CASE job' = job
          BY <4>2, <5>1
        <5>2. CASE job' # job
          <6>1. pc'[p] = "truncate" /\ Intact(snap[p]) /\ snap[p] \in Snapshot
            BY <3>15, <5>2 DEF Reload, TypeInv, Carry
          <6>2. file[snap[p].id] \in Contents
            BY <6>1 DEF Intact, Snapshot
          <6>. QED
            BY <4>1, <4>2, <5>2, <6>2 DEF Asked
        <5>. QED
          BY <5>1, <5>2
      <4>. QED
        BY <4>1, <4>2, <4>3, <4>4
    <3>16. CASE Reread(p)
      BY <3>16 DEF Reread
    <3>17. CASE Remove(p)
      BY <3>17 DEF Remove, Removing
    <3>18. CASE List(p)
      BY <3>18 DEF List
    <3>19. CASE Sweep(p)
      BY <3>19 DEF Sweep
    <3>20. CASE Swept(p)
      BY <3>20 DEF Swept, Removing
    <3>21. CASE End(p)
      BY <3>21 DEF End
    <3>. QED
      BY <1>4, <3>1, <3>2, <3>3, <3>4, <3>5, <3>6, <3>7, <3>8, <3>9, <3>10, <3>11, <3>12,
         <3>13, <3>14, <3>15, <3>16, <3>17, <3>18, <3>19, <3>20, <3>21
         DEF Step
  <2>. QED
    BY <2>1, <2>2
<1>. QED
  BY <1>2, <1>3, <1>4 DEF Next

(* The clock never goes back.                                               *)
LEMMA ClockMonotonic ==
  ASSUME TypeInv, [Next]_vars
  PROVE  clock \in Nat /\ clock' \in Nat /\ clock =< clock'
<1>. USE DEF disk, local
<1>1. clock \in Nat
  BY ModeAssumption DEF TypeInv, TypeOK
<1>2. CASE Tick \/ UNCHANGED vars
  BY <1>1, <1>2 DEF Tick, vars
<1>3. ASSUME NEW p \in Proc, Start(p) \/ Step(p) PROVE clock' = clock \/ clock' = clock + 1
  BY <1>3 DEF Start, Step, ReadConfig, StorageExists, MakeDirs, StatIndex, LoadIndex,
              SaveFile, OpenIndex, WriteIndex, SaveFails, Called, Truncate, Fill, Get,
              Validate, Reload, Reread, Remove, List, Sweep, Swept, End
<1>. QED
  BY <1>1, <1>2, <1>3 DEF Next

(* A load returns snapshots that someone made.                              *)
LEMMA ListedMade ==
  ASSUME TypeInv
  PROVE  \A st \in Loaded : \A s \in st : s # None /\ s \in Snapshot /\ s.id \in 1..clock
<1>1. Sound(Listed, clock)
  BY DEF TypeInv, AllSound
<1>. QED
  BY <1>1, LoadedIsListed, NoneAssumption DEF Sound

(* Every process keeps what it will need.                                   *)
LEMMA CarryKept ==
  ASSUME TypeInv, [Next]_vars, NEW q \in Proc
  PROVE  Carry(q)'
<1>. USE DEF disk, local
<1>1. /\ TypeOK /\ TypeOK' /\ Carry(q) /\ Route(q)
      /\ clock \in Nat /\ clock' \in Nat /\ clock =< clock'
  BY TypesKept, ClockMonotonic DEF TypeInv
<1>2. CASE Tick \/ UNCHANGED vars
  BY <1>1, <1>2 DEF Tick, vars, Carry
<1>3. ASSUME NEW p \in Proc, Start(p) PROVE Carry(q)'
  <2>1. /\ bpc'[q] \in {bpc[q], "read", "none"}
        /\ pc'[q] \in {pc[q], "backup", "truncate", "get", "list"}
        /\ pc'[q] = "backup" => pc[q] = "backup" \/ job'[q].op \in {"create", "sync", "init"}
        /\ pc[q] = "backup" => job' = [job EXCEPT ![p] = job'[p]] /\ q # p
        /\ UNCHANGED <<clock, data, snap, todo>>
    BY <1>1, <1>3, OperationAssumption DEF TypeOK, Start, FirstStep, Operation, Writes,
                                           Idle, Job
  <2>2. pc'[q] = "backup" => \/ pc[q] = "backup" /\ job'[q] = job[q]
                             \/ job'[q].op \in {"create", "sync", "init"}
    BY <1>1, <2>1 DEF TypeOK
  <2>. QED
    BY <1>1, <2>1, <2>2 DEF Carry, Calling
<1>4. ASSUME NEW p \in Proc, Step(p) PROVE Carry(q)'
  <2>1. CASE q # p
    <3>1. /\ pc'[q] = pc[q] /\ bpc'[q] = bpc[q] /\ job'[q] = job[q]
          /\ data'[q] = data[q] /\ snap'[q] = snap[q] /\ todo'[q] = todo[q]
      BY <1>1, <1>4, <2>1 DEF TypeOK, Step, ReadConfig, StorageExists, MakeDirs, StatIndex,
                              LoadIndex, SaveFile, OpenIndex, WriteIndex, SaveFails, Called,
                              Truncate, Fill, Get, Validate, Reload, Reread, Remove, List,
                              Sweep, Swept, End
    <3>. QED
      BY <1>1, <3>1 DEF TypeOK, Carry, Snapshot
  <2>2. CASE q = p
    <3>. USE <1>1, <2>2 DEF TypeOK, Carry, Route, Idle, Calling
    <3>1. CASE ReadConfig(p)
      BY <3>1 DEF ReadConfig
    <3>2. CASE StorageExists(p)
      BY <3>2 DEF StorageExists
    <3>3. CASE MakeDirs(p)
      BY <3>3 DEF MakeDirs
    <3>4. CASE StatIndex(p)
      BY <3>4 DEF StatIndex
    <3>5. CASE LoadIndex(p)
      BY <3>5 DEF LoadIndex
    <3>6. CASE SaveFile(p)
      BY <3>6 DEF SaveFile
    <3>7. CASE OpenIndex(p)
      BY <3>7 DEF OpenIndex
    <3>8. CASE WriteIndex(p)
      BY <3>8 DEF WriteIndex
    <3>9. CASE SaveFails(p)
      BY <3>9 DEF SaveFails
    <3>10. CASE Called(p)
      BY <3>10 DEF Called, Proceeds, Writes, Removing
    <3>11. CASE Truncate(p)
      BY <3>11 DEF Truncate
    <3>12. CASE Fill(p)
      BY <3>12 DEF Fill
    <3>13. CASE Get(p)
      BY <3>13, ListedMade DEF Get
    <3>14. CASE Validate(p)
      BY <3>14 DEF Validate
    <3>15. CASE Reload(p)
      BY <3>15 DEF Reload
    <3>16. CASE Reread(p)
      BY <3>16 DEF Reread
    <3>17. CASE Remove(p)
      BY <3>17 DEF Remove
    <3>18. CASE List(p)
      <4>1. \A s \in todo'[p] : s.id \in 1..clock
        <5>1. \A st \in Loaded : \A s \in ToRemove(st, clock) : s \in st
          BY RemovesListed
        <5>. QED
          BY <3>18, <5>1, ListedMade DEF List
      <4>2. UNCHANGED <<clock, snap, data, bpc, job>> /\ pc'[p] \in {"sweep", "exit"}
        BY <3>18 DEF List
      <4>. QED
        BY <4>1, <4>2
    <3>19. CASE Sweep(p)
      BY <3>19 DEF Sweep
    <3>20. CASE Swept(p)
      BY <3>20 DEF Swept
    <3>21. CASE End(p)
      BY <3>21 DEF End
    <3>. QED
      BY <1>4, <3>1, <3>2, <3>3, <3>4, <3>5, <3>6, <3>7, <3>8, <3>9, <3>10, <3>11, <3>12,
         <3>13, <3>14, <3>15, <3>16, <3>17, <3>18, <3>19, <3>20, <3>21
         DEF Step
  <2>. QED
    BY <2>1, <2>2
<1>. QED
  BY <1>2, <1>3, <1>4 DEF Next

(* The same of the next state.                                              *)
LEMMA ListedNext ==
  ( /\ Loaded = {} \/ Loaded = {Listed}
    /\ Listed = {} \/ Listed = index
    /\ index = {} \/ index = None \/ index = Empty \/ index = Corrupt => Listed = {} )'
BY LoadedIsListed, PTL

(* What a write of the index leaves listed.                                 *)
LEMMA WriteLists ==
  ASSUME NEW p \in Proc, WriteIndex(p)
  PROVE  Listed' = {} \/ (bpc[p] = "write" /\ Listed' = idx[p])
<1>1. Listed' = {} \/ Listed' = index'
  BY ListedNext
<1>2. index' \in {{}, Corrupt} \/ (bpc[p] = "write" /\ index' = idx[p])
  BY DEF WriteIndex, Written
<1>3. index' \in {{}, Corrupt} => Listed' = {}
  BY ListedNext
<1>. QED
  BY <1>1, <1>2, <1>3

(* The index changes when it is truncated and when it is written.           *)
LEMMA IndexStep ==
  ASSUME [Next]_vars
  PROVE  \/ Listed' = Listed
         \/ Listed' = {}
         \/ \E p \in Proc : WriteIndex(p) /\ bpc[p] = "write" /\ Listed' = idx[p]
<1>. USE DEF disk, local
<1>1. CASE UNCHANGED index
  BY <1>1 DEF Listed, Loaded
<1>2. CASE \E p \in Proc : OpenIndex(p)
  <2>1. index' = Empty
    BY <1>2 DEF OpenIndex
  <2>. QED
    BY <2>1, ListedNext
<1>3. CASE \E p \in Proc : WriteIndex(p)
  BY <1>3, WriteLists
<1>4. CASE Tick \/ UNCHANGED vars \/ \E p \in Proc : Start(p)
  BY <1>1, <1>4 DEF Tick, vars, Start
<1>5. ASSUME NEW p \in Proc, Step(p), ~OpenIndex(p), ~WriteIndex(p)
      PROVE  UNCHANGED index
  BY <1>5 DEF Step, ReadConfig, StorageExists, MakeDirs, StatIndex, LoadIndex, SaveFile,
              SaveFails, Called, Truncate, Fill, Get, Validate, Reload, Reread, Remove,
              List, Sweep, Swept, End
<1>. QED
  BY <1>1, <1>2, <1>3, <1>4, <1>5 DEF Next

(* What the copies of the index in memory become.                           *)
LEMMA CopyStep ==
  ASSUME TypeInv, [Next]_vars, NEW q \in Proc
  PROVE  \/ idx'[q] \subseteq idx[q]
         \/ idx'[q] = {} \/ idx'[q] = Listed
         \/ /\ LoadIndex(q) /\ data[q] \in Contents /\ clock' = clock + 1
            /\ idx'[q] = Listed \cup {[id |-> clock + 1, hash |-> data[q],
                                       chain |-> NextChain(Listed)]}
<1>. USE DEF disk, local
<1>1. TypeOK /\ Carry(q)
  BY DEF TypeInv
<1>2. CASE Tick \/ UNCHANGED vars
  BY <1>2 DEF Tick, vars
<1>3. ASSUME NEW p \in Proc, Start(p) PROVE idx' = idx
  BY <1>3 DEF Start
<1>4. ASSUME NEW p \in Proc, Step(p) PROVE p = q \/ idx'[q] = idx[q]
  BY <1>1, <1>4 DEF TypeOK, Step, ReadConfig, StorageExists, MakeDirs, StatIndex, LoadIndex,
                    SaveFile, OpenIndex, WriteIndex, SaveFails, Called, Truncate, Fill, Get,
                    Validate, Reload, Reread, Remove, List, Sweep, Swept, End
<1>5. CASE Step(q)
  <2>1. CASE LoadIndex(q)
    BY <1>1, <2>1, LoadedIsListed DEF LoadIndex, TypeOK, Carry, Calling
  <2>2. CASE Reread(q) \/ List(q)
    BY <1>1, <2>2, LoadedIsListed DEF Reread, List, TypeOK
  <2>3. CASE Remove(q) \/ Sweep(q) \/ End(q)
    BY <1>1, <2>3 DEF Remove, Sweep, End, TypeOK
  <2>4. CASE ~LoadIndex(q) /\ ~Reread(q) /\ ~List(q) /\ ~Remove(q) /\ ~Sweep(q) /\ ~End(q)
    BY <1>5, <2>4 DEF Step, ReadConfig, StorageExists, MakeDirs, StatIndex, SaveFile,
                      OpenIndex, WriteIndex, SaveFails, Called, Truncate, Fill, Get,
                      Validate, Reload, Swept
  <2>. QED
    BY <2>1, <2>2, <2>3, <2>4
<1>. QED
  BY <1>2, <1>3, <1>4, <1>5 DEF Next

(* The index and its copies stay sound: a copy is what was listed, a part   *)
(* of what it was, or has a snapshot of a new instant.                      *)
LEMMA SoundKept ==
  ASSUME TypeInv, [Next]_vars
  PROVE  AllSound'
<1>1. clock \in Nat /\ clock' \in Nat /\ clock =< clock'
  BY ClockMonotonic
<1>2. Sound(Listed, clock) /\ \A p \in Proc : Sound(idx[p], clock)
  BY DEF TypeInv, AllSound
<1>3. Sound(Listed', clock')
  BY <1>1, <1>2, IndexStep, SoundLater, SoundEmpty
<1>4. ASSUME NEW q \in Proc PROVE Sound(idx'[q], clock')
  <2>1. CASE idx'[q] \subseteq idx[q] \/ idx'[q] = {} \/ idx'[q] = Listed
    <3>1. Sound(idx'[q], clock)
      BY <1>1, <1>2, <2>1, SoundPart, SoundEmpty
    <3>. QED
      BY <1>1, <3>1, SoundLater
  <2>2. CASE ~(idx'[q] \subseteq idx[q] \/ idx'[q] = {} \/ idx'[q] = Listed)
    BY <1>1, <1>2, <2>2, CopyStep, SoundWithNew
  <2>. QED
    BY <2>1, <2>2
<1>5. \A q \in Proc : Sound(idx[q]', clock')
  BY <1>4
<1>. QED
  BY <1>3, <1>5 DEF AllSound, Sound

LEMMA TypeInvKept == TypeInv /\ [Next]_vars => TypeInv'
BY TypesKept, RoutesKept, CarryKept, SoundKept DEF TypeInv

(* Every variable of the backups keeps its type.                            *)
THEOREM TypeCorrect == Spec => []TypeOK
<1>1. TypeInv => TypeOK
  BY DEF TypeInv
<1>. QED
  BY <1>1, InitTyped, TypeInvKept, PTL DEF Spec

(* No two listed snapshots share a chain, however commands overlap, whoever *)
(* is killed and whatever is removed (generateChainID, Delete and prune).   *)
THEOREM ChainsAlwaysAlone == Spec => []ChainsAlone
<1>1. TypeInv => ChainsAlone
  BY DEF TypeInv, AllSound, Sound, ChainsAlone
<1>. QED
  BY <1>1, InitTyped, TypeInvKept, PTL DEF Spec

-----------------------------------------------------------------------------
\* What is listed can be restored

Tidy == Unremoved \/ Orderly

LEMMA InitKept == Init => FilesInv
<1>. SUFFICES ASSUME Init PROVE FilesInv
  OBVIOUS
<1>1. Listed = {}
  BY LoadedIsListed DEF Init
<1>. QED
  BY <1>1 DEF Init, FilesInv, Alone, Pending, Writable, Chosen, ListedKept, Idle, Does

(* Only a process that was started takes steps.                             *)
LEMMA StepIsBusy ==
  ASSUME TypeInv, NEW p \in Proc, Step(p)
  PROVE  ~Idle(p)
<1>1. Route(p)
  BY DEF TypeInv
<1>2. bpc[p] # "none" => ~Idle(p)
  BY <1>1 DEF Route, Idle
<1>3. ~Idle(p) \/ bpc[p] # "none"
  BY DEF Step, Idle, Does, ReadConfig, StorageExists, MakeDirs, StatIndex, LoadIndex,
         SaveFile, OpenIndex, WriteIndex, SaveFails, Called, Truncate, Fill, Get, Validate,
         Reload, Reread, Remove, List, Sweep, Swept, End
<1>. QED
  BY <1>2, <1>3

(* A command that runs alone is the one that takes the next step.           *)
LEMMA OnlyOne ==
  ASSUME TypeInv, Alone, Exclusive, [Next]_vars, NEW q \in Proc, ~Idle(q)
  PROVE  Tick \/ UNCHANGED vars \/ Step(q)
<1>1. \A p \in Proc : ~Start(p)
  BY DEF Start
<1>2. \A p \in Proc : Step(p) => p = q
  BY StepIsBusy DEF Alone
<1>. QED
  BY <1>1, <1>2 DEF Next

LEMMA AloneKept ==
  ASSUME TypeInv, Alone, [Next]_vars
  PROVE  Alone'
<1>. SUFFICES ASSUME Exclusive, NEW p \in Proc, NEW q \in Proc,
                     pc'[p] # "idle", pc'[q] # "idle", p # q
              PROVE  FALSE
  BY DEF Alone, Idle
<1>1. TypeOK
  BY DEF TypeInv
<1>2. CASE Tick \/ UNCHANGED vars
  BY <1>2 DEF Tick, vars, local, Alone, Idle
<1>3. ASSUME NEW r \in Proc, Start(r) PROVE FALSE
  BY <1>1, <1>3 DEF TypeOK, Start, Idle
<1>4. ASSUME NEW r \in Proc, Step(r) PROVE FALSE
  <2>1. \A t \in Proc : t # r => pc'[t] = pc[t]
    BY <1>1, <1>4 DEF TypeOK, Step, ReadConfig, StorageExists, MakeDirs, StatIndex,
                      LoadIndex, SaveFile, OpenIndex, WriteIndex, SaveFails, Called,
                      Truncate, Fill, Get, Validate, Reload, Reread, Remove, List, Sweep,
                      Swept, End
  <2>2. ~Idle(r) /\ \A t \in Proc : t # r => Idle(t)
    BY <1>4, StepIsBusy DEF Alone
  <2>. QED
    BY <2>1, <2>2 DEF Idle
<1>. QED
  BY <1>2, <1>3, <1>4 DEF Next

(* The files change when a snapshot is saved and when one is removed.       *)
LEMMA FileStep ==
  ASSUME [Next]_vars
  PROVE  \/ file' = file
         \/ \E r \in Proc : SaveFile(r) \/ Remove(r) \/ Sweep(r)
<1>. USE DEF disk, local
<1>1. CASE Tick \/ UNCHANGED vars \/ \E p \in Proc : Start(p)
  BY <1>1 DEF Tick, vars, Start
<1>2. ASSUME NEW p \in Proc, Step(p), ~SaveFile(p), ~Remove(p), ~Sweep(p)
      PROVE  file' = file
  BY <1>2 DEF Step, ReadConfig, StorageExists, MakeDirs, StatIndex, LoadIndex, OpenIndex,
              WriteIndex, SaveFails, Called, Truncate, Fill, Get, Validate, Reload, Reread,
              List, Swept, End
<1>. QED
  BY <1>1, <1>2 DEF Next

(* In tidy conditions a process that removes is alone.                      *)
LEMMA RemoverIsAlone ==
  ASSUME TypeInv, Alone, Tidy, NEW r \in Proc, Does(r, Removing)
  PROVE  Orderly /\ \A q \in Proc : ~Idle(q) => q = r
<1>1. job[r] \in Asked
  BY DEF TypeInv, Route, Does
<1>2. ~Unremoved
  BY <1>1 DEF Unremoved, Does, Asked
<1>. QED
  BY <1>2 DEF Tidy, Orderly, Alone, Does

LEMMA RemovesRemoving ==
  ASSUME TypeInv, NEW r \in Proc, Remove(r) \/ Sweep(r)
  PROVE  Does(r, Removing)
BY DEF TypeInv, Route, Remove, Sweep, Does, Idle, Removing

(* Saving a snapshot changes no file but that of its own new name.          *)
LEMMA SaveIsNew ==
  ASSUME TypeInv, FilesInv, NEW r \in Proc, SaveFile(r)
  PROVE  \E new \in idx[r] :
            /\ new.hash = data[r] /\ new.id \in Id
            /\ \A s \in idx[r] : s # new => Intact(s) /\ s.id # new.id
            /\ \A s \in Listed : s.id # new.id
            /\ \A q \in Proc : q # r => \A s \in idx[q] : s.id # new.id
            /\ file' = [file EXCEPT ![new.id] = data[r]]
<1>1. bpc[r] = "file" /\ file' = [file EXCEPT ![Newest(idx[r])] = data[r]]
  BY DEF SaveFile
<1>2. PICK new \in idx[r] :
      /\ Newest(idx[r]) = new.id /\ new.hash = data[r]
      /\ \A s \in idx[r] : s # new => Intact(s)
      /\ \A s \in Listed : s.id # new.id
      /\ \A q \in Proc : q # r => \A s \in idx[q] : s.id # new.id
  BY <1>1 DEF FilesInv, Pending
<1>3. Sound(idx[r], clock) /\ clock \in 0..MaxClock
  BY DEF TypeInv, AllSound, TypeOK
<1>4. new.id \in Id /\ \A s \in idx[r] : s # new => s.id # new.id
  BY <1>3, ModeAssumption DEF Sound, Id
<1>. QED
  BY <1>1, <1>2, <1>4

(* What a process holds in memory stays on disk while others step.          *)
LEMMA OthersKeep ==
  ASSUME TypeInv, FilesInv, Tidy, [Next]_vars, NEW q \in Proc, ~Idle(q), ~Step(q),
         NEW s \in idx[q], Intact(s)
  PROVE  file'[s.id] = s.hash
<1>1. CASE file' = file
  BY <1>1 DEF Intact
<1>2. ASSUME NEW r \in Proc, SaveFile(r) PROVE file'[s.id] = s.hash
  <2>1. r # q
    BY <1>2 DEF Step
  <2>2. s.id \in Id /\ file \in [Id -> Contents \cup {None}]
    <3>1. Sound(idx[q], clock) /\ clock \in 0..MaxClock
      BY DEF TypeInv, AllSound, TypeOK
    <3>. QED
      BY <3>1, ModeAssumption DEF Sound, Id, TypeInv, TypeOK
  <2>. QED
    BY <1>2, <2>1, <2>2, SaveIsNew DEF Intact
<1>3. ASSUME NEW r \in Proc, Remove(r) \/ Sweep(r) PROVE FALSE
  <2>1. Does(r, Removing)
    BY <1>3, RemovesRemoving
  <2>2. q = r
    BY <2>1, RemoverIsAlone DEF FilesInv
  <2>. QED
    BY <1>3, <2>2 DEF Step
<1>. QED
  BY <1>1, <1>2, <1>3, FileStep

(* In tidy conditions all that is listed is on disk when a snapshot is made *)
(* and when a removal begins.                                               *)
LEMMA ListedOnDisk ==
  ASSUME TypeInv, FilesInv, Tidy, NEW q \in Proc, ~Idle(q),
         pc[q] \notin {"swept", "save"}
  PROVE  \A s \in Listed : Intact(s)
<1>. SUFFICES ASSUME NEW p \in Proc, NEW s \in Listed, Removed(p, s) PROVE FALSE
  BY DEF FilesInv, ListedKept
<1>1. p = q
  BY RemoverIsAlone DEF Removed, FilesInv
<1>. QED
  BY <1>1 DEF Removed

(* A call with a snapshot to save: how it got there.                        *)
LEMMA ToSaveFile ==
  ASSUME TypeInv, [Next]_vars, NEW q \in Proc, bpc'[q] = "file"
  PROVE  \/ LoadIndex(q)
         \/ bpc[q] = "file" /\ idx'[q] = idx[q] /\ data'[q] = data[q] /\ ~SaveFile(q)
<1>. USE DEF disk, local
<1>1. TypeOK /\ Route(q)
  BY DEF TypeInv
<1>0. ~SaveFile(q)
  BY <1>1 DEF TypeOK, SaveFile
<1>2. CASE Tick \/ UNCHANGED vars
  BY <1>0, <1>2 DEF Tick, vars
<1>3. ASSUME NEW p \in Proc, Start(p)
      PROVE  bpc[q] = "file" /\ idx'[q] = idx[q] /\ data'[q] = data[q]
  BY <1>1, <1>3 DEF TypeOK, Start
<1>4. ASSUME NEW p \in Proc, Step(p), p # q
      PROVE  bpc[q] = "file" /\ idx'[q] = idx[q] /\ data'[q] = data[q] /\ bpc'[q] = bpc[q]
  BY <1>1, <1>4 DEF TypeOK, Step, ReadConfig, StorageExists, MakeDirs, StatIndex, LoadIndex,
                    SaveFile, OpenIndex, WriteIndex, SaveFails, Called, Truncate, Fill, Get,
                    Validate, Reload, Reread, Remove, List, Sweep, Swept, End
<1>5. CASE Step(q) /\ ~LoadIndex(q)
  BY <1>1, <1>5 DEF TypeOK, Route, Step, ReadConfig, StorageExists, MakeDirs, StatIndex,
                    SaveFile, OpenIndex, WriteIndex, SaveFails, Called, Truncate, Fill, Get,
                    Validate, Reload, Reread, Remove, List, Sweep, Swept, End
<1>. QED
  BY <1>0, <1>2, <1>3, <1>4, <1>5 DEF Next

(* A snapshot to save has a name of its own, and the others its process     *)
(* lists are on disk.                                                       *)
LEMMA PendingKept ==
  ASSUME TypeInv, FilesInv, Tidy, [Next]_vars, NEW q \in Proc
  PROVE  Pending(q)'
<1>. SUFFICES ASSUME bpc'[q] = "file"
              PROVE  \E new \in idx'[q] :
                       /\ Newest(idx'[q]) = new.id /\ new.hash = data'[q]
                       /\ \A s \in idx'[q] : s # new => file'[s.id] = s.hash
                       /\ \A s \in Listed' : s.id # new.id
                       /\ \A r \in Proc : r # q => \A s \in idx'[r] : s.id # new.id
  BY DEF Pending, Intact
<1>1. /\ TypeOK /\ Route(q) /\ Carry(q) /\ clock \in Nat
      /\ Sound(Listed, clock) /\ \A r \in Proc : Sound(idx[r], clock)
  BY ClockMonotonic DEF TypeInv, AllSound
<1>2. CASE LoadIndex(q)
  <2>. DEFINE new == [id |-> clock + 1, hash |-> data[q], chain |-> NextChain(Listed)]
  <2>1. /\ bpc[q] = "load" /\ idx'[q] = Listed \cup {new} /\ UNCHANGED <<file, index, data>>
        /\ \A r \in Proc : r # q => idx'[r] = idx[r]
    BY <1>1, <1>2, LoadedIsListed DEF LoadIndex, TypeOK, disk
  <2>2. ~Idle(q) /\ pc[q] \notin {"swept", "save"} /\ data[q] \in Contents
    BY <1>1, <2>1 DEF Route, Idle, Carry, TypeOK, Calling
  <2>3. /\ Sound(Listed \cup {new}, clock + 1)
        /\ Newest(Listed \cup {new}) = clock + 1
        /\ new \notin Listed
    BY <1>1, <2>2, SoundWithNew
  <2>4. \A s \in Listed : file'[s.id] = s.hash
    BY <2>1, <2>2, ListedOnDisk DEF Intact
  <2>5. Listed' = Listed
    BY <2>1 DEF Listed, Loaded
  <2>6. new.id = clock + 1 /\ new.hash = data[q]
    OBVIOUS
  <2>. HIDE DEF new
  <2>7. /\ \A s \in Listed : s.id # new.id
        /\ \A r \in Proc : \A s \in idx[r] : s.id # new.id
    BY <1>1, <2>6 DEF Sound
  <2>. QED
    BY <2>1, <2>3, <2>4, <2>5, <2>6, <2>7
<1>3. CASE ~LoadIndex(q)
  <2>1. bpc[q] = "file" /\ idx'[q] = idx[q] /\ data'[q] = data[q] /\ ~SaveFile(q)
    BY <1>3, ToSaveFile
  <2>2. PICK new \in idx[q] :
          /\ Newest(idx[q]) = new.id /\ new.hash = data[q]
          /\ \A s \in idx[q] : s # new => Intact(s)
          /\ \A s \in Listed : s.id # new.id
          /\ \A r \in Proc : r # q => \A s \in idx[r] : s.id # new.id
    BY <2>1 DEF FilesInv, Pending
  <2>3. ~Idle(q) /\ pc[q] \notin {"swept", "save", "remove", "sweep"}
    BY <1>1, <2>1 DEF Route, Idle
  <2>4. ASSUME NEW s \in idx[q], s # new PROVE file'[s.id] = s.hash
    <3>1. ASSUME NEW r \in Proc, SaveFile(r) PROVE file'[s.id] = s.hash
      <4>1. r # q
        BY <2>1, <3>1
      <4>2. s.id \in Id
        BY <1>1, ModeAssumption DEF Sound, Id, TypeOK
      <4>. QED
        BY <1>1, <2>2, <2>4, <3>1, <4>1, <4>2, SaveIsNew DEF Intact, TypeOK
    <3>2. ASSUME NEW r \in Proc, Remove(r) \/ Sweep(r) PROVE FALSE
      <4>1. r = q
        BY <2>3, <3>2, RemovesRemoving, RemoverIsAlone DEF FilesInv
      <4>. QED
        BY <2>3, <3>2, <4>1 DEF Remove, Sweep
    <3>. QED
      BY <2>2, <2>4, <3>1, <3>2, FileStep DEF Intact
  <2>5. \A s \in Listed' : s.id # new.id
    <3>1. \A r \in Proc : WriteIndex(r) /\ bpc[r] = "write" => r # q
      BY <2>1
    <3>. QED
      BY <2>2, <3>1, IndexStep
  <2>6. ASSUME NEW r \in Proc, r # q, NEW s \in idx'[r] PROVE s.id # new.id
    <3>1. new.id \in 1..clock
      BY <1>1, <2>2 DEF Sound
    <3>2. CASE s \in idx[r] \cup Listed
      BY <2>2, <2>6, <3>2
    <3>3. CASE s.id = clock + 1
      BY <1>1, <3>1, <3>3
    <3>. QED
      BY <2>6, <3>2, <3>3, CopyStep
  <2>. QED
    BY <2>1, <2>2, <2>4, <2>5, <2>6
<1>. QED
  BY <1>2, <1>3

(* What a step of others leaves a process.                                  *)
LEMMA OthersLeave ==
  ASSUME TypeInv, [Next]_vars, NEW q \in Proc, ~Step(q), ~Start(q)
  PROVE  /\ pc'[q] = pc[q] /\ bpc'[q] = bpc[q] /\ job'[q] = job[q] /\ data'[q] = data[q]
         /\ idx'[q] = idx[q] /\ snap'[q] = snap[q] /\ todo'[q] = todo[q]
<1>. USE DEF disk, local
<1>1. TypeOK
  BY DEF TypeInv
<1>2. CASE Tick \/ UNCHANGED vars
  BY <1>2 DEF Tick, vars
<1>3. ASSUME NEW p \in Proc, Start(p) PROVE
         /\ pc'[q] = pc[q] /\ bpc'[q] = bpc[q] /\ job'[q] = job[q] /\ data'[q] = data[q]
         /\ idx'[q] = idx[q] /\ snap'[q] = snap[q] /\ todo'[q] = todo[q]
  <2>1. p # q
    BY <1>3
  <2>. QED
    BY <1>1, <1>3, <2>1 DEF TypeOK, Start
<1>4. ASSUME NEW p \in Proc, Step(p), p # q PROVE
         /\ pc'[q] = pc[q] /\ bpc'[q] = bpc[q] /\ job'[q] = job[q] /\ data'[q] = data[q]
         /\ idx'[q] = idx[q] /\ snap'[q] = snap[q] /\ todo'[q] = todo[q]
  BY <1>1, <1>4 DEF TypeOK, Step, ReadConfig, StorageExists, MakeDirs, StatIndex, LoadIndex,
                    SaveFile, OpenIndex, WriteIndex, SaveFails, Called, Truncate, Fill, Get,
                    Validate, Reload, Reread, Remove, List, Sweep, Swept, End
<1>. QED
  BY <1>2, <1>3, <1>4 DEF Next

(* A process that is idle does not come upon an index to write.             *)
LEMMA IdleStays ==
  ASSUME TypeInv, [Next]_vars, NEW q \in Proc, Idle(q)
  PROVE  /\ pc'[q] \in {"idle", "backup", "truncate", "get", "list"}
         /\ bpc'[q] \in {"none", "read"}
<1>. USE DEF disk, local
<1>1. TypeOK /\ Route(q) /\ bpc[q] = "none"
  BY DEF TypeInv, Route, Idle
<1>2. CASE Tick \/ UNCHANGED vars
  BY <1>1, <1>2 DEF Tick, vars, Idle
<1>3. ASSUME NEW p \in Proc, Start(p)
      PROVE  /\ pc'[q] \in {"idle", "backup", "truncate", "get", "list"}
             /\ bpc'[q] \in {"none", "read"}
  BY <1>1, <1>3, OperationAssumption
     DEF TypeOK, Start, FirstStep, Job, Operation, Writes, Idle
<1>4. ASSUME NEW p \in Proc, Step(p)
      PROVE  pc'[q] = "idle" /\ bpc'[q] = "none"
  <2>1. p # q
    BY <1>4, StepIsBusy
  <2>. QED
    BY <1>1, <1>4, <2>1 DEF TypeOK, Idle, Step, ReadConfig, StorageExists, MakeDirs,
                            StatIndex, LoadIndex, SaveFile, OpenIndex, WriteIndex,
                            SaveFails, Called, Truncate, Fill, Get, Validate, Reload,
                            Reread, Remove, List, Sweep, Swept, End
<1>. QED
  BY <1>1, <1>2, <1>3, <1>4 DEF Next

(* An index about to be written names only what is on disk: the snapshot    *)
(* that was just saved, and what a removal leaves.                          *)
LEMMA WritableKept ==
  ASSUME TypeInv, FilesInv, Tidy, [Next]_vars, NEW q \in Proc
  PROVE  Writable(q)'
<1>. SUFFICES ASSUME NEW s \in idx'[q],
                     bpc'[q] \in {"open", "write"} \/ pc'[q] \in {"remove", "sweep", "swept"}
              PROVE  file'[s.id] = s.hash
  BY DEF Writable, Intact
<1>. USE DEF disk, local
<1>1. /\ TypeOK /\ Route(q) /\ Sound(idx[q], clock) /\ clock \in 0..MaxClock
      /\ \A t \in idx[q] : t.id \in Id
  BY ModeAssumption DEF TypeInv, AllSound, TypeOK, Sound, Id
<1>2. ~Idle(q)
  BY IdleStays
<1>3. CASE ~Step(q)
  <2>1. ~Start(q)
    BY <1>2 DEF Start
  <2>. QED
    BY <1>2, <1>3, <2>1, OthersLeave, OthersKeep DEF FilesInv, Writable
<1>4. CASE SaveFile(q)
  <2>1. s \in idx[q]
    BY <1>4 DEF SaveFile
  <2>. QED
    BY <1>1, <1>4, <2>1, SaveIsNew DEF Intact, TypeOK
<1>5. CASE OpenIndex(q) \/ Swept(q)
  <2>1. bpc[q] = "open" \/ pc[q] \in {"sweep", "swept"}
    BY <1>1, <1>5 DEF OpenIndex, Swept, TypeOK, Route
  <2>2. idx' = idx /\ file' = file
    BY <1>5 DEF OpenIndex, Swept
  <2>. QED
    BY <2>1, <2>2 DEF FilesInv, Writable, Intact
<1>6. CASE Reread(q) \/ List(q)
  <2>1. Does(q, Removing) /\ pc[q] \in {"reread", "list"}
    BY <1>1, <1>2, <1>6 DEF Reread, List, Does, Route, Removing
  <2>2. Orderly
    BY <2>1, RemoverIsAlone DEF FilesInv
  <2>3. \A t \in Listed : Intact(t)
    BY <1>2, <2>1, ListedOnDisk
  <2>4. s \in Listed
    BY <1>1, <1>6, <2>1, <2>2, LoadedIsListed DEF Reread, List, TypeOK, Route, Orderly
  <2>. QED
    BY <1>6, <2>3, <2>4 DEF Reread, List, Intact
<1>7. CASE Remove(q) \/ Sweep(q)
  <2>1. Orderly /\ Chosen(q) /\ pc[q] \in {"remove", "sweep", "swept"}
    BY <1>7, RemovesRemoving, RemoverIsAlone DEF FilesInv, Remove, Sweep
  <2>2. \A t \in idx[q] : Intact(t)
    BY <2>1 DEF FilesInv, Writable
  <2>3. PICK r \in idx[q] :
          \/ file' = [file EXCEPT ![r.id] = None] /\ idx'[q] = idx[q] \ {r}
          \/ file' = file /\ idx' = idx
    BY <1>1, <1>7, <2>1 DEF Chosen, Remove, Sweep, TypeOK
  <2>4. s \in idx[q] /\ (s.id = r.id => s = r)
    BY <1>1, <2>3 DEF Sound
  <2>. QED
    BY <1>1, <2>2, <2>3, <2>4 DEF Intact, TypeOK
<1>8. CASE /\ Step(q) /\ ~SaveFile(q) /\ ~OpenIndex(q) /\ ~Swept(q) /\ ~Reread(q)
           /\ ~List(q) /\ ~Remove(q) /\ ~Sweep(q)
  <2>1. bpc[q] \in {"open", "write"} /\ idx'[q] = idx[q] /\ file' = file
    BY <1>1, <1>8 DEF TypeOK, Route, Step, ReadConfig, StorageExists, MakeDirs, StatIndex,
                      LoadIndex, WriteIndex, SaveFails, Called, Truncate, Fill, Get,
                      Validate, Reload, End
  <2>. QED
    BY <2>1 DEF FilesInv, Writable, Intact
<1>. QED
  BY <1>3, <1>4, <1>5, <1>6, <1>7, <1>8

(* A removal that runs alone is about what the index lists.                 *)
LEMMA ChosenKept ==
  ASSUME TypeInv, FilesInv, Orderly, [Next]_vars, NEW q \in Proc
  PROVE  Chosen(q)'
<1>. USE DEF disk, local
<1>1. TypeOK /\ Route(q) /\ Chosen(q) /\ Exclusive /\ Alone /\ ~Global
  BY DEF TypeInv, FilesInv, Orderly
<1>2. CASE Idle(q)
  BY <1>2, IdleStays DEF Chosen, Does
<1>3. CASE ~Idle(q) /\ (Tick \/ UNCHANGED vars)
  BY <1>1, <1>3 DEF Tick, vars, Chosen, Does, Idle, Listed, Loaded
<1>4. CASE ~Idle(q) /\ Step(q)
  <2>1. Does(q, Removing)' => bpc'[q] # "failed"
    <3>1. pc'[q] # "idle" /\ job'[q].op \in Removing => job[q].op \in Removing
      BY <1>1, <1>4 DEF TypeOK, Route, Idle, Asked, Restoring, Removing, Step, ReadConfig,
                        StorageExists, MakeDirs, StatIndex, LoadIndex, SaveFile, OpenIndex,
                        WriteIndex, SaveFails, Called, Truncate, Fill, Get, Validate,
                        Reload, Reread, Remove, List, Sweep, Swept, End
    <3>2. job[q].op \in Removing => ~Does(q, Failing)
      BY DEF Orderly, Does
    <3>3. job[q].op \in Removing /\ bpc'[q] = "failed" => bpc[q] = "failed"
      BY <1>1, <1>4, <3>2 DEF TypeOK, Route, Idle, Removing, Step, ReadConfig,
                              StorageExists, MakeDirs, StatIndex, LoadIndex, SaveFile,
                              OpenIndex, WriteIndex, SaveFails, Called, Truncate, Fill, Get,
                              Validate, Reload, Reread, Remove, List, Sweep, Swept, End
    <3>. QED
      BY <1>1, <1>4, <3>1, <3>3 DEF Chosen, Does, Idle
  <2>2. CASE Get(q)
    <3>1. UNCHANGED index /\ pc'[q] \in {"reread", "validate", "exit"}
      BY <1>1, <2>2 DEF Get, TypeOK
    <3>2. Listed' = Listed
      BY <3>1 DEF Listed, Loaded
    <3>3. pc'[q] = "reread" => snap'[q] \in Listed
      BY <1>1, <2>2, LoadedIsListed DEF Get, TypeOK
    <3>. QED
      BY <2>1, <3>1, <3>2, <3>3 DEF Chosen, Does, Idle
  <2>3. CASE Reread(q)
    <3>1. Listed' = Listed
      BY <2>3 DEF Reread, Listed, Loaded
    <3>2. pc'[q] = "remove" => idx'[q] = Listed /\ snap'[q] \in Listed
      BY <1>1, <2>3, LoadedIsListed DEF Reread, TypeOK, Chosen
    <3>3. pc'[q] \in {"remove", "exit"}
      BY <1>1, <2>3 DEF Reread, TypeOK
    <3>. QED
      BY <2>1, <3>1, <3>2, <3>3 DEF Chosen, Does, Idle
  <2>4. CASE List(q)
    <3>1. Listed' = Listed
      BY <2>4 DEF List, Listed, Loaded
    <3>2. pc'[q] = "sweep" => idx'[q] = Listed /\ todo'[q] = ToRemove(Listed, clock)
      BY <1>1, <2>4, LoadedIsListed DEF List, TypeOK
    <3>3. pc'[q] \in {"sweep", "exit"}
      BY <1>1, <2>4 DEF List, TypeOK
    <3>. QED
      BY <2>1, <3>1, <3>2, <3>3, RemovesListed DEF Chosen, Does, Idle
  <2>5. CASE Sweep(q)
    <3>1. Listed' = Listed
      BY <2>5 DEF Sweep, Listed, Loaded
    <3>2. /\ pc[q] \in {"sweep", "swept"} /\ pc'[q] \in {"sweep", "swept"}
          /\ \E s \in todo[q] : /\ todo'[q] = todo[q] \ {s}
                                /\ idx'[q] \in {idx[q], idx[q] \ {s}}
      BY <1>1, <2>5 DEF Sweep, TypeOK
    <3>. QED
      BY <1>1, <2>1, <3>1, <3>2 DEF Chosen, Does, Idle
  <2>6. CASE ~Get(q) /\ ~Reread(q) /\ ~List(q) /\ ~Sweep(q)
    <3>1. pc'[q] \notin {"reread", "remove", "sweep", "swept"}
      BY <1>1, <1>4, <2>6
            DEF TypeOK, Route, Idle, FirstStep, Step, ReadConfig, StorageExists, MakeDirs,
                StatIndex, LoadIndex, SaveFile, OpenIndex, WriteIndex, SaveFails, Called,
                Truncate, Fill, Validate, Reload, Remove, Swept, End
    <3>. QED
      BY <2>1, <3>1 DEF Chosen, Does, Idle
  <2>. QED
    BY <2>2, <2>3, <2>4, <2>5, <2>6
<1>. QED
  BY <1>1, <1>2, <1>3, <1>4, OnlyOne

(* A listed snapshot is on disk or on its way out of the index.             *)
LEMMA ListedKeptKept ==
  ASSUME TypeInv, FilesInv, Tidy, [Next]_vars
  PROVE  ListedKept'
<1>. SUFFICES ASSUME NEW s \in Listed'
              PROVE  file'[s.id] = s.hash \/ \E p \in Proc : Removed(p, s)'
  BY DEF ListedKept, Intact
<1>. USE DEF disk, local
<1>1. /\ TypeOK /\ Sound(Listed, clock) /\ clock \in 0..MaxClock
      /\ \A t \in Listed : t.id \in Id /\ t.hash # None
  BY ModeAssumption, NoneAssumption DEF TypeInv, AllSound, TypeOK, Sound, Id, Snapshot
<1>2. CASE Listed' # Listed
  <2>1. PICK p \in Proc : WriteIndex(p) /\ bpc[p] = "write" /\ Listed' = idx[p]
    BY <1>2, IndexStep
  <2>2. file' = file /\ Intact(s)
    BY <2>1 DEF WriteIndex, FilesInv, Writable
  <2>. QED
    BY <2>2 DEF Intact
<1>3. CASE Listed' = Listed /\ \E p \in Proc : Remove(p) \/ Sweep(p)
  <2>1. PICK p \in Proc : Remove(p) \/ Sweep(p)
    BY <1>3
  <2>2. /\ Does(p, Removing) /\ Orderly /\ Chosen(p) /\ Route(p)
        /\ \A q \in Proc : ~Idle(q) => q = p
    BY <2>1, RemovesRemoving, RemoverIsAlone DEF FilesInv, TypeInv
  <2>3. CASE Remove(p)
    <3>. DEFINE t == snap[p]
    <3>1. pc[p] = "remove" /\ t \in idx[p] \cap Listed /\ Intact(t)
      BY <2>2, <2>3 DEF Remove, Chosen, FilesInv, Writable
    <3>2. file[t.id] # None
      BY <1>1, <3>1 DEF Intact
    <3>3. /\ file' = [file EXCEPT ![t.id] = None] /\ idx' = [idx EXCEPT ![p] = idx[p] \ {t}]
          /\ pc'[p] = "save" /\ bpc'[p] = "open" /\ job' = job
      BY <1>1, <2>3, <3>1, <3>2 DEF Remove, TypeOK
    <3>4. CASE s = t
      BY <1>1, <2>2, <3>3, <3>4 DEF Removed, Does, Idle, TypeOK
    <3>5. CASE s # t
      <4>1. s.id # t.id
        BY <1>1, <1>3, <3>1, <3>5 DEF Sound
      <4>2. \A q \in Proc : ~Removed(q, s)
        BY <2>2, <3>1 DEF Removed, Does
      <4>3. Intact(s)
        BY <1>3, <4>2 DEF FilesInv, ListedKept
      <4>. QED
        BY <1>1, <1>3, <3>3, <4>1, <4>3 DEF Intact, TypeOK
    <3>. QED
      BY <3>4, <3>5
  <2>4. CASE Sweep(p)
    <3>1. PICK t \in todo[p] :
            \/ /\ file' = [file EXCEPT ![t.id] = None] /\ idx' = [idx EXCEPT ![p] = idx[p] \ {t}]
               /\ pc' = [pc EXCEPT ![p] = "swept"]
            \/ UNCHANGED <<file, idx, pc>>
      BY <2>4 DEF Sweep
    <3>2. job' = job /\ bpc' = bpc /\ t \in Listed /\ pc[p] \in {"sweep", "swept"}
      BY <2>2, <2>4 DEF Sweep, Chosen
    <3>3. CASE Removed(p, s)
      BY <1>1, <2>2, <3>1, <3>2, <3>3 DEF Removed, Does, Idle, TypeOK
    <3>4. CASE ~Removed(p, s)
      <4>1. Intact(s)
        BY <1>3, <2>2, <3>4 DEF FilesInv, ListedKept, Removed, Does
      <4>2. s.id = t.id => s = t
        BY <1>1, <1>3, <3>2 DEF Sound
      <4>3. CASE file' = file
        BY <4>1, <4>3 DEF Intact
      <4>4. CASE file' # file /\ s = t
        BY <1>1, <2>2, <3>1, <3>2, <4>4 DEF Removed, Does, Idle, TypeOK
      <4>5. CASE s # t
        BY <1>1, <1>3, <3>1, <4>1, <4>2, <4>5 DEF Intact, TypeOK
      <4>. QED
        BY <4>3, <4>4, <4>5
    <3>. QED
      BY <3>3, <3>4
  <2>. QED
    BY <2>1, <2>3, <2>4
<1>4. CASE Listed' = Listed /\ ~ \E p \in Proc : Remove(p) \/ Sweep(p)
  <2>1. CASE Intact(s)
    <3>1. ASSUME NEW p \in Proc, SaveFile(p) PROVE file'[s.id] = s.hash
      BY <1>1, <1>4, <2>1, <3>1, SaveIsNew DEF Intact, TypeOK
    <3>. QED
      BY <1>4, <2>1, <3>1, FileStep DEF Intact
  <2>2. ASSUME NEW p \in Proc, Removed(p, s) PROVE Removed(p, s)'
    <3>1. /\ Orderly /\ Chosen(p) /\ Route(p) /\ ~Idle(p) /\ ~Does(p, Failing)
      BY <2>2, RemoverIsAlone DEF Removed, FilesInv, TypeInv, Does, Orderly
    <3>2. CASE Tick \/ UNCHANGED vars
      BY <2>2, <3>2 DEF Tick, vars, Removed, Does, Idle
    <3>3. CASE Step(p)
      <4>1. CASE OpenIndex(p)
        <5>1. index' = Empty
          BY <4>1 DEF OpenIndex
        <5>2. Listed' = {}
          BY <5>1, ListedNext
        <5>. QED
          BY <5>2
      <4>2. CASE ~OpenIndex(p)
        <5>1. Swept(p)
          BY <1>1, <1>4, <2>2, <3>1, <3>3, <4>2
                DEF TypeOK, Route, Chosen, Removed, Removing, Does, Step, ReadConfig,
                    StorageExists, MakeDirs, StatIndex, LoadIndex, SaveFile, WriteIndex,
                    SaveFails, Called, Truncate, Fill, Get, Validate, Reload, Reread, List,
                    End
        <5>. QED
          BY <1>1, <2>2, <5>1 DEF TypeOK, Removed, Does, Idle, Swept
      <4>. QED
        BY <4>1, <4>2
    <3>. QED
      BY <3>1, <3>2, <3>3, OnlyOne DEF FilesInv, Orderly
  <2>. QED
    BY <1>4, <2>1, <2>2 DEF FilesInv, ListedKept
<1>. QED
  BY <1>2, <1>3, <1>4

LEMMA FilesInvKept ==
  ASSUME Tidy
  PROVE  TypeInv /\ FilesInv /\ [Next]_vars => FilesInv'
<1>. SUFFICES ASSUME TypeInv, FilesInv, [Next]_vars PROVE FilesInv'
  OBVIOUS
<1>1. Alone' /\ ListedKept' /\ \A q \in Proc : Pending(q)' /\ Writable(q)'
  BY AloneKept, PendingKept, WritableKept, ListedKeptKept DEF FilesInv
<1>2. Orderly => \A q \in Proc : Chosen(q)'
  BY ChosenKept
<1>. QED
  BY <1>1, <1>2 DEF FilesInv, Orderly

(* What the index lists can be restored, however commands overlap and       *)
(* wherever they are killed, as long as none removes snapshots; and with    *)
(* removals when commands run one at a time on a project's storage and the  *)
(* removals are not cut short.  (A removal deletes the file before it saves *)
(* the index, and one that overlaps brings a removed snapshot back into the *)
(* index: the assumption is needed.)                                        *)
THEOREM ListedAlwaysRestorable ==
  ASSUME Unremoved \/ Orderly
  PROVE  Spec => []ListedIsRestorable
<1>1. TypeInv /\ FilesInv => ListedIsRestorable
  BY DEF ListedIsRestorable, Settled, FilesInv, ListedKept, Removed, Removing
<1>. QED
  BY <1>1, InitTyped, InitKept, TypeInvKept, FilesInvKept, PTL DEF Spec, Tidy

-----------------------------------------------------------------------------
\* What is overwritten can be restored

\* What is not an index is no set of snapshots.
Marked == {None, Empty, Corrupt} \cap SUBSET Snapshot = {}

LEMMA IndexIsListed == index \notin {None, Empty, Corrupt} => Listed = index
BY DEF Listed, Loaded

LEMMA IndexIsListedNext == (index \notin {None, Empty, Corrupt} => Listed = index)'
BY IndexIsListed, PTL

LEMMA InitBacked == Init => BackedInv
BY DEF Init, BackedInv, Backed, Does, Idle

(* On its way to overwrite, a command that runs alone has the configuration *)
(* as it read it in the index or in its hands.                              *)
LEMMA BackedKept ==
  ASSUME TypeInv, FilesInv, BackedInv, Orderly, Marked, [Next]_vars, NEW q \in Proc
  PROVE  Backed(q)'
<1>. SUFFICES ASSUME pc'[q] # "idle", job'[q].op \in {"sync", "restore"}
              PROVE  Backed(q)'
  BY DEF Backed, Does, Idle
<1>. USE DEF disk, local
<1>1. TypeOK /\ Route(q) /\ Backed(q) /\ Exclusive /\ Alone
  BY DEF TypeInv, FilesInv, BackedInv, Orderly
<1>2. UNCHANGED index => Listed' = Listed
  BY DEF Listed, Loaded
<1>3. CASE Idle(q)
  <2>1. \A p \in Proc : Step(p) => p # q
    BY <1>3, StepIsBusy
  <2>2. CASE ~Start(q)
    <3>1. pc'[q] = pc[q]
      BY <2>1, <2>2, OthersLeave
    <3>. QED
      BY <1>3, <3>1 DEF Idle
  <2>3. CASE Start(q)
    <3>1. PICK j \in Job :
            /\ job' = [job EXCEPT ![q] = j]
            /\ pc' = [pc EXCEPT ![q] = FirstStep(j.op)]
            /\ bpc' = [bpc EXCEPT ![q] = IF BacksUp(j.op) THEN "read" ELSE "none"]
      BY <2>3 DEF Start
    <3>2. j.op \in {"sync", "restore"} /\ config' = config
      BY <1>1, <2>3, <3>1 DEF TypeOK, Start
    <3>3. bpc'[q] \in {"read", "none"} /\ pc'[q] = FirstStep(j.op)
      BY <1>1, <3>1 DEF TypeOK
    <3>4. pc'[q] \in {"reload", "truncate"} => config' = None
      BY <3>2, <3>3 DEF FirstStep
    <3>. QED
      BY <3>3, <3>4 DEF Backed, Calling
  <2>. QED
    BY <2>2, <2>3
<1>4. CASE ~Idle(q) /\ (Tick \/ UNCHANGED vars)
  BY <1>1, <1>2, <1>4 DEF Tick, vars, Backed, Does, Idle, Held
<1>5. CASE ~Idle(q) /\ Step(q)
  <2>1. job[q].op = job'[q].op
    BY <1>1, <1>5 DEF TypeOK, Route, Idle, Asked, Step, ReadConfig, StorageExists, MakeDirs,
                      StatIndex, LoadIndex, SaveFile, OpenIndex, WriteIndex, SaveFails,
                      Called, Truncate, Fill, Get, Validate, Reload, Reread, Remove, List,
                      Sweep, Swept, End
  <2>2. /\ Does(q, {"sync", "restore"}) /\ Backed(q)
        /\ job[q].op \notin Removing \cup {"async", "init"}
    BY <1>1, <1>5, <2>1 DEF Does, Removing
  <2>. USE <1>1, <2>2 DEF TypeOK, Route, Backed, Held, Does, Idle, Calling
  <2>3. CASE ReadConfig(q)
    BY <1>2, <2>1, <2>3 DEF ReadConfig
  <2>4. CASE StorageExists(q)
    BY <1>2, <2>1, <2>4 DEF StorageExists
  <2>5. CASE MakeDirs(q)
    BY <1>2, <2>1, <2>5 DEF MakeDirs
  <2>6. CASE StatIndex(q)
    BY <1>2, <2>1, <2>6 DEF StatIndex
  <2>7. CASE LoadIndex(q)
    <3>1. /\ bpc[q] = "load" /\ data[q] = config /\ UNCHANGED <<config, index, data, pc>>
          /\ Listed' = Listed
      BY <1>2, <2>7 DEF LoadIndex
    <3>2. bpc'[q] \in {"failed", "ok", "file"} /\ pc[q] = "backup"
      BY <2>7 DEF LoadIndex
    <3>3. bpc'[q] = "ok" => Held(config)
      BY <2>7, <3>1, LoadedIsListed DEF LoadIndex
    <3>4. bpc'[q] = "file" => \E s \in idx'[q] : s.hash = data[q]
      <4>. SUFFICES ASSUME bpc'[q] = "file" PROVE \E s \in idx'[q] : s.hash = data[q]
        OBVIOUS
      <4>1. PICK st \in Loaded :
              idx' = [idx EXCEPT ![q] =
                st \cup {[id |-> clock + 1, hash |-> data[q], chain |-> NextChain(st)]}]
        BY <2>7 DEF LoadIndex
      <4>. DEFINE new == [id |-> clock + 1, hash |-> data[q], chain |-> NextChain(st)]
      <4>2. idx'[q] = st \cup {new} /\ new.hash = data[q]
        BY <4>1
      <4>. HIDE DEF new
      <4>. QED
        BY <4>2
    <3>. QED
      BY <3>1, <3>2, <3>3, <3>4
  <2>8. CASE SaveFile(q)
    BY <1>2, <2>1, <2>8 DEF SaveFile
  <2>9. CASE OpenIndex(q)
    BY <1>2, <2>1, <2>9 DEF OpenIndex
  <2>10. CASE WriteIndex(q)
    <3>1. /\ UNCHANGED <<config, data, pc, idx, job>> /\ pc[q] = "backup"
          /\ bpc[q] \in {"initwrite", "write"}
      BY <2>10 DEF WriteIndex
    <3>2. CASE bpc[q] = "initwrite"
      BY <2>10, <3>1, <3>2 DEF WriteIndex
    <3>3. CASE bpc[q] = "write"
      <4>1. index' = idx[q] /\ bpc'[q] = "ok" /\ data[q] = config
        BY <2>10, <3>3 DEF WriteIndex, Written
      <4>2. Listed' = idx[q]
        BY <4>1, IndexIsListedNext DEF Marked
      <4>3. \E s \in Listed' : s.hash = config'
        BY <3>1, <3>3, <4>1, <4>2
      <4>. QED
        BY <3>1, <4>1, <4>3
    <3>. QED
      BY <3>1, <3>2, <3>3
  <2>11. CASE SaveFails(q)
    BY <1>2, <2>1, <2>11 DEF SaveFails
  <2>12. CASE Called(q)
    BY <1>2, <2>1, <2>12 DEF Called, Proceeds, Writes
  <2>13. CASE Truncate(q)
    BY <1>2, <2>1, <2>13 DEF Truncate
  <2>14. CASE Fill(q)
    BY <1>2, <2>1, <2>14 DEF Fill
  <2>15. CASE Get(q)
    BY <1>2, <2>1, <2>15 DEF Get
  <2>16. CASE Validate(q)
    <3>1. UNCHANGED <<config, index, data>> /\ bpc'[q] \in {"read", "none"}
          /\ pc'[q] \in {"exit", "backup", "reload"}
      BY <2>16 DEF Validate
    <3>2. pc'[q] = "reload" => config = None
      BY <2>16 DEF Validate, Restoring
    <3>. QED
      BY <1>2, <3>1, <3>2
  <2>17. CASE Reload(q)
    BY <1>2, <2>1, <2>17 DEF Reload, Asked
  <2>18. CASE Reread(q)
    BY <1>2, <2>1, <2>18 DEF Reread
  <2>19. CASE Remove(q)
    BY <1>2, <2>1, <2>19 DEF Remove
  <2>20. CASE List(q)
    BY <1>2, <2>1, <2>20 DEF List
  <2>21. CASE Sweep(q)
    BY <1>2, <2>1, <2>21 DEF Sweep
  <2>22. CASE Swept(q)
    BY <1>2, <2>1, <2>22 DEF Swept
  <2>23. CASE End(q)
    BY <1>2, <2>1, <2>23 DEF End
  <2>. QED
    BY <1>5, <2>3, <2>4, <2>5, <2>6, <2>7, <2>8, <2>9, <2>10, <2>11, <2>12, <2>13, <2>14,
       <2>15, <2>16, <2>17, <2>18, <2>19, <2>20, <2>21, <2>22, <2>23
       DEF Step
<1>. QED
  BY <1>1, <1>3, <1>4, <1>5, OnlyOne

(* Commands that run one at a time on a project's storage, with removals    *)
(* that are not cut short, back up what they overwrite: when a synchronous  *)
(* write or a restore truncates the configuration, its content is in a      *)
(* snapshot that is listed and on disk, whoever was killed before.  (On the *)
(* user's storage a delete leaves its snapshot in the index, and a restore  *)
(* then destroys the only copy: the run backup_global_delete.)              *)
THEOREM OverwriteAlwaysBackedUp ==
  ASSUME Orderly, Marked
  PROVE  Spec => OverwriteIsBackedUp
<1>. DEFINE Overwrites == \A p \in Proc :
         /\ pc[p] = "truncate" /\ pc'[p] = "fill"
         /\ job[p].op \in {"sync", "restore"}
         /\ config \notin {None, job[p].text}
         => \E s \in Listed : s.hash = config /\ Intact(s)
<1>1. TypeInv /\ FilesInv /\ BackedInv /\ [Next]_vars => [Overwrites]_vars
  <2>. SUFFICES ASSUME TypeInv, FilesInv, BackedInv, NEW p \in Proc,
                       pc[p] = "truncate", job[p].op \in {"sync", "restore"}, config # None
                PROVE  \E s \in Listed : s.hash = config /\ Intact(s)
    OBVIOUS
  <2>1. Held(config)
    BY DEF BackedInv, Backed, Does, Idle
  <2>2. \A s \in Listed : Intact(s)
    BY ListedOnDisk DEF Tidy, Idle
  <2>. QED
    BY <2>1, <2>2 DEF Held
<1>2. TypeInv /\ FilesInv /\ BackedInv /\ [Next]_vars => TypeInv' /\ FilesInv' /\ BackedInv'
  <2>. SUFFICES ASSUME TypeInv, FilesInv, BackedInv, [Next]_vars
                PROVE  TypeInv' /\ FilesInv' /\ BackedInv'
    OBVIOUS
  <2>1. \A q \in Proc : Backed(q)'
    BY BackedKept
  <2>. QED
    BY <2>1, TypeInvKept, FilesInvKept DEF BackedInv, Tidy
<1>3. Init => TypeInv /\ FilesInv /\ BackedInv
  BY InitTyped, InitKept, InitBacked
<1>. QED
  BY <1>1, <1>2, <1>3, PTL DEF Spec, OverwriteIsBackedUp

-----------------------------------------------------------------------------
\* Sizes

\* What MapThenSumSet makes of a set: it takes out one snapshot after the other.
Pick(s) == CHOOSE x \in s : TRUE
Weight(x) == SizeOf[x.hash]
Weigh(all, f) ==
  [s \in SUBSET all |-> IF s = {} THEN 0 ELSE Weight(Pick(s)) + f[s \ {Pick(s)}]]

LEMMA PickIn == \A s : s # {} => Pick(s) \in s
BY DEF Pick

LEMMA TotalIsWeighed ==
  ASSUME NEW all
  PROVE  Total(all) = (CHOOSE f : f = Weigh(all, f))[all]
BY DEF Total, MapThenSumSet, MapThenFoldSet, Weigh, Weight, Pick

\* Among subsets of a finite set there is one that contains no other.
LEMMA SmallestExists ==
  ASSUME NEW all, IsFiniteSet(all), NEW X \in SUBSET (SUBSET all), X # {}
  PROVE  \E m \in X : \A u \in SUBSET m : u # m => u \notin X
<1>1. IsWellFoundedOn(StrictSubsetOrdering(all), SUBSET all)
  BY FS_StrictSubsetOrderingWellFounded, FS_FiniteSubsetsOfFinite
<1>2. PICK m \in X : \A u \in X : ~(<<u, m>> \in StrictSubsetOrdering(all))
  BY <1>1, WFMin
<1>3. ASSUME NEW u \in SUBSET m, u # m, u \in X PROVE FALSE
  BY <1>2, <1>3 DEF StrictSubsetOrdering
<1>. QED
  BY <1>3

LEMMA WeighedAgree ==
  ASSUME NEW all, IsFiniteSet(all), NEW part \in SUBSET all,
         NEW f, f = Weigh(all, f), NEW g, g = Weigh(part, g)
  PROVE  \A s \in SUBSET part : f[s] = g[s]
<1>. DEFINE X == {s \in SUBSET part : f[s] # g[s]}
<1>. SUFFICES ASSUME X # {} PROVE FALSE
  OBVIOUS
<1>1. IsFiniteSet(part)
  BY FS_Subset
<1>2. PICK m \in X : \A u \in SUBSET m : u # m => u \notin X
  <2>. HIDE DEF X
  <2>1. X \in SUBSET (SUBSET part)
    BY DEF X
  <2>. QED
    BY <1>1, <2>1, SmallestExists
<1>3. m \in SUBSET part /\ m \in SUBSET all /\ f[m] # g[m]
  OBVIOUS
<1>4. /\ f[m] = IF m = {} THEN 0 ELSE Weight(Pick(m)) + f[m \ {Pick(m)}]
      /\ g[m] = IF m = {} THEN 0 ELSE Weight(Pick(m)) + g[m \ {Pick(m)}]
  BY <1>3 DEF Weigh
<1>5. m # {} => f[m \ {Pick(m)}] = g[m \ {Pick(m)}]
  <2>. DEFINE u == m \ {Pick(m)}
  <2>1. m # {} => u \in SUBSET m /\ u # m
    BY PickIn
  <2>. QED
    BY <1>2, <1>3, <2>1
<1>. QED
  BY <1>3, <1>4, <1>5

LEMMA WeighedExists ==
  ASSUME NEW all, IsFiniteSet(all)
  PROVE  \E f : f = Weigh(all, f)
<1>. DEFINE X == {s \in SUBSET all : ~ \E f : f = Weigh(s, f)}
<1>. SUFFICES ASSUME X # {} PROVE FALSE
  OBVIOUS
<1>1. PICK m \in X : \A u \in SUBSET m : u # m => u \notin X
  <2>. HIDE DEF X
  <2>1. X \in SUBSET (SUBSET all)
    BY DEF X
  <2>. QED
    BY <2>1, SmallestExists
<1>2. m \in SUBSET all /\ IsFiniteSet(m) /\ ~ \E f : f = Weigh(m, f)
  BY FS_Subset
<1>. DEFINE Fun(u) == CHOOSE f : f = Weigh(u, f)
<1>3. \A u \in SUBSET m : u # m => Fun(u) = Weigh(u, Fun(u))
  BY <1>1
<1>. HIDE DEF X
<1>4. ASSUME NEW u \in SUBSET m, u # m
      PROVE  Total(u) = IF u = {} THEN 0 ELSE Weight(Pick(u)) + Total(u \ {Pick(u)})
  <2>. DEFINE v == u \ {Pick(u)}
  <2>1. v \in SUBSET u /\ v \in SUBSET m /\ v # m /\ IsFiniteSet(u)
    BY <1>2, <1>4, FS_Subset
  <2>2. Fun(u) = Weigh(u, Fun(u)) /\ Fun(v) = Weigh(v, Fun(v))
    BY <1>3, <1>4, <2>1
  <2>3. Total(u) = Fun(u)[u] /\ Total(v) = Fun(v)[v]
    BY TotalIsWeighed
  <2>. HIDE DEF Fun
  <2>4. Fun(u)[v] = Fun(v)[v]
    <3>. HIDE DEF v
    <3>. QED
      BY <2>1, <2>2, WeighedAgree
  <2>5. Fun(u)[u] = IF u = {} THEN 0 ELSE Weight(Pick(u)) + Fun(u)[v]
    BY <2>2 DEF Weigh
  <2>. QED
    BY <2>3, <2>4, <2>5
<1>. DEFINE f == [s \in SUBSET m |->
                    IF s = {} THEN 0 ELSE Weight(Pick(s)) + Total(s \ {Pick(s)})]
<1>5. ASSUME NEW s \in SUBSET m, s # {}
      PROVE  f[s \ {Pick(s)}] = Total(s \ {Pick(s)})
  <2>1. s \ {Pick(s)} \in SUBSET m /\ s \ {Pick(s)} # m
    BY <1>5, PickIn
  <2>. QED
    BY <1>4, <2>1
<1>6. f = Weigh(m, f)
  BY <1>5 DEF Weigh
<1>. QED
  BY <1>2, <1>6

(* The size of a set is the sum over its snapshots, in whatever order.      *)
LEMMA TotalStep ==
  ASSUME NEW all, IsFiniteSet(all)
  PROVE  Total(all) = IF all = {} THEN 0 ELSE Weight(Pick(all)) + Total(all \ {Pick(all)})
<1>. DEFINE Fun(u) == CHOOSE f : f = Weigh(u, f)
            v == all \ {Pick(all)}
<1>1. v \in SUBSET all /\ IsFiniteSet(v)
  BY FS_Subset
<1>2. Fun(all) = Weigh(all, Fun(all)) /\ Fun(v) = Weigh(v, Fun(v))
  BY <1>1, WeighedExists
<1>3. Total(all) = Fun(all)[all] /\ Total(v) = Fun(v)[v]
  BY TotalIsWeighed
<1>. HIDE DEF Fun
<1>4. Fun(all)[v] = Fun(v)[v]
  <2>. HIDE DEF v
  <2>. QED
    BY <1>1, <1>2, WeighedAgree
<1>5. Fun(all)[all] = IF all = {} THEN 0 ELSE Weight(Pick(all)) + Fun(all)[v]
  BY <1>2 DEF Weigh
<1>. QED
  BY <1>3, <1>4, <1>5

LEMMA WeightIsNat == \A x \in Snapshot : Weight(x) \in Nat
BY SizeAssumption DEF Weight, Snapshot

LEMMA TotalIsNat ==
  ASSUME NEW all \in SUBSET Snapshot, IsFiniteSet(all)
  PROVE  Total(all) \in Nat
<1>. DEFINE X == {s \in SUBSET all : Total(s) \notin Nat}
<1>. SUFFICES ASSUME X # {} PROVE FALSE
  OBVIOUS
<1>1. PICK m \in X : \A u \in SUBSET m : u # m => u \notin X
  <2>. HIDE DEF X
  <2>1. X \in SUBSET (SUBSET all)
    BY DEF X
  <2>. QED
    BY <2>1, SmallestExists
<1>2. m \in SUBSET all /\ Total(m) \notin Nat
  OBVIOUS
<1>3. Total(m) = IF m = {} THEN 0 ELSE Weight(Pick(m)) + Total(m \ {Pick(m)})
  BY <1>2, FS_Subset, TotalStep
<1>4. m # {} => Weight(Pick(m)) \in Nat /\ Total(m \ {Pick(m)}) \in Nat
  <2>1. m # {} => Pick(m) \in m
    BY PickIn
  <2>2. m # {} => m \ {Pick(m)} \in SUBSET m /\ m \ {Pick(m)} # m
    BY <2>1
  <2>3. m # {} => m \ {Pick(m)} \in SUBSET all /\ m \ {Pick(m)} \notin X
    BY <1>1, <1>2, <2>2
  <2>. QED
    BY <1>2, <2>1, <2>3, WeightIsNat
<1>. QED
  BY <1>2, <1>3, <1>4

LEMMA TotalWithout ==
  ASSUME NEW all \in SUBSET Snapshot, IsFiniteSet(all)
  PROVE  \A x \in all : Total(all) = Weight(x) + Total(all \ {x})
<1>. DEFINE X == {s \in SUBSET all : \E x \in s : Total(s) # Weight(x) + Total(s \ {x})}
<1>. SUFFICES ASSUME X # {} PROVE FALSE
  OBVIOUS
<1>1. PICK m \in X : \A u \in SUBSET m : u # m => u \notin X
  <2>. HIDE DEF X
  <2>1. X \in SUBSET (SUBSET all)
    BY DEF X
  <2>. QED
    BY <2>1, SmallestExists
<1>2. m \in SUBSET all
  OBVIOUS
<1>3. PICK x \in m : Total(m) # Weight(x) + Total(m \ {x})
  OBVIOUS
<1>. DEFINE p == Pick(m)
            rest == (m \ {p}) \ {x}
<1>4. p \in m
  BY <1>3, PickIn
<1>5. Total(m) = Weight(p) + Total(m \ {p})
  BY <1>2, <1>3, FS_Subset, TotalStep
<1>6. x # p
  BY <1>3, <1>5
<1>7. Total(m \ {p}) = Weight(x) + Total(rest)
  <2>1. m \ {p} \in SUBSET m /\ m \ {p} # m /\ x \in m \ {p}
    BY <1>3, <1>4, <1>6
  <2>2. m \ {p} \notin X /\ m \ {p} \in SUBSET all
    BY <1>1, <1>2, <2>1
  <2>. QED
    BY <2>1, <2>2
<1>8. Total(m \ {x}) = Weight(p) + Total(rest)
  <2>1. m \ {x} \in SUBSET m /\ m \ {x} # m /\ p \in m \ {x}
    BY <1>3, <1>4, <1>6
  <2>2. m \ {x} \notin X /\ m \ {x} \in SUBSET all
    BY <1>1, <1>2, <2>1
  <2>3. rest = (m \ {x}) \ {p}
    OBVIOUS
  <2>. QED
    BY <2>1, <2>2, <2>3
<1>9. Weight(p) \in Nat /\ Weight(x) \in Nat /\ Total(rest) \in Nat
  <2>1. rest \in SUBSET all /\ p \in Snapshot /\ x \in Snapshot
    BY <1>2, <1>3, <1>4
  <2>. QED
    BY <2>1, FS_Subset, WeightIsNat, TotalIsNat
<1>. QED
  BY <1>3, <1>5, <1>7, <1>8, <1>9

LEMMA TotalSplits ==
  ASSUME NEW all \in SUBSET Snapshot, IsFiniteSet(all), NEW part \in SUBSET all
  PROVE  Total(all) = Total(part) + Total(all \ part)
<1>. DEFINE X == {s \in SUBSET all : Total(all) # Total(s) + Total(all \ s)}
<1>. SUFFICES ASSUME X # {} PROVE FALSE
  OBVIOUS
<1>1. PICK m \in X : \A u \in SUBSET m : u # m => u \notin X
  <2>. HIDE DEF X
  <2>1. X \in SUBSET (SUBSET all)
    BY DEF X
  <2>. QED
    BY <2>1, SmallestExists
<1>2. m \in SUBSET all /\ Total(all) # Total(m) + Total(all \ m)
  OBVIOUS
<1>3. m # {}
  <2>1. Total({}) = 0 /\ Total(all) \in Nat
    BY FS_EmptySet, TotalStep, TotalIsNat
  <2>2. all \ {} = all
    OBVIOUS
  <2>. QED
    BY <1>2, <2>1, <2>2
<1>4. PICK x \in m : TRUE
  BY <1>3
<1>. DEFINE u == m \ {x}
            v == all \ u
<1>5. Total(all) = Total(u) + Total(v)
  <2>1. u \in SUBSET m /\ u # m
    BY <1>4
  <2>2. u \notin X /\ u \in SUBSET all
    BY <1>1, <1>2, <2>1
  <2>. QED
    BY <2>2
<1>6. v \ {x} = all \ m /\ x \in v /\ v \in SUBSET Snapshot /\ IsFiniteSet(v)
  BY <1>2, <1>4, FS_Subset
<1>7. Total(v) = Weight(x) + Total(all \ m)
  <2>. HIDE DEF v
  <2>. QED
    BY <1>6, TotalWithout
<1>8. Total(m) = Weight(x) + Total(u)
  BY <1>2, <1>4, FS_Subset, TotalWithout
<1>9. Weight(x) \in Nat /\ Total(u) \in Nat /\ Total(all \ m) \in Nat
  <2>1. u \in SUBSET all /\ all \ m \in SUBSET all /\ x \in Snapshot
    BY <1>2, <1>4
  <2>. QED
    BY <2>1, FS_Subset, WeightIsNat, TotalIsNat
<1>. QED
  BY <1>2, <1>5, <1>7, <1>8, <1>9

-----------------------------------------------------------------------------
\* Retention

(* No set of snapshots is larger than one that contains it.                 *)
LEMMA TotalGrows ==
  ASSUME NEW all \in SUBSET Snapshot, IsFiniteSet(all), NEW part \in SUBSET all
  PROVE  Total(part) =< Total(all)
<1>1. Total(part) \in Nat /\ Total(all \ part) \in Nat /\ Total(all) \in Nat
  <2>1. IsFiniteSet(part) /\ IsFiniteSet(all \ part)
    BY FS_Subset
  <2>. QED
    BY <2>1, TotalIsNat
<1>2. Total(all) = Total(part) + Total(all \ part)
  BY TotalSplits
<1>. QED
  BY <1>1, <1>2

LEMMA SoundIsFinite ==
  ASSUME NEW t \in Nat, NEW st, Sound(st, t)
  PROVE  IsFiniteSet(st)
<1>. DEFINE f == [s \in st |-> s.id]
<1>1. f \in Injection(st, 1..t)
  BY DEF Sound, Injection, IsInjective
<1>. QED
  BY <1>1, FS_Injection, FS_Interval

\* A chain is a single snapshot, and its oldest and newest are that snapshot.
LEMMA ChainIsOne ==
  ASSUME NEW t \in Nat, NEW st, Sound(st, t), NEW s \in st
  PROVE  /\ Members(st, s.chain) = {s}
         /\ Newest({s}) = s.id /\ Oldest({s}) = s.id
<1>1. s.id \in Nat
  BY DEF Sound
<1>2. {u.id : u \in {s}} = {s.id}
  OBVIOUS
<1>3. Max({s.id}) = s.id /\ Min({s.id}) = s.id
  BY <1>1 DEF Max, Min
<1>. QED
  BY <1>2, <1>3 DEF Sound, Members, Newest, Oldest

\* The count policy keeps a snapshot when it and the newer ones are not too many.
LEMMA CountKeeps ==
  ASSUME NEW t \in Nat, NEW st, Sound(st, t), NEW s \in st
  PROVE  CountRetains(s, st) <=> Cardinality(Since(st, s.id)) <= MaxBackups
<1>. DEFINE newer == {u \in st : u.id > s.id}
            chains == {c \in Chains(st) :
                         Newest(Members(st, c)) > Newest(Members(st, s.chain))}
            f == [u \in newer |-> u.chain]
<1>1. ASSUME NEW u \in st PROVE Newest(Members(st, u.chain)) = u.id /\ u.id \in Nat
  <2>1. Members(st, u.chain) = {u} /\ Newest({u}) = u.id
    BY ChainIsOne
  <2>. QED
    BY <2>1 DEF Sound
<1>2. chains = {u.chain : u \in newer}
  BY <1>1 DEF Chains
<1>3. f \in Bijection(newer, chains)
  <2>1. \A u, v \in newer : u.chain = v.chain => u = v
    BY DEF Sound
  <2>2. f \in [newer -> chains] /\ \A c \in chains : \E u \in newer : f[u] = c
    BY <1>2
  <2>. HIDE DEF newer, chains
  <2>. QED
    BY <2>1, <2>2 DEF Bijection, Injection, Surjection, IsInjective
<1>4. IsFiniteSet(newer)
  BY SoundIsFinite, FS_Subset
<1>5. Cardinality(chains) = Cardinality(newer)
  <2>. HIDE DEF newer, chains, f
  <2>. QED
    BY <1>3, <1>4, FS_Bijection DEF ExistsBijection
<1>6. Since(st, s.id) = newer \cup {s} /\ s \notin newer
  BY <1>1 DEF Since, Sound
<1>7. Cardinality(Since(st, s.id)) = Cardinality(newer) + 1 /\ Cardinality(newer) \in Nat
  <2>. HIDE DEF newer
  <2>. QED
    BY <1>4, <1>6, FS_AddElement, FS_CardinalityType
<1>8. CountRetains(s, st) <=> Cardinality(newer) < MaxBackups
  BY <1>5 DEF CountRetains
<1>. HIDE DEF newer, chains
<1>. QED
  BY <1>7, <1>8, LimitAssumption

\* The size that is left without the chains older than a snapshot's.
LEMMA SizeLeft ==
  ASSUME NEW t \in Nat, NEW st, Sound(st, t), NEW s \in st
  PROVE  LET older == {u \in st : Oldest(Members(st, u.chain)) < Oldest(Members(st, s.chain))}
         IN  /\ Total(st) - Total(older) = Total(Since(st, s.id))
             /\ Total(older) \in Nat /\ Total(st) \in Nat
             /\ Total(Since(st, s.id)) \in Nat
             /\ Total(Since(st, s.id)) =< Total(st)
             /\ Weight(s) \in Nat /\ Weight(s) =< Total(Since(st, s.id))
<1>. DEFINE older == {u \in st : Oldest(Members(st, u.chain)) < Oldest(Members(st, s.chain))}
            since == Since(st, s.id)
<1>1. ASSUME NEW u \in st PROVE Oldest(Members(st, u.chain)) = u.id /\ u.id \in Nat
  <2>1. Members(st, u.chain) = {u} /\ Oldest({u}) = u.id
    BY ChainIsOne
  <2>. QED
    BY <2>1 DEF Sound
<1>2. since = st \ older /\ s \in since
  BY <1>1 DEF Since
<1>3. older \in SUBSET st /\ since \in SUBSET st
  BY <1>2
<1>. HIDE DEF older, since
<1>4. st \in SUBSET Snapshot /\ IsFiniteSet(st)
  BY SoundIsFinite DEF Sound
<1>5. IsFiniteSet(older) /\ IsFiniteSet(since)
  BY <1>3, <1>4, FS_Subset
<1>6. Total(older) \in Nat /\ Total(st) \in Nat /\ Total(since) \in Nat
  BY <1>3, <1>4, <1>5, TotalIsNat
<1>7. Total(st) = Total(older) + Total(since)
  BY <1>2, <1>3, <1>4, TotalSplits
<1>8. Weight(s) \in Nat /\ Weight(s) =< Total(since)
  <2>1. Total(since) = Weight(s) + Total(since \ {s})
    BY <1>2, <1>3, <1>4, <1>5, TotalWithout
  <2>2. since \ {s} \in SUBSET Snapshot /\ IsFiniteSet(since \ {s})
    BY <1>3, <1>4, <1>5, FS_Subset
  <2>3. Total(since \ {s}) \in Nat /\ Weight(s) \in Nat
    BY <1>4, <2>2, TotalIsNat, WeightIsNat
  <2>. QED
    BY <2>1, <2>3
<1>9. Total(st) - Total(older) = Total(since) /\ Total(since) =< Total(st)
  BY <1>6, <1>7
<1>. QED
  BY <1>6, <1>8, <1>9 DEF older, since

\* The three policies keep a snapshot together when it and all newer ones fit.
LEMMA RetainsIffWithin ==
  ASSUME NEW t \in Nat, NEW st, Sound(st, t), NEW s \in st
  PROVE  ShouldRetain(s, st, Members(st, s.chain), Total(st), t)
            <=> Within(Since(st, s.id), t)
<1>1. CountRetains(s, st) <=> Cardinality(Since(st, s.id)) <= MaxBackups
  BY CountKeeps
<1>2. SizeRetains(s, st, Total(st)) <=> Total(Since(st, s.id)) <= MaxSize
  <2>. DEFINE older == {u \in st : Oldest(Members(st, u.chain))
                                     < Oldest(Members(st, s.chain))}
  <2>1. SizeRetains(s, st, Total(st)) <=>
          Total(st) <= MaxSize \/ Total(st) - Total(older) <= MaxSize
    BY DEF SizeRetains
  <2>2. /\ Total(st) - Total(older) = Total(Since(st, s.id))
        /\ Total(Since(st, s.id)) =< Total(st)
        /\ Total(Since(st, s.id)) \in Nat /\ Total(st) \in Nat
    BY SizeLeft
  <2>. HIDE DEF older
  <2>. QED
    BY <2>1, <2>2, LimitAssumption
<1>3. AgeRetains(Members(st, s.chain), t) <=> \A u \in Since(st, s.id) : t - u.id <= MaxAge
  <2>1. AgeRetains(Members(st, s.chain), t) <=> t - s.id <= MaxAge
    BY ChainIsOne DEF AgeRetains
  <2>2. s \in Since(st, s.id) /\ \A u \in Since(st, s.id) : u.id >= s.id /\ u.id \in Nat
    BY DEF Since, Sound
  <2>3. s.id \in Nat
    BY DEF Sound
  <2>. QED
    BY <2>1, <2>2, <2>3, LimitAssumption
<1>. QED
  BY <1>1, <1>2, <1>3 DEF ShouldRetain, Within

\* Fewer of the newest snapshots are within the limits if more of them are.
LEMMA WithinFewer ==
  ASSUME NEW t \in Nat, NEW st, Sound(st, t), NEW s \in st, NEW u \in Since(st, s.id),
         Within(Since(st, s.id), t)
  PROVE  Within(Since(st, u.id), t)
<1>. DEFINE more == Since(st, s.id)
            fewer == Since(st, u.id)
<1>1. fewer \in SUBSET more /\ more \in SUBSET st
  BY DEF Since, Sound
<1>. HIDE DEF more, fewer
<1>2. st \in SUBSET Snapshot /\ IsFiniteSet(more) /\ IsFiniteSet(fewer)
  BY <1>1, SoundIsFinite, FS_Subset DEF Sound
<1>3. Cardinality(fewer) =< Cardinality(more) /\ Total(fewer) =< Total(more)
  BY <1>1, <1>2, FS_Subset, TotalGrows
<1>4. /\ Cardinality(fewer) \in Nat /\ Cardinality(more) \in Nat
      /\ Total(fewer) \in Nat /\ Total(more) \in Nat
  BY <1>1, <1>2, FS_CardinalityType, TotalIsNat
<1>5. /\ Cardinality(more) <= MaxBackups /\ Total(more) <= MaxSize
      /\ \A v \in more : t - v.id <= MaxAge
  BY DEF Within, more
<1>6. Cardinality(fewer) <= MaxBackups /\ Total(fewer) <= MaxSize
  BY <1>3, <1>4, <1>5, LimitAssumption
<1>. QED
  BY <1>1, <1>5, <1>6 DEF Within, fewer

(* Judging every snapshot by itself, the policies keep exactly the largest  *)
(* set of newest snapshots that is within the limits.                       *)
LEMMA RemovesTheRest ==
  ASSUME NEW t \in Nat, NEW st, Sound(st, t)
  PROVE  st \ ToRemove(st, t) = Retained(st, t)
<1>1. \A s \in st : s \in Since(st, s.id)
  BY DEF Since, Sound
<1>2. \A s \in st \ ToRemove(st, t) : Within(Since(st, s.id), t)
  BY RetainsIffWithin DEF ToRemove
<1>3. ASSUME NEW s \in st, Within(Since(st, s.id), t), NEW u \in Since(st, s.id)
      PROVE  u \in st \ ToRemove(st, t)
  <2>1. u \in st
    BY DEF Since
  <2>2. Within(Since(st, u.id), t)
    BY <1>3, WithinFewer
  <2>3. ShouldRetain(u, st, Members(st, u.chain), Total(st), t)
    BY <2>1, <2>2, RetainsIffWithin
  <2>. QED
    BY <2>1, <2>3 DEF ToRemove
<1>. QED
  BY <1>1, <1>2, <1>3 DEF Retained

(* The dry run judges a snapshot's own size only.                           *)
LEMMA PreviewsNoMore ==
  ASSUME NEW t \in Nat, NEW st, Sound(st, t)
  PROVE  /\ Preview(st, t) \subseteq ToRemove(st, t)
         /\ Total(st) <= MaxSize => Preview(st, t) = ToRemove(st, t)
<1>1. ASSUME NEW s \in st
      PROVE  /\ SizeRetains(s, st, Total(st)) => SizeRetains(s, st, SizeOf[s.hash])
             /\ Total(st) <= MaxSize =>
                  SizeRetains(s, st, Total(st)) /\ SizeRetains(s, st, SizeOf[s.hash])
  BY SizeLeft, LimitAssumption DEF SizeRetains, Weight
<1>2. \A s \in st : Members(st, s.chain) = {s}
  BY ChainIsOne
<1>. QED
  BY <1>1, <1>2 DEF Preview, ToRemove, ShouldRetain

(* Only a prune comes to sweep, with the listed snapshots and with what     *)
(* retention removes of them.                                               *)
LEMMA ListTakes ==
  ASSUME TypeInv, [Next]_vars, NEW p \in Proc, pc[p] = "list", pc'[p] = "sweep"
  PROVE  /\ clock \in Nat /\ Sound(idx'[p], clock)
         /\ todo'[p] = ToRemove(idx'[p], clock)
<1>. USE DEF disk, local
<1>1. TypeOK /\ Sound(Listed, clock) /\ clock \in Nat /\ Route(p)
  BY ModeAssumption DEF TypeInv, AllSound, TypeOK
<1>2. List(p)
  <2>1. Step(p)
    BY OthersLeave DEF Start, Idle
  <2>. QED
    BY <1>1, <2>1 DEF Step, TypeOK, ReadConfig, StorageExists, MakeDirs,
                StatIndex, LoadIndex, SaveFile, OpenIndex, WriteIndex, SaveFails, Called,
                Truncate, Fill, Get, Validate, Reload, Reread, Remove, Sweep, Swept,
                End
<1>3. PICK st \in Loaded : /\ idx' = [idx EXCEPT ![p] = st]
                           /\ todo' = [todo EXCEPT ![p] = ToRemove(st, clock)]
  BY <1>1, <1>2 DEF List, TypeOK
<1>4. st = Listed
  BY <1>3, LoadedIsListed
<1>. QED
  BY <1>1, <1>3, <1>4 DEF TypeOK

(* A prune sets out to keep exactly the largest set of newest snapshots     *)
(* that is within the limits, whatever commands overlap and are killed.     *)
THEOREM PruneAlwaysExact == Spec => PruneIsExact
<1>1. TypeInv /\ [Next]_vars => [\A p \in Proc :
         pc[p] = "list" /\ pc'[p] = "sweep" =>
             idx'[p] \ todo'[p] = Retained(idx'[p], clock)]_vars
  BY ListTakes, RemovesTheRest
<1>. QED
  BY <1>1, InitTyped, TypeInvKept, PTL DEF Spec, PruneIsExact

(* The dry run lists nothing that a prune keeps, and all that it removes    *)
(* while the snapshots fit into MaxSize together.                           *)
THEOREM PreviewAlwaysPrune == Spec => PreviewIsPrune
<1>1. TypeInv /\ [Next]_vars => [\A p \in Proc :
         pc[p] = "list" /\ pc'[p] = "sweep" =>
             LET shown == Preview(idx'[p], clock)
             IN  /\ shown \subseteq todo'[p]
                 /\ Total(idx'[p]) <= MaxSize => shown = todo'[p]]_vars
  BY ListTakes, PreviewsNoMore
<1>. QED
  BY <1>1, InitTyped, TypeInvKept, PTL DEF Spec, PreviewIsPrune
=============================================================================
