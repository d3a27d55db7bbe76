------------------------------ MODULE AuditLog ------------------------------
(***************************************************************************)
(* The audit log of exceptions and its rotated backups on disk, and the    *)
(* file operations the logger applies to them                              *)
(* (internal/exceptions/audit.go).  The log of sessions is the same code   *)
(* (internal/session/audit.go).                                            *)
(*                                                                         *)
(* The directory is a record of the log, Missing or a sequence of lines,   *)
(* and the backups, a function from the second in their name to their      *)
(* lines.  Sizes are counted in lines.  A line keeps which error of which  *)
(* process it is about, what it says, its timestamp, whether it is         *)
(* malformed, whether it is too long for the scanner that reads the log    *)
(* back, and whether its end is missing: a write may fail half way.        *)
(***************************************************************************)
EXTENDS Integers, Sequences, SequencesExt, FiniteSets, FiniteSetsExt

CONSTANTS
    Missing,      \* there is no log file
    MaxSize,      \* entries at which the log is rotated
    MaxBackups,   \* backups kept
    MaxAge        \* age at which Cleanup drops an entry

ASSUME AuditAssumption == MaxSize \in Nat /\ MaxBackups \in Nat /\ MaxAge \in Nat

NoLog == [log |-> Missing, backups |-> <<>>]

Exists(dir) == dir.log # Missing

\* rotateIfNeededLocked: os.Stat finds the log as large as the limit.
IsFull(dir) == Exists(dir) /\ Len(dir.log) >= MaxSize

\* Mutant of Rotated: the backup is named after the second that follows.
RotatedAhead(dir, second) ==
    [log |-> Missing,
     backups |-> [s \in DOMAIN dir.backups \cup {second + 1} |->
                     IF s = second + 1 THEN dir.log ELSE dir.backups[s]]]

\* rotateLocked's rename: a backup made in the same second is replaced.
Rotated(dir, second) ==
    [log |-> Missing,
     backups |-> [s \in DOMAIN dir.backups \cup {second} |->
                     IF s = second THEN dir.log ELSE dir.backups[s]]]

\* Mutant of Excess: the oldest backups are kept.
ExcessNewest(dir) ==
    {s \in DOMAIN dir.backups :
        Cardinality({t \in DOMAIN dir.backups : t < s}) >= MaxBackups}

\* Sorted by name, newest first, those after the first MaxBackups.
Excess(dir) ==
    {s \in DOMAIN dir.backups :
        Cardinality({t \in DOMAIN dir.backups : t > s}) >= MaxBackups}

(* removeExcessBackups: a backup that cannot be removed stays, and the      *)
(* others go.                                                               *)
Trimmed(dir, removed) ==
    [dir EXCEPT !.backups = [s \in DOMAIN dir.backups \ removed |-> dir.backups[s]]]

\* What a write that fails leaves of a line, when it leaves anything.
Cut(line) ==
    {[line EXCEPT !.open = TRUE]}
    \cup {[line EXCEPT !.open = TRUE, !.bad = TRUE, !.long = l] : l \in {FALSE, line.long}}

CutOff(lines) == lines # <<>> /\ Last(lines).open

(* O_APPEND: behind a line without its end, the new one becomes part of it, *)
(* and what results is no entry.                                            *)
Added(lines, line) ==
    IF CutOff(lines)
    THEN Append(Front(lines), [line EXCEPT !.bad = TRUE, !.long = @ \/ Last(lines).long])
    ELSE Append(lines, line)

\* The lines the scanner returns: it stops at the first that is too long.
Scanned(lines) ==
    LET long == {i \in DOMAIN lines : lines[i].long}
    IN  IF long = {} THEN lines ELSE SubSeq(lines, 1, Min(long) - 1)

Young(line, now) == line.at > now - MaxAge

(* filterEntries, line by line: malformed lines are kept, and every line    *)
(* is written back with an end.  It does not ask the scanner for an error.  *)
Filtered(lines, now) ==
    LET read == Scanned(lines)
        valid[i \in 0..Len(read)] ==
            IF i = 0 THEN <<>>
            ELSE IF read[i].bad \/ Young(read[i], now)
                 THEN Append(valid[i - 1], [read[i] EXCEPT !.open = FALSE])
            ELSE valid[i - 1]
    IN  valid[Len(read)]

\* cleanupOldEntriesLocked leaves the log alone when nothing it read is old.
NeedsRewrite(lines, now) == Len(Filtered(lines, now)) < Len(Scanned(lines))

(* What can be read of a file: readEntriesFromFile skips malformed lines.   *)
Legible(lines) == {line \in ToSet(Scanned(lines)) : ~line.bad}

(* What can be read of the log and of the backups.  "audit list" shows the  *)
(* log alone, and nothing of it while a line is too long.                   *)
Kept(dir) ==
    (IF Exists(dir) THEN Legible(dir.log) ELSE {})
        \cup UNION {Legible(dir.backups[s]) : s \in DOMAIN dir.backups}
=============================================================================
