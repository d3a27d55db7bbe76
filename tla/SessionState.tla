---------------------------- MODULE SessionState ----------------------------
(***************************************************************************)
(* The tracker's session map and the operations the dispatcher applies to  *)
(* it (internal/session/state.go, tracker.go, persistence.go), as          *)
(* functions from a map and the time to a map.                             *)
(*                                                                         *)
(* An entry keeps its status, the codes of its poison, its command count   *)
(* and its last activity.  PoisonedAt is not kept: Poison sets it to the   *)
(* value of LastActivity and nothing touches a poisoned entry without      *)
(* clearing it, so the two are the same instant for as long as it exists.  *)
(* The poison's message and LastUpdated are never read by a decision.      *)
(* Codes are a set: their order and repetitions only reach the wording.    *)
(***************************************************************************)
EXTENDS UnpoisonToken

CONSTANTS
    Session,        \* session identifiers
    NoSession,      \* a hook context without session_id
    Absent,         \* no entry in the map
    MaxSessionAge   \* age after which an entry is expired; 0 for "never"

ASSUME SessionAssumption ==
    /\ NoSession \notin Session
    /\ MaxSessionAge \in Nat

Info == [status: {"clean", "poisoned"}, codes: SUBSET Code, count: Nat, last: Nat]

ASSUME AbsentAssumption == Absent \notin Info

State == [Session -> Info \cup {Absent}]

\* NewSessionState
Fresh == [s \in Session |-> Absent]

Exists(st, s) == st[s] # Absent

\* Mutant of IsExpired: an entry of exactly the maximum age is expired.
IsExpiredEarly(info, now) == MaxSessionAge > 0 /\ now - info.last >= MaxSessionAge

\* isExpiredLocked
IsExpired(info, now) == MaxSessionAge > 0 /\ now - info.last > MaxSessionAge

\* Mutant of IsPoisoned: the age is not looked at.
IsPoisonedAtAnyAge(st, s, now) ==
    s \in Session /\ Exists(st, s) /\ st[s].status = "poisoned"

\* Tracker.IsPoisoned: an expired entry is reported clean, and kept.
IsPoisoned(st, s, now) ==
    /\ s \in Session
    /\ Exists(st, s)
    /\ ~IsExpired(st[s], now)
    /\ st[s].status = "poisoned"

\* Tracker.Poison: the command count of an existing entry survives.
Poison(st, s, codes, now) ==
    [st EXCEPT ![s] = [status |-> "poisoned", codes |-> codes,
                       count |-> IF Exists(st, s) THEN st[s].count ELSE 0,
                       last |-> now]]

\* Mutant of Unpoison: every session is released.
UnpoisonEverySession(st, s, now) ==
    [r \in Session |-> IF Exists(st, r)
                       THEN [status |-> "clean", codes |-> {}, count |-> st[r].count, last |-> now]
                       ELSE Absent]

\* Tracker.Unpoison: nothing happens to a session that is not tracked.
Unpoison(st, s, now) ==
    IF Exists(st, s)
    THEN [st EXCEPT ![s] = [status |-> "clean", codes |-> {},
                            count |-> st[s].count, last |-> now]]
    ELSE st

\* Mutant of RecordCommand: the status of an expired entry is not reset.
RecordCommandKeepingStatus(st, s, now) ==
    LET kept == Exists(st, s) /\ ~IsExpired(st[s], now)
    IN  [st EXCEPT ![s] =
            [status |-> IF Exists(st, s) THEN st[s].status ELSE "clean",
             codes  |-> IF Exists(st, s) THEN st[s].codes ELSE {},
             count  |-> IF kept THEN st[s].count + 1 ELSE 1,
             last   |-> now]]

\* Tracker.RecordCommand: creates the entry, or starts an expired one anew.
RecordCommand(st, s, now) ==
    LET kept == Exists(st, s) /\ ~IsExpired(st[s], now)
    IN  [st EXCEPT ![s] =
            [status |-> IF kept THEN st[s].status ELSE "clean",
             codes  |-> IF kept THEN st[s].codes ELSE {},
             count  |-> IF kept THEN st[s].count + 1 ELSE 1,
             last   |-> now]]

\* cleanupExpiredLocked, run by Load on what it read.
Cleanup(st, now) ==
    [s \in Session |->
        IF Exists(st, s) /\ IsExpired(st[s], now) THEN Absent ELSE st[s]]
=============================================================================
