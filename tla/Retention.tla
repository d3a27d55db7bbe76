----------------------------- MODULE Retention -----------------------------
(***************************************************************************)
(* Which snapshots a retention policy keeps (internal/backup/retention.go) *)
(* and what a prune and its preview make of it.                            *)
(*                                                                         *)
(* A snapshot carries the instant it was made as its identifier: instants  *)
(* are nanoseconds and no two snapshots share one.  Patches are not        *)
(* implemented, but the policies count chains, and so do the definitions.  *)
(***************************************************************************)
EXTENDS Integers, FiniteSets, FiniteSetsExt

CONSTANTS
    Content,     \* contents a configuration is given
    Empty,       \* the content of a file truncated and not yet written
    Corrupt,     \* a content two overlapping writes left
    SizeOf,      \* the length of every content
    MaxBackups,  \* limits of the retention policy
    MaxAge,
    MaxSize

Contents == Content \cup {Empty, Corrupt}

ASSUME ContentAssumption == Empty \notin Content /\ Corrupt \notin Content \cup {Empty}

ASSUME SizeAssumption == SizeOf \in [Contents -> Nat] /\ SizeOf[Empty] = 0

\* The constructors of the policies refuse a limit that is not positive.
ASSUME LimitAssumption ==
    /\ MaxBackups \in Nat \ {0}
    /\ MaxAge \in Nat \ {0}
    /\ MaxSize \in Nat \ {0}

\* The hash of a content is the content: equal hashes mean equal contents.
Snapshot == [id : Nat, hash : Contents, chain : Nat]

-----------------------------------------------------------------------------
\* Chains

Members(all, c) == {s \in all : s.chain = c}
Chains(all) == {s.chain : s \in all}
Newest(all) == Max({s.id : s \in all})
Oldest(all) == Min({s.id : s \in all})
Total(all) == MapThenSumSet(LAMBDA s : SizeOf[s.hash], all)

-----------------------------------------------------------------------------
\* Policies

(* Fewer than MaxBackups chains have a newer snapshot.                      *)
CountRetains(s, all) ==
    Cardinality({c \in Chains(all) :
        Newest(Members(all, c)) > Newest(Members(all, s.chain))}) < MaxBackups

(* The oldest of its chain is not too old.                                  *)
AgeRetains(chain, now) == now - Oldest(chain) <= MaxAge

\* Mutant of SizeRetains: one chain fewer is dropped than the size needs.
SizeRetainsOneMore(s, all, total) ==
    LET older == {t \in all : Oldest(Members(all, t.chain))
                                <= Oldest(Members(all, s.chain))}
    IN  total <= MaxSize \/ total - Total(older) <= MaxSize

(* Whole chains are dropped, the oldest first, until the rest fits: a chain *)
(* stays when the rest fits without the chains older than it.               *)
SizeRetains(s, all, total) ==
    LET older == {t \in all : Oldest(Members(all, t.chain))
                                < Oldest(Members(all, s.chain))}
    IN  total <= MaxSize \/ total - Total(older) <= MaxSize

(* CompositeRetentionPolicy: all must agree to keep it.                     *)
ShouldRetain(s, all, chain, total, now) ==
    /\ CountRetains(s, all)
    /\ AgeRetains(chain, now)
    /\ SizeRetains(s, all, total)

-----------------------------------------------------------------------------
\* backup prune and backup prune --dry-run

(* What ApplyRetention sets out to remove.                                  *)
ToRemove(idx, now) ==
    {s \in idx : ~ShouldRetain(s, idx, Members(idx, s.chain), Total(idx), now)}

\* Mutant of Preview: a snapshot is judged as if it were the only one.
PreviewAlone(idx, now) ==
    {s \in idx : ~ShouldRetain(s, {s}, {s}, SizeOf[s.hash], now)}

(* What the dry run lists: it takes every snapshot for its own chain and    *)
(* its size for the size of all.                                            *)
Preview(idx, now) ==
    {s \in idx : ~ShouldRetain(s, idx, {s}, SizeOf[s.hash], now)}

-----------------------------------------------------------------------------
\* What retention is for

Within(kept, now) ==
    /\ Cardinality(kept) <= MaxBackups
    /\ Total(kept) <= MaxSize
    /\ \A s \in kept : now - s.id <= MaxAge

\* The snapshots made at an instant or later.
Since(idx, instant) == {s \in idx : s.id >= instant}

(* The largest set of newest snapshots within the limits.                   *)
Retained(idx, now) ==
    UNION {k \in {Since(idx, s.id) : s \in idx} : Within(k, now)}
=============================================================================
