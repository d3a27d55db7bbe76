------------------------------ MODULE BackupMC ------------------------------
(***************************************************************************)
(* Small instances of Backup for TLC.                                      *)
(***************************************************************************)
EXTENDS Backup, TLC

CONSTANTS a, b, c

TwoContents == {a, b}
ThreeContents == {a, b, c}

(* One content alone is as long as the size limit of the runs and the others *)
(* are short: the limits on size and on number bind in turn.  A mix is as    *)
(* long as the longest.                                                      *)
Length == [t \in Contents |-> CASE t = Empty -> 0
                                [] t \in {b, Corrupt} -> 3
                                [] OTHER -> 1]

Symmetric == Permutations(Proc)
=============================================================================
