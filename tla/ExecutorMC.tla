----------------------------- MODULE ExecutorMC -----------------------------
(***************************************************************************)
(* Small instances of Executor for TLC.                                    *)
(***************************************************************************)
EXTENDS Executor

\* Three validators of two pools.
TwoGitOneCpu == <<"git", "git", "cpu">>

Default == [cpu |-> 2, io |-> 4, git |-> 1]
=============================================================================
