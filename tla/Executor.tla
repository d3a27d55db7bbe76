------------------------------ MODULE Executor ------------------------------
(***************************************************************************)
(* The two executors of the dispatcher (internal/dispatcher/executor.go).  *)
(* SequentialExecutor asks one validator after the other and looks at the  *)
(* context before each.  ParallelExecutor starts a goroutine per validator *)
(* that takes a permit of its category's semaphore, appends a result under *)
(* a mutex, and lets the caller wait on a wait group.                      *)
(*                                                                         *)
(* The semaphore (golang.org/x/sync/semaphore) is external.  A permit is   *)
(* given to any waiter, where the library serves them first come, first    *)
(* served: every order the library can produce is among the ones here.  A  *)
(* pool of size 0 can never give one, and its Acquire waits for the        *)
(* context.                                                                *)
(***************************************************************************)
EXTENDS Integers, Sequences, FiniteSets

CONSTANTS
    N,          \* largest number of validators of a call
    Category,   \* Category[v] is "cpu", "io" or "git"
    PoolSize,   \* PoolSize[c] is the number of permits of category c
    NoReply,    \* Execute has not returned
    NoOne,      \* nobody holds the mutex
    MayCancel   \* TRUE: the caller may cancel the context

Validator == 1 .. N
Pool == {"cpu", "io", "git"}

ASSUME PoolAssumption ==
    /\ N \in Nat
    /\ Category \in [Validator -> Pool]
    /\ PoolSize \in [Pool -> Nat]
    /\ NoOne \notin Validator
    /\ MayCancel \in BOOLEAN

\* Execute's nil is none of the replies.
ASSUME ReplyAssumption == \A s \in SUBSET Validator : NoReply # s

VARIABLES
    kind,       \* "sequential" or "parallel"
    n,          \* number of validators of this call
    caller,     \* where Execute is
    at,         \* index of the loop over the validators
    pc,         \* where the goroutine of a validator is
    held,       \* permits given out, by pool
    mu,         \* holder of the mutex
    seen,       \* results as a goroutine read them before its append
    results,    \* the validators that did not pass, in the order of their appends
    pending,    \* counter of the wait group
    verdict,    \* what each validator said
    cancelled

vars == <<kind, n, caller, at, pc, held, mu, seen, results, pending, verdict, cancelled>>
go   == <<pc, held, mu, seen>>

\* A goroutine past its Acquire and before its Release.
Inside(v) == pc[v] \in {"check", "validate", "lock", "read", "append", "release"}

TypeOK ==
    /\ kind \in {"sequential", "parallel"}
    /\ n \in 0 .. N
    /\ caller \in {"start", "select", "validate", "spawn", "wait", "returned"}
    /\ at \in 1 .. n + 1
    /\ pc \in [Validator -> {"none", "acquire", "check", "validate", "lock", "read",
                             "append", "release", "done", "over"}]
    /\ held \in [Pool -> Nat]
    /\ mu \in Validator \cup {NoOne}
    /\ seen \in [Validator -> Seq(Validator)]
    /\ results \in Seq(Validator)
    /\ pending \in Nat
    /\ verdict \in [Validator -> {"unknown", "pass", "fail"}]
    /\ cancelled \in BOOLEAN

Init ==
    /\ kind \in {"sequential", "parallel"}
    /\ n \in 0 .. N
    /\ caller = "start" /\ at = 1
    /\ pc = [v \in Validator |-> "none"]
    /\ held = [c \in Pool |-> 0]
    /\ mu = NoOne
    /\ seen = [v \in Validator |-> <<>>]
    /\ results = <<>>
    /\ pending = 0
    /\ verdict = [v \in Validator |-> "unknown"]
    /\ cancelled \in IF MayCancel THEN BOOLEAN ELSE {FALSE}

Cancel ==
    /\ MayCancel /\ ~cancelled
    /\ cancelled' = TRUE
    /\ UNCHANGED <<kind, n, caller, at, go, results, pending, verdict>>

-----------------------------------------------------------------------------
\* The caller

\* Sequential: the head of the loop and the select on ctx.Done().
Select ==
    /\ caller = "start" \/ caller = "select"
    /\ kind = "sequential"
    /\ caller' = IF at > n \/ cancelled THEN "returned" ELSE "validate"
    /\ UNCHANGED <<kind, n, at, go, results, pending, verdict, cancelled>>

RunNext ==
    /\ caller = "validate"
    /\ \E d \in {"pass", "fail"} :
          /\ verdict' = [verdict EXCEPT ![at] = d]
          /\ results' = IF d = "fail" THEN Append(results, at) ELSE results
    /\ at' = at + 1
    /\ caller' = "select"
    /\ UNCHANGED <<kind, n, go, pending, cancelled>>

\* Parallel, no validator: nil.
ReturnEmpty ==
    /\ caller = "start" /\ kind = "parallel" /\ n = 0
    /\ caller' = "returned"
    /\ UNCHANGED <<kind, n, at, go, results, pending, verdict, cancelled>>

\* A single validator runs in the caller, without a pool or a look at the context;
\* with no goroutine to wait for, Return follows.
RunSingle ==
    /\ caller = "start" /\ kind = "parallel" /\ n = 1
    /\ \E d \in {"pass", "fail"} :
          /\ verdict' = [verdict EXCEPT ![1] = d]
          /\ results' = IF d = "fail" THEN <<1>> ELSE <<>>
    /\ caller' = "wait"
    /\ UNCHANGED <<kind, n, at, go, pending, cancelled>>

\* Mutant of Spawn: wg.Add(1) is left to the goroutine.
SpawnUncounted ==
    /\ caller = "spawn" \/ (caller = "start" /\ kind = "parallel" /\ n > 1)
    /\ at <= n
    /\ at' = at + 1
    /\ pc' = [pc EXCEPT ![at] = "acquire"]
    /\ caller' = IF at = n THEN "wait" ELSE "spawn"
    /\ UNCHANGED <<kind, n, held, mu, seen, results, pending, verdict, cancelled>>

\* wg.Add(1) and the go statement, for every validator.
Spawn ==
    /\ caller = "spawn" \/ (caller = "start" /\ kind = "parallel" /\ n > 1)
    /\ at <= n
    /\ at' = at + 1
    /\ pending' = pending + 1
    /\ pc' = [pc EXCEPT ![at] = "acquire"]
    /\ caller' = IF at = n THEN "wait" ELSE "spawn"
    /\ UNCHANGED <<kind, n, held, mu, seen, results, verdict, cancelled>>

\* wg.Wait()
Return ==
    /\ caller = "wait" /\ pending = 0
    /\ caller' = "returned"
    /\ UNCHANGED <<kind, n, at, go, results, pending, verdict, cancelled>>

-----------------------------------------------------------------------------
\* The goroutine of validator v

Acquire(v) ==
    /\ pc[v] = "acquire"
    /\ held[Category[v]] < PoolSize[Category[v]]
    /\ held' = [held EXCEPT ![Category[v]] = @ + 1]
    /\ pc' = [pc EXCEPT ![v] = "check"]
    /\ UNCHANGED <<kind, n, caller, at, mu, seen, results, pending, verdict, cancelled>>

\* Mutant of GiveUp: the release is deferred before the error is looked at.
GiveUpReleasing(v) ==
    /\ pc[v] = "acquire" /\ cancelled
    /\ pc' = [pc EXCEPT ![v] = "release"]
    /\ UNCHANGED <<kind, n, caller, at, held, mu, seen, results, pending, verdict, cancelled>>

\* Mutant of GiveUp: wg.Done() is called here and deferred.
GiveUpTwice(v) ==
    /\ pc[v] = "acquire" /\ cancelled
    /\ pending' = pending - 1
    /\ pc' = [pc EXCEPT ![v] = "done"]
    /\ UNCHANGED <<kind, n, caller, at, held, mu, seen, results, verdict, cancelled>>

\* Mutant of GiveUp: the goroutine returns before wg.Done() is deferred.
GiveUpSilently(v) ==
    /\ pc[v] = "acquire" /\ cancelled
    /\ pc' = [pc EXCEPT ![v] = "over"]
    /\ UNCHANGED <<kind, n, caller, at, held, mu, seen, results, pending, verdict, cancelled>>

\* Acquire returns the context's error, without a permit.
GiveUp(v) ==
    /\ pc[v] = "acquire" /\ cancelled
    /\ pc' = [pc EXCEPT ![v] = "done"]
    /\ UNCHANGED <<kind, n, caller, at, held, mu, seen, results, pending, verdict, cancelled>>

\* The select on ctx.Done() after the permit.
Check(v) ==
    /\ pc[v] = "check"
    /\ pc' = [pc EXCEPT ![v] = IF cancelled THEN "release" ELSE "validate"]
    /\ UNCHANGED <<kind, n, caller, at, held, mu, seen, results, pending, verdict, cancelled>>

Validate(v) ==
    /\ pc[v] = "validate"
    /\ \E d \in {"pass", "fail"} :
          /\ verdict' = [verdict EXCEPT ![v] = d]
          /\ pc' = [pc EXCEPT ![v] = IF d = "fail" THEN "lock" ELSE "release"]
    /\ UNCHANGED <<kind, n, caller, at, held, mu, seen, results, pending, cancelled>>

\* Mutant of Lock: results is not guarded.
LockNothing(v) ==
    /\ pc[v] = "lock"
    /\ mu' = v
    /\ pc' = [pc EXCEPT ![v] = "read"]
    /\ UNCHANGED <<kind, n, caller, at, held, seen, results, pending, verdict, cancelled>>

Lock(v) ==
    /\ pc[v] = "lock" /\ mu = NoOne
    /\ mu' = v
    /\ pc' = [pc EXCEPT ![v] = "read"]
    /\ UNCHANGED <<kind, n, caller, at, held, seen, results, pending, verdict, cancelled>>

\* append reads the slice header ...
Read(v) ==
    /\ pc[v] = "read"
    /\ seen' = [seen EXCEPT ![v] = results]
    /\ pc' = [pc EXCEPT ![v] = "append"]
    /\ UNCHANGED <<kind, n, caller, at, held, mu, results, pending, verdict, cancelled>>

\* ... and stores the longer slice; the mutex is released.
Store(v) ==
    /\ pc[v] = "append"
    /\ results' = Append(seen[v], v)
    /\ seen' = [seen EXCEPT ![v] = <<>>]
    /\ mu' = NoOne
    /\ pc' = [pc EXCEPT ![v] = "release"]
    /\ UNCHANGED <<kind, n, caller, at, held, pending, verdict, cancelled>>

\* The deferred calls, last in first out: pool.Release(1) ...
Release(v) ==
    /\ pc[v] = "release"
    /\ held' = [held EXCEPT ![Category[v]] = @ - 1]
    /\ pc' = [pc EXCEPT ![v] = "done"]
    /\ UNCHANGED <<kind, n, caller, at, mu, seen, results, pending, verdict, cancelled>>

\* ... and wg.Done().
Done(v) ==
    /\ pc[v] = "done"
    /\ pending' = pending - 1
    /\ pc' = [pc EXCEPT ![v] = "over"]
    /\ UNCHANGED <<kind, n, caller, at, held, mu, seen, results, verdict, cancelled>>

Caller == Select \/ RunNext \/ ReturnEmpty \/ RunSingle \/ Spawn \/ Return

Goroutine(v) ==
    \/ Acquire(v) \/ GiveUp(v) \/ Check(v) \/ Validate(v)
    \/ Lock(v) \/ Read(v) \/ Store(v) \/ Release(v) \/ Done(v)

Next == Cancel \/ Caller \/ \E v \in Validator : Goroutine(v)

(* The Go scheduler runs every goroutine that can run, and a validator      *)
(* comes back: the ones that start a program do so under a timeout.  Nothing *)
(* makes the caller cancel.                                                 *)
Fairness == WF_vars(Caller) /\ \A v \in Validator : WF_vars(Goroutine(v))

Spec == Init /\ [][Next]_vars /\ Fairness

-----------------------------------------------------------------------------
\* Properties

(* No pool gives out more permits than it has, and the permits given out    *)
(* are those of goroutines that will give them back; git runs one at a time *)
(* in the default configuration, so two never meet at the index lock.       *)
PoolsBounded ==
    \A c \in Pool :
        /\ held[c] = Cardinality({v \in Validator : Inside(v) /\ Category[v] = c})
        /\ held[c] <= PoolSize[c]

(* Once Execute has returned, no goroutine of it is left that could touch   *)
(* the results the caller reads, or hold a permit the next call needs.      *)
QuietAfterReturn ==
    caller = "returned" =>
        /\ \A v \in Validator : pc[v] \in {"none", "over"}
        /\ \A c \in Pool : held[c] = 0

(* Both are an execution as the dispatcher needs it: the reply is exactly   *)
(* the failing validators, unless the context was cancelled.                *)
Contract == INSTANCE Execution
              WITH asked <- 1 .. n,
                   reply <- IF caller = "returned" THEN {results[i] : i \in DOMAIN results}
                                ELSE NoReply
Implements == Contract!Spec

(* Execute returns, however the goroutines compete for the pools.           *)
Returns == <>(caller = "returned")
=============================================================================
