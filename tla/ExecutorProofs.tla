--------------------------- MODULE ExecutorProofs ---------------------------
(***************************************************************************)
(* What is proved of Executor, for any number of validators, any           *)
(* assignment of categories and any pool sizes: that it is well typed,     *)
(* that the pools give out what they have and no more, that Execute leaves *)
(* no goroutine behind, and that both executors implement Execution.       *)
(***************************************************************************)
EXTENDS Executor, FiniteSetTheorems, SequenceTheorems, TLAPS

\* The goroutines the wait group has yet to hear of.
Alive == {v \in Validator : pc[v] \notin {"none", "over"}}

\* The goroutines that hold a permit of pool c.
Holders(c) == {v \in Validator : Inside(v) /\ Category[v] = c}

\* Validators whose failure is in results: all but the ones before their append.
Recorded == {v \in Validator : verdict[v] = "fail" /\ pc[v] \notin {"lock", "read", "append"}}

Several == kind = "parallel" /\ n > 1

\* Where the caller can be, and how far its loop is.
LoopInv ==
    /\ caller = "start" => at = 1
    /\ caller = "select" => kind = "sequential"
    /\ caller = "validate" => kind = "sequential" /\ at <= n
    /\ caller = "spawn" => Several /\ at <= n
    /\ caller = "wait" => kind = "parallel" /\ (n = 1 \/ (n > 1 /\ at = n + 1))
    /\ kind = "parallel" /\ n <= 1 => at = 1

\* The goroutines there are: those the loop has started, one per validator.
StartedInv ==
    \A v \in Validator :
        /\ pc[v] # "none" => Several /\ v < at /\ caller \in {"spawn", "wait", "returned"}
        /\ Several /\ v < at => pc[v] # "none"

\* results belongs to the holder of the mutex.
MutexInv ==
    \A v \in Validator :
        /\ pc[v] \in {"read", "append"} <=> mu = v
        /\ pc[v] = "append" => seen[v] = results

\* What is known of a validator that has come this far.
VerdictInv ==
    \A v \in Validator :
        /\ Several =>
              /\ pc[v] \in {"none", "acquire", "check", "validate"} => verdict[v] = "unknown"
              /\ pc[v] \in {"lock", "read", "append"} => verdict[v] = "fail"
              /\ pc[v] \in {"release", "done", "over"} => verdict[v] # "unknown" \/ cancelled
        /\ kind = "parallel" /\ n <= 1 =>
              /\ v > n => verdict[v] = "unknown"
              /\ v <= n => (verdict[v] = "unknown" <=> caller = "start")
        /\ kind = "sequential" => (verdict[v] = "unknown" <=> v >= at)

CountInv    == pending = Cardinality(Alive)
ResultsInv  == {results[i] : i \in DOMAIN results} = Recorded
ReturnedInv == caller = "returned" => Alive = {}

\* PoolsBounded, by the holders of each pool.
HeldInv == \A c \in Pool : held[c] = Cardinality(Holders(c)) /\ held[c] <= PoolSize[c]

IInv ==
    /\ TypeOK /\ HeldInv /\ LoopInv /\ StartedInv /\ MutexInv
    /\ VerdictInv /\ CountInv /\ ResultsInv /\ ReturnedInv

-----------------------------------------------------------------------------
\* Counting goroutines

Place == {"none", "acquire", "check", "validate", "lock", "read", "append",
          "release", "done", "over"}
InPool == {"check", "validate", "lock", "read", "append", "release"}

(* PoolsBounded says of each pool that it has given out what its holders    *)
(* have, and no more than its size.                                         *)
LEMMA PoolsAsHeld == PoolsBounded <=> HeldInv
  BY DEF PoolsBounded, HeldInv, Holders

(* The goroutines are finitely many, alive or in a pool.                    *)
LEMMA FinitelyMany ==
  /\ IsFiniteSet(Alive) /\ Cardinality(Alive) \in Nat
  /\ \A c \in Pool : IsFiniteSet(Holders(c)) /\ Cardinality(Holders(c)) \in Nat
<1>1. IsFiniteSet(Validator)
  BY FS_Interval, PoolAssumption DEF Validator
<1>2. Alive \in SUBSET Validator /\ \A c \in Pool : Holders(c) \in SUBSET Validator
  BY DEF Alive, Holders
<1>. QED
  BY <1>1, <1>2, FS_Subset, FS_CardinalityType

(* A goroutine that moves between two places outside "none" leaves what the *)
(* loop has started as it was.                                              *)
LEMMA MovesOn ==
  ASSUME TypeOK, LoopInv, StartedInv,
         NEW v \in Validator, pc[v] # "none",
         NEW x \in Place, x # "none", pc' = [pc EXCEPT ![v] = x],
         UNCHANGED <<kind, n, caller, at>>
  PROVE  LoopInv' /\ StartedInv'
  BY DEF TypeOK, LoopInv, StartedInv, Several

(* It stays alive unless it goes "over".                                    *)
LEMMA StaysAlive ==
  ASSUME TypeOK, NEW v \in Validator, pc[v] \notin {"none", "over"},
         NEW x \in Place, x \notin {"none", "over"}, pc' = [pc EXCEPT ![v] = x]
  PROVE  Alive' = Alive
  BY DEF TypeOK, Alive

(* It keeps its permit, or goes without one, unless it enters or leaves the *)
(* pool.                                                                    *)
LEMMA StaysInPool ==
  ASSUME TypeOK, HeldInv, NEW v \in Validator,
         NEW x \in Place, x \in InPool <=> pc[v] \in InPool, pc' = [pc EXCEPT ![v] = x],
         held' = held
  PROVE  HeldInv'
<1>1. ASSUME NEW c \in Pool PROVE Holders(c)' = Holders(c)
  BY DEF TypeOK, Holders, Inside, InPool
<1>. QED
  BY <1>1 DEF HeldInv

(* What a goroutine does inside the pool, or on its way to it, leaves the   *)
(* counters as they were.                                                   *)
LEMMA CountsStay ==
  ASSUME TypeOK, HeldInv, CountInv, ReturnedInv,
         NEW v \in Validator, pc[v] \notin {"none", "over"},
         NEW x \in Place, x \notin {"none", "over"}, x \in InPool <=> pc[v] \in InPool,
         pc' = [pc EXCEPT ![v] = x],
         UNCHANGED <<held, pending, caller>>
  PROVE  HeldInv' /\ CountInv' /\ ReturnedInv'
<1>1. Alive' = Alive
  BY StaysAlive
<1>2. HeldInv'
  BY StaysInPool
<1>. QED
  BY <1>1, <1>2 DEF CountInv, ReturnedInv

(* An action that starts, moves and ends no goroutine leaves the counters,  *)
(* once the caller is not the one that returns.                             *)
LEMMA CountsFrame ==
  ASSUME HeldInv, CountInv, UNCHANGED <<pc, held, pending>>
  PROVE  HeldInv' /\ CountInv' /\ Alive' = Alive
<1>1. Alive' = Alive /\ \A c \in Pool : Holders(c)' = Holders(c)
  BY DEF Alive, Holders, Inside
<1>. QED
  BY <1>1 DEF HeldInv, CountInv

-----------------------------------------------------------------------------
\* The results

(* An append adds one validator to those the results name.                  *)
LEMMA AppendNames ==
  ASSUME NEW s \in Seq(Validator), NEW v \in Validator, NEW t, t = Append(s, v)
  PROVE  /\ t \in Seq(Validator)
         /\ {t[i] : i \in DOMAIN t} = {s[i] : i \in DOMAIN s} \cup {v}
<1>1. t \in Seq(Validator) /\ Len(t) = Len(s) + 1 /\ Len(s) \in Nat
      /\ DOMAIN s = 1 .. Len(s) /\ DOMAIN t = 1 .. Len(s) + 1
  OBVIOUS
<1>2. /\ \A i \in 1 .. Len(s) : t[i] = s[i]
      /\ t[Len(s) + 1] = v
  OBVIOUS
<1>. QED
  BY <1>1, <1>2, Z3

(* Without an append and without a new failure on record, the results name  *)
(* the same validators.                                                     *)
LEMMA ResultsFrame ==
  ASSUME ResultsInv, results' = results, Recorded' = Recorded
  PROVE  ResultsInv'
  BY DEF ResultsInv

-----------------------------------------------------------------------------
\* The steps of the caller

(* Select leaves the loop with every validator judged, or the context done. *)
LEMMA SelectKeeps == IInv /\ Select => IInv'
<1>. SUFFICES ASSUME IInv, Select PROVE IInv'
  OBVIOUS
<1>. USE DEF IInv, Select, go
<1>1. HeldInv' /\ CountInv' /\ Alive' = Alive
  BY CountsFrame
<1>2. TypeOK' /\ LoopInv' /\ MutexInv'
  BY DEF TypeOK, LoopInv, MutexInv, Several
<1>3. StartedInv' /\ VerdictInv'
  BY DEF TypeOK, LoopInv, StartedInv, VerdictInv, Several
<1>4. ResultsInv'
  BY ResultsFrame DEF Recorded
<1>5. ReturnedInv'
  BY <1>1 DEF ReturnedInv, StartedInv, Alive, Several
<1>. QED
  BY <1>1, <1>2, <1>3, <1>4, <1>5

(* RunNext judges the validator the loop is at and puts a failure on record. *)
LEMMA RunNextKeeps == IInv /\ RunNext => IInv'
<1>. SUFFICES ASSUME IInv, RunNext PROVE IInv'
  OBVIOUS
<1>. USE DEF IInv, RunNext, go
<1>1. HeldInv' /\ CountInv' /\ Alive' = Alive
  BY CountsFrame
<1>2. kind = "sequential" /\ at \in Validator /\ at <= n /\ n \in Nat
  BY PoolAssumption DEF TypeOK, LoopInv, Validator
<1>3. PICK d \in {"pass", "fail"} :
        /\ verdict' = [verdict EXCEPT ![at] = d]
        /\ results' = IF d = "fail" THEN Append(results, at) ELSE results
  OBVIOUS
<1>4. TypeOK'
  BY <1>2, <1>3, AppendNames DEF TypeOK
<1>5. LoopInv' /\ StartedInv'
  BY <1>2 DEF LoopInv, StartedInv, Several
<1>6. pc[at] = "none" /\ \A v \in Validator : pc[v] = "none"
  BY <1>2 DEF StartedInv, Several, TypeOK
<1>7. MutexInv'
  BY <1>6 DEF MutexInv
<1>8. VerdictInv'
  BY <1>2, <1>3 DEF VerdictInv, TypeOK, Several, Validator
<1>9. ResultsInv'
  <2>1. Recorded' = IF d = "fail" THEN Recorded \cup {at} ELSE Recorded
    BY <1>2, <1>3, <1>6 DEF Recorded, TypeOK, VerdictInv
  <2>2. CASE d = "fail"
    <3>1. results \in Seq(Validator) /\ results' = Append(results, at)
      BY <1>3, <2>2 DEF TypeOK
    <3>2. {results'[i] : i \in DOMAIN results'} = {results[i] : i \in DOMAIN results} \cup {at}
      BY <1>2, <3>1, AppendNames
    <3>. QED
      BY <2>1, <2>2, <3>2 DEF ResultsInv
  <2>3. CASE d # "fail"
    BY <1>3, <2>1, <2>3 DEF ResultsInv
  <2>. QED
    BY <2>2, <2>3
<1>10. ReturnedInv'
  BY DEF ReturnedInv
<1>. QED
  BY <1>1, <1>4, <1>5, <1>7, <1>8, <1>9, <1>10

(* ReturnEmpty has nothing to wait for. *)
LEMMA ReturnEmptyKeeps == IInv /\ ReturnEmpty => IInv'
<1>. SUFFICES ASSUME IInv, ReturnEmpty PROVE IInv'
  OBVIOUS
<1>. USE DEF IInv, ReturnEmpty, go
<1>1. HeldInv' /\ CountInv' /\ Alive' = Alive
  BY CountsFrame
<1>2. TypeOK' /\ LoopInv' /\ MutexInv'
  BY DEF TypeOK, LoopInv, MutexInv, Several
<1>3. StartedInv' /\ VerdictInv'
  BY DEF TypeOK, LoopInv, StartedInv, VerdictInv, Several, Validator
<1>4. ResultsInv'
  BY ResultsFrame DEF Recorded
<1>5. ReturnedInv'
  BY <1>1 DEF ReturnedInv, StartedInv, Alive, Several
<1>. QED
  BY <1>1, <1>2, <1>3, <1>4, <1>5

(* RunSingle judges the only validator. *)
LEMMA RunSingleKeeps == IInv /\ RunSingle => IInv'
<1>. SUFFICES ASSUME IInv, RunSingle PROVE IInv'
  OBVIOUS
<1>. USE DEF IInv, RunSingle, go
<1>1. HeldInv' /\ CountInv' /\ Alive' = Alive
  BY CountsFrame
<1>2. 1 \in Validator
  BY PoolAssumption DEF TypeOK, Validator
<1>3. PICK d \in {"pass", "fail"} :
        /\ verdict' = [verdict EXCEPT ![1] = d]
        /\ results' = IF d = "fail" THEN <<1>> ELSE <<>>
  OBVIOUS
<1>4. /\ <<1>> \in Seq(Validator) /\ <<>> \in Seq(Validator)
      /\ {<<1>>[i] : i \in DOMAIN <<1>>} = {1}
      /\ {<<>>[i] : i \in DOMAIN <<>>} = {}
  BY <1>2
<1>5. TypeOK'
  BY <1>2, <1>3, <1>4 DEF TypeOK
<1>6. LoopInv' /\ StartedInv' /\ ReturnedInv'
  BY DEF LoopInv, StartedInv, ReturnedInv, Several
<1>7. \A v \in Validator : pc[v] = "none"
  BY DEF StartedInv, Several
<1>8. MutexInv'
  BY <1>7 DEF MutexInv
<1>9. VerdictInv'
  BY <1>2, <1>3 DEF VerdictInv, TypeOK, Several, Validator
<1>10. ResultsInv'
  <2>1. \A v \in Validator : verdict[v] = "unknown"
    BY DEF VerdictInv, Validator
  <2>2. Recorded' = IF d = "fail" THEN {1} ELSE {}
    BY <1>2, <1>3, <1>7, <2>1 DEF Recorded, TypeOK
  <2>. QED
    BY <1>3, <1>4, <2>2 DEF ResultsInv
<1>. QED
  BY <1>1, <1>5, <1>6, <1>8, <1>9, <1>10

(* Spawn counts the goroutine it starts, which has no permit yet. *)
LEMMA SpawnKeeps == IInv /\ Spawn => IInv'
<1>. SUFFICES ASSUME IInv, Spawn PROVE IInv'
  OBVIOUS
<1>. USE DEF IInv, Spawn
<1>1. Several /\ at \in Validator /\ n \in Nat /\ pc[at] = "none"
  <2>1. Several /\ n \in Nat
    BY PoolAssumption DEF TypeOK, LoopInv, Several
  <2>2. at \in Validator
    BY PoolAssumption DEF TypeOK, Validator
  <2>. QED
    BY <2>1, <2>2 DEF StartedInv, TypeOK
<1>2. TypeOK'
  BY <1>1 DEF TypeOK
<1>3. LoopInv' /\ StartedInv'
  BY <1>1 DEF TypeOK, LoopInv, StartedInv, Several, Validator
<1>4. MutexInv'
  BY <1>1 DEF TypeOK, MutexInv
<1>5. VerdictInv'
  BY <1>1 DEF TypeOK, VerdictInv, Several
<1>6. HeldInv'
  BY <1>1, StaysInPool DEF Place, InPool
<1>7. CountInv'
  <2>1. Alive' = Alive \cup {at} /\ at \notin Alive
    BY <1>1 DEF Alive, TypeOK
  <2>. QED
    BY <2>1, FinitelyMany, FS_AddElement DEF CountInv
<1>8. ResultsInv'
  <2>1. Recorded' = Recorded
    BY <1>1 DEF Recorded, TypeOK
  <2>. QED
    BY <2>1, ResultsFrame
<1>9. ReturnedInv'
  BY DEF ReturnedInv
<1>. QED
  BY <1>2, <1>3, <1>4, <1>5, <1>6, <1>7, <1>8, <1>9

(* Return finds the wait group at zero, and so nobody alive. *)
LEMMA ReturnKeeps == IInv /\ Return => IInv'
<1>. SUFFICES ASSUME IInv, Return PROVE IInv'
  OBVIOUS
<1>. USE DEF IInv, Return, go
<1>1. HeldInv' /\ CountInv' /\ Alive' = Alive
  BY CountsFrame
<1>2. TypeOK' /\ LoopInv' /\ MutexInv'
  BY DEF TypeOK, LoopInv, MutexInv, Several
<1>3. StartedInv' /\ VerdictInv'
  BY DEF TypeOK, LoopInv, StartedInv, VerdictInv, Several
<1>4. ResultsInv'
  BY ResultsFrame DEF Recorded
<1>5. ReturnedInv'
  BY <1>1, FinitelyMany, FS_EmptySet DEF ReturnedInv, CountInv
<1>. QED
  BY <1>1, <1>2, <1>3, <1>4, <1>5

(* Cancel touches nothing but the context. *)
LEMMA CancelKeeps == IInv /\ Cancel => IInv'
<1>. SUFFICES ASSUME IInv, Cancel PROVE IInv'
  OBVIOUS
<1>. USE DEF IInv, Cancel, go
<1>1. HeldInv' /\ CountInv' /\ Alive' = Alive
  BY CountsFrame
<1>2. TypeOK' /\ LoopInv' /\ StartedInv' /\ MutexInv'
  BY DEF TypeOK, LoopInv, StartedInv, MutexInv, Several
<1>3. VerdictInv'
  BY DEF VerdictInv, Several
<1>4. ResultsInv' /\ ReturnedInv'
  BY <1>1, ResultsFrame DEF Recorded, ReturnedInv
<1>. QED
  BY <1>1, <1>2, <1>3, <1>4

-----------------------------------------------------------------------------
\* The steps of a goroutine

(* A permit is given only while the pool has one. *)
LEMMA AcquireKeeps == ASSUME IInv, NEW v \in Validator, Acquire(v) PROVE IInv'
<1>. USE DEF IInv, Acquire
<1>. DEFINE k == Category[v]
<1>1. k \in Pool /\ \A c \in Pool : PoolSize[c] \in Nat /\ held[c] \in Nat
  BY PoolAssumption DEF TypeOK
<1>2. TypeOK'
  BY <1>1 DEF TypeOK
<1>3. LoopInv' /\ StartedInv'
  BY MovesOn DEF Place
<1>4. MutexInv' /\ VerdictInv' /\ Recorded' = Recorded
  BY DEF TypeOK, MutexInv, VerdictInv, Recorded, Several
<1>5. Alive' = Alive
  BY StaysAlive DEF Place
<1>6. HeldInv'
  <2>1. Holders(k)' = Holders(k) \cup {v} /\ v \notin Holders(k)
    BY DEF TypeOK, Holders, Inside
  <2>2. ASSUME NEW c \in Pool, c # k PROVE Holders(c)' = Holders(c)
    BY <2>2 DEF TypeOK, Holders, Inside
  <2>3. Cardinality(Holders(k)') = Cardinality(Holders(k)) + 1
    BY <1>1, <2>1, FinitelyMany, FS_AddElement
  <2>4. held'[k] = held[k] + 1 /\ \A c \in Pool : c # k => held'[c] = held[c]
    BY <1>1 DEF TypeOK
  <2>5. held'[k] = Cardinality(Holders(k)') /\ held'[k] <= PoolSize[k]
    BY <1>1, <2>3, <2>4 DEF HeldInv
  <2>. QED
    BY <2>2, <2>4, <2>5 DEF HeldInv
<1>. QED
  BY <1>2, <1>3, <1>4, <1>5, <1>6, ResultsFrame DEF CountInv, ReturnedInv

(* Without a permit the goroutine goes straight to wg.Done(). *)
LEMMA GiveUpKeeps == ASSUME IInv, NEW v \in Validator, GiveUp(v) PROVE IInv'
<1>. USE DEF IInv, GiveUp
<1>1. TypeOK'
  BY DEF TypeOK
<1>2. LoopInv' /\ StartedInv'
  BY MovesOn DEF Place
<1>3. MutexInv' /\ VerdictInv' /\ Recorded' = Recorded
  BY DEF TypeOK, MutexInv, VerdictInv, Recorded, Several
<1>4. HeldInv' /\ CountInv' /\ ReturnedInv'
  BY CountsStay DEF Place, InPool
<1>. QED
  BY <1>1, <1>2, <1>3, <1>4, ResultsFrame

(* The look at the context either leaves or goes on, with the permit. *)
LEMMA CheckKeeps == ASSUME IInv, NEW v \in Validator, Check(v) PROVE IInv'
<1>. USE DEF IInv, Check
<1>. DEFINE x == IF cancelled THEN "release" ELSE "validate"
<1>1. TypeOK'
  BY DEF TypeOK
<1>2. x \in Place /\ x \in InPool /\ x \notin {"none", "over"} /\ pc' = [pc EXCEPT ![v] = x]
  BY DEF Place, InPool
<1>3. LoopInv' /\ StartedInv'
  BY <1>2, MovesOn
<1>4. MutexInv' /\ VerdictInv' /\ Recorded' = Recorded
  BY DEF TypeOK, MutexInv, VerdictInv, Recorded, Several
<1>5. HeldInv' /\ CountInv' /\ ReturnedInv'
  BY <1>2, CountsStay DEF InPool
<1>. QED
  BY <1>1, <1>3, <1>4, <1>5, ResultsFrame

(* A failure is on its way to the results, not yet on record. *)
LEMMA ValidateKeeps == ASSUME IInv, NEW v \in Validator, Validate(v) PROVE IInv'
<1>. USE DEF IInv, Validate
<1>1. PICK d \in {"pass", "fail"} :
        /\ verdict' = [verdict EXCEPT ![v] = d]
        /\ pc' = [pc EXCEPT ![v] = IF d = "fail" THEN "lock" ELSE "release"]
  OBVIOUS
<1>. DEFINE x == IF d = "fail" THEN "lock" ELSE "release"
<1>2. TypeOK'
  BY <1>1 DEF TypeOK
<1>3. x \in Place /\ x \in InPool /\ x \notin {"none", "over"} /\ pc' = [pc EXCEPT ![v] = x]
  BY <1>1 DEF Place, InPool
<1>4. LoopInv' /\ StartedInv'
  BY <1>3, MovesOn
<1>5. MutexInv'
  BY <1>1 DEF TypeOK, MutexInv
<1>6. Several /\ verdict[v] = "unknown"
  BY DEF StartedInv, VerdictInv
<1>7. VerdictInv'
  BY <1>1, <1>6 DEF TypeOK, VerdictInv, Several
<1>8. Recorded' = Recorded
  BY <1>1, <1>6 DEF TypeOK, Recorded
<1>9. HeldInv' /\ CountInv' /\ ReturnedInv'
  BY <1>3, CountsStay DEF InPool
<1>. QED
  BY <1>2, <1>4, <1>5, <1>7, <1>8, <1>9, ResultsFrame

(* Only one goroutine is between Lock and the release of the mutex. *)
LEMMA LockKeeps == ASSUME IInv, NEW v \in Validator, Lock(v) PROVE IInv'
<1>. USE DEF IInv, Lock
<1>1. TypeOK'
  BY DEF TypeOK
<1>2. LoopInv' /\ StartedInv'
  BY MovesOn DEF Place
<1>3. MutexInv'
  BY PoolAssumption DEF TypeOK, MutexInv
<1>4. VerdictInv' /\ Recorded' = Recorded
  BY DEF TypeOK, VerdictInv, Recorded, Several
<1>5. HeldInv' /\ CountInv' /\ ReturnedInv'
  BY CountsStay DEF Place, InPool
<1>. QED
  BY <1>1, <1>2, <1>3, <1>4, <1>5, ResultsFrame

(* What the holder of the mutex has read of the results stays true of them. *)
LEMMA ReadKeeps == ASSUME IInv, NEW v \in Validator, Read(v) PROVE IInv'
<1>. USE DEF IInv, Read
<1>1. TypeOK'
  BY DEF TypeOK
<1>2. LoopInv' /\ StartedInv'
  BY MovesOn DEF Place
<1>3. MutexInv'
  BY DEF TypeOK, MutexInv
<1>4. VerdictInv' /\ Recorded' = Recorded
  BY DEF TypeOK, VerdictInv, Recorded, Several
<1>5. HeldInv' /\ CountInv' /\ ReturnedInv'
  BY CountsStay DEF Place, InPool
<1>6. ResultsInv'
  <2>1. results' = results
    OBVIOUS
  <2>. QED
    BY <1>4, <2>1, ResultsFrame
<1>. QED
  BY <1>1, <1>2, <1>3, <1>4, <1>5, <1>6

(* The longer slice holds all there was: nothing was appended in between. *)
LEMMA StoreKeeps == ASSUME IInv, NEW v \in Validator, Store(v) PROVE IInv'
<1>. USE DEF IInv, Store
<1>1. results \in Seq(Validator) /\ results' = Append(results, v)
  BY DEF TypeOK, MutexInv
<1>2. {results'[i] : i \in DOMAIN results'} = {results[i] : i \in DOMAIN results} \cup {v}
  <2>. HIDE DEF IInv, Store
  <2>. QED
    BY <1>1, AppendNames
<1>3. TypeOK'
  BY <1>1, AppendNames DEF TypeOK
<1>4. LoopInv' /\ StartedInv'
  BY MovesOn DEF Place
<1>5. MutexInv'
  BY PoolAssumption DEF TypeOK, MutexInv
<1>6. verdict[v] = "fail"
  BY DEF StartedInv, VerdictInv
<1>7. VerdictInv'
  BY <1>6 DEF TypeOK, VerdictInv, Several
<1>8. ResultsInv'
  <2>1. Recorded' = Recorded \cup {v}
    BY <1>6 DEF Recorded, TypeOK
  <2>. QED
    BY <1>2, <2>1 DEF ResultsInv
<1>9. HeldInv' /\ CountInv' /\ ReturnedInv'
  BY CountsStay DEF Place, InPool
<1>. QED
  BY <1>3, <1>4, <1>5, <1>7, <1>8, <1>9

(* The permit given back is one the goroutine had. *)
LEMMA ReleaseKeeps == ASSUME IInv, NEW v \in Validator, Release(v) PROVE IInv'
<1>. USE DEF IInv, Release
<1>. DEFINE k == Category[v]
<1>1. k \in Pool /\ \A c \in Pool : PoolSize[c] \in Nat /\ held[c] \in Nat
  BY PoolAssumption DEF TypeOK
<1>2. Holders(k)' = Holders(k) \ {v} /\ v \in Holders(k)
  BY DEF TypeOK, Holders, Inside
<1>3. /\ Cardinality(Holders(k)') = Cardinality(Holders(k)) - 1
      /\ Cardinality(Holders(k)') \in Nat
  <2>1. IsFiniteSet(Holders(k)) /\ IsFiniteSet(Holders(k)')
    BY <1>1, <1>2, FinitelyMany, FS_RemoveElement
  <2>. QED
    BY <1>2, <2>1, FS_RemoveElement, FS_CardinalityType
<1>4. held'[k] = held[k] - 1 /\ \A c \in Pool : c # k => held'[c] = held[c]
  BY <1>1 DEF TypeOK
<1>5. held'[k] = Cardinality(Holders(k)') /\ held'[k] \in Nat /\ held'[k] <= PoolSize[k]
  BY <1>1, <1>3, <1>4 DEF HeldInv
<1>6. HeldInv'
  <2>1. ASSUME NEW c \in Pool, c # k PROVE Holders(c)' = Holders(c)
    BY <2>1 DEF TypeOK, Holders, Inside
  <2>. QED
    BY <1>4, <1>5, <2>1 DEF HeldInv
<1>7. TypeOK'
  BY <1>1, <1>4, <1>5 DEF TypeOK
<1>8. LoopInv' /\ StartedInv'
  BY MovesOn DEF Place
<1>9. MutexInv' /\ VerdictInv' /\ Recorded' = Recorded
  BY DEF TypeOK, MutexInv, VerdictInv, Recorded, Several
<1>10. Alive' = Alive
  BY StaysAlive DEF Place
<1>. QED
  BY <1>6, <1>7, <1>8, <1>9, <1>10, ResultsFrame DEF CountInv, ReturnedInv

(* The wait group hears of each goroutine once. *)
LEMMA DoneKeeps == ASSUME IInv, NEW v \in Validator, Done(v) PROVE IInv'
<1>. USE DEF IInv, Done
<1>1. Alive' = Alive \ {v} /\ v \in Alive
  BY DEF TypeOK, Alive
<1>2. Cardinality(Alive') = Cardinality(Alive) - 1 /\ Cardinality(Alive') \in Nat
  <2>1. IsFiniteSet(Alive) /\ IsFiniteSet(Alive')
    BY <1>1, FinitelyMany, FS_RemoveElement
  <2>. QED
    BY <1>1, <2>1, FS_RemoveElement, FS_CardinalityType
<1>3. CountInv' /\ pending' \in Nat
  BY <1>2 DEF CountInv
<1>4. TypeOK'
  BY <1>3 DEF TypeOK
<1>5. LoopInv' /\ StartedInv'
  BY MovesOn DEF Place
<1>6. MutexInv' /\ VerdictInv' /\ Recorded' = Recorded
  BY DEF TypeOK, MutexInv, VerdictInv, Recorded, Several
<1>7. HeldInv'
  BY StaysInPool DEF Place, InPool
<1>8. ReturnedInv'
  BY <1>1 DEF ReturnedInv
<1>. QED
  BY <1>3, <1>4, <1>5, <1>6, <1>7, <1>8, ResultsFrame

-----------------------------------------------------------------------------
\* The inductive invariant

(* Before the first step nobody runs, and nothing is counted. *)
LEMMA InitEstablishes == Init => IInv
<1>. SUFFICES ASSUME Init PROVE IInv
  OBVIOUS
<1>. USE DEF Init
<1>1. Alive = {} /\ \A c \in Pool : Holders(c) = {}
  BY DEF Alive, Holders, Inside
<1>2. TypeOK
  <2>1. cancelled \in BOOLEAN
    BY PoolAssumption
  <2>2. at \in 1 .. n + 1 /\ <<>> \in Seq(Validator)
    BY PoolAssumption
  <2>. QED
    BY <2>1, <2>2 DEF TypeOK
<1>3. LoopInv /\ StartedInv /\ ReturnedInv
  BY DEF LoopInv, StartedInv, ReturnedInv, Several
<1>4. MutexInv
  BY PoolAssumption DEF MutexInv
<1>5. VerdictInv
  BY PoolAssumption DEF VerdictInv, Several, Validator
<1>6. HeldInv /\ CountInv
  <2>1. Cardinality(Alive) = 0 /\ \A c \in Pool : Cardinality(Holders(c)) = 0
    BY <1>1, FS_EmptySet
  <2>2. \A c \in Pool : held[c] = 0 /\ 0 <= PoolSize[c]
    BY PoolAssumption
  <2>. QED
    BY <2>1, <2>2 DEF HeldInv, CountInv
<1>7. ResultsInv
  <2>1. {results[i] : i \in DOMAIN results} = {}
    OBVIOUS
  <2>. QED
    BY <2>1 DEF ResultsInv, Recorded
<1>. QED
  BY <1>2, <1>3, <1>4, <1>5, <1>6, <1>7 DEF IInv

(* Every step of the caller, of a goroutine and of the context keeps it. *)
LEMMA NextKeeps == IInv /\ [Next]_vars => IInv'
<1>. SUFFICES ASSUME IInv, [Next]_vars PROVE IInv'
  OBVIOUS
<1>1. CASE Cancel
  BY <1>1, CancelKeeps
<1>2. CASE Caller
  BY <1>2, SelectKeeps, RunNextKeeps, ReturnEmptyKeeps, RunSingleKeeps, SpawnKeeps,
     ReturnKeeps DEF Caller
<1>3. ASSUME NEW v \in Validator, Goroutine(v) PROVE IInv'
  BY <1>3, AcquireKeeps, GiveUpKeeps, CheckKeeps, ValidateKeeps, LockKeeps, ReadKeeps,
     StoreKeeps, ReleaseKeeps, DoneKeeps DEF Goroutine
<1>4. CASE UNCHANGED vars
  <2>. USE <1>4 DEF vars, IInv
  <2>1. HeldInv' /\ CountInv' /\ Alive' = Alive
    BY CountsFrame
  <2>2. TypeOK' /\ LoopInv' /\ StartedInv' /\ MutexInv' /\ VerdictInv'
    BY DEF TypeOK, LoopInv, StartedInv, MutexInv, VerdictInv, Several
  <2>3. ResultsInv' /\ ReturnedInv'
    BY <2>1, ResultsFrame DEF Recorded, ReturnedInv
  <2>. QED
    BY <2>1, <2>2, <2>3
<1>. QED
  BY <1>1, <1>2, <1>3, <1>4 DEF Next

(* The invariant holds in every state of an execution. *)
LEMMA AlwaysIInv == Spec => []IInv
  BY InitEstablishes, NextKeeps, PTL DEF Spec

(* Every variable of the two executors keeps its type: the wait group never *)
(* goes below zero, nor do the permits given out.                           *)
THEOREM TypeCorrect == Spec => []TypeOK
<1>1. IInv => TypeOK
  BY DEF IInv
<1>. QED
  BY <1>1, AlwaysIInv, PTL

(* No pool gives out more permits than it has, and every permit given out   *)
(* is held by a goroutine that will give it back.                           *)
THEOREM PoolsAlwaysBounded == Spec => []PoolsBounded
<1>1. IInv => PoolsBounded
  BY PoolsAsHeld DEF IInv
<1>. QED
  BY <1>1, AlwaysIInv, PTL

(* When Execute has returned, no goroutine of it is left and every permit   *)
(* is back.                                                                 *)
THEOREM NothingLeftBehind == Spec => []QuietAfterReturn
<1>1. IInv => QuietAfterReturn
  <2>. SUFFICES ASSUME IInv, caller = "returned" PROVE
         /\ \A v \in Validator : pc[v] \in {"none", "over"}
         /\ \A c \in Pool : held[c] = 0
    BY DEF QuietAfterReturn
  <2>1. \A v \in Validator : pc[v] \in {"none", "over"}
    BY DEF IInv, ReturnedInv, Alive
  <2>2. \A c \in Pool : Holders(c) = {}
    BY <2>1 DEF Holders, Inside
  <2>. QED
    BY <2>1, <2>2, FS_EmptySet DEF IInv, HeldInv
<1>. QED
  BY <1>1, AlwaysIInv, PTL

-----------------------------------------------------------------------------
\* Both executors implement Execution

Names == {results[i] : i \in DOMAIN results}
Answer == IF caller = "returned" THEN Names ELSE NoReply

(* The validators the results name are validators, so Execute's answer is   *)
(* never mistaken for no answer.                                            *)
LEMMA NamesAnswer == IInv => Names \in SUBSET Validator /\ Names # NoReply
  BY ReplyAssumption DEF IInv, ResultsInv, Recorded, Names

(* At the return the results name failing validators only; with the context *)
(* not cancelled they name all of them, and everyone was asked.             *)
LEMMA ReturnsTheReply ==
  ASSUME IInv, caller # "returned", caller' = "returned", Next
  PROVE  /\ UNCHANGED <<n, verdict, cancelled, results>>
         /\ Names = Contract!Failing
         /\ ~cancelled => \A v \in 1 .. n : verdict[v] # "unknown"
<1>. USE DEF IInv
<1>1. Select \/ ReturnEmpty \/ Return
  BY DEF Next, Cancel, Caller, RunNext, RunSingle, Spawn, Goroutine, Acquire, GiveUp,
         Check, Validate, Lock, Read, Store, Release, Done
<1>2. UNCHANGED <<n, verdict, cancelled, results>>
  BY <1>1 DEF Select, ReturnEmpty, Return
<1>3. \A v \in Validator : pc[v] \in {"none", "over"}
  <2>1. CASE Select \/ ReturnEmpty
    BY <2>1 DEF Select, ReturnEmpty, StartedInv, Several, TypeOK
  <2>2. CASE Return
    BY <2>2, FinitelyMany, FS_EmptySet DEF Return, CountInv, Alive
  <2>. QED
    BY <1>1, <2>1, <2>2
<1>4. Names = Contract!Failing
  BY <1>3 DEF Names, ResultsInv, Recorded, Contract!Failing
<1>5. ASSUME ~cancelled, NEW v \in 1 .. n PROVE verdict[v] # "unknown"
  <2>1. v \in Validator /\ n \in Nat /\ v <= n
    BY <1>5, PoolAssumption DEF TypeOK, Validator
  <2>2. CASE Select
    BY <1>5, <2>1, <2>2 DEF Select, VerdictInv, TypeOK
  <2>3. CASE ReturnEmpty
    BY <2>1, <2>3 DEF ReturnEmpty
  <2>4. CASE Return
    BY <1>3, <1>5, <2>1, <2>4 DEF Return, LoopInv, StartedInv, VerdictInv, Several, TypeOK
  <2>. QED
    BY <1>1, <2>2, <2>3, <2>4
<1>. QED
  BY <1>2, <1>4, <1>5

(* Before the first step, Execute has been called and has answered nothing. *)
LEMMA InitRefines == Init => Contract!Init
<1>. SUFFICES ASSUME Init PROVE Contract!Init
  OBVIOUS
<1>1. 1 .. n \in SUBSET Validator
  BY PoolAssumption DEF Init, Validator
<1>2. cancelled \in BOOLEAN
  BY PoolAssumption DEF Init
<1>. QED
  BY <1>1, <1>2 DEF Init, Contract!Init

(* A step that judges nobody and keeps Execute's answer is a stutter.       *)
LEMMA StuttersUnseen ==
  ASSUME UNCHANGED <<n, caller, verdict, cancelled>>, caller = "returned" => results' = results
  PROVE  UNCHANGED Contract!evars
  BY DEF Contract!evars

(* So is a move of the caller while Execute runs.                           *)
LEMMA CallerUnseen ==
  ASSUME UNCHANGED <<n, verdict, cancelled>>, caller # "returned", caller' # "returned"
  PROVE  UNCHANGED Contract!evars
  BY DEF Contract!evars

(* A validator that is judged while Execute runs is one of the asked, and   *)
(* is judged for the first time.                                            *)
LEMMA JudgesOnce ==
  ASSUME IInv, caller # "returned", caller' # "returned", UNCHANGED <<n, cancelled>>,
         NEW v \in Validator, v <= n, verdict[v] = "unknown",
         NEW d \in {"pass", "fail"}, verdict' = [verdict EXCEPT ![v] = d]
  PROVE  Contract!Judge(v)
<1>1. v \in 1 .. n
  BY PoolAssumption DEF IInv, TypeOK, Validator
<1>. QED
  BY <1>1 DEF Contract!Judge

(* The step of the caller that returns is the reply.                        *)
LEMMA ReturnRefines ==
  ASSUME IInv, caller # "returned", caller' = "returned", Next
  PROVE  Contract!Reply
<1>1. Names' = Names
  BY ReturnsTheReply DEF Names
<1>2. Names # NoReply
  BY NamesAnswer
<1>. QED
  BY <1>1, <1>2, ReturnsTheReply DEF Contract!Reply, Names

(* Every step of the executors cancels, judges, replies, or is nothing the  *)
(* dispatcher could tell.                                                   *)
LEMMA StepRefines == IInv /\ [Next]_vars => [Contract!Next]_(Contract!evars)
<1>. SUFFICES ASSUME IInv, [Next]_vars PROVE [Contract!Next]_(Contract!evars)
  OBVIOUS
<1>1. CASE UNCHANGED vars
  BY <1>1, StuttersUnseen DEF vars
<1>2. CASE Cancel
  BY <1>2 DEF Cancel, Contract!Next, Contract!Cancel
<1>3. CASE Select \/ ReturnEmpty \/ Return
  <2>1. caller # "returned" /\ UNCHANGED <<n, verdict, cancelled>> /\ Next
    BY <1>3 DEF Select, ReturnEmpty, Return, Next, Caller
  <2>2. CASE caller' = "returned"
    BY <2>1, <2>2, ReturnRefines DEF Contract!Next
  <2>3. CASE caller' # "returned"
    BY <2>1, <2>3, CallerUnseen
  <2>. QED
    BY <2>2, <2>3
<1>4. CASE RunNext
  <2>1. caller # "returned" /\ caller' # "returned" /\ UNCHANGED <<n, cancelled>>
    BY <1>4 DEF RunNext
  <2>2. at \in Validator /\ at <= n /\ verdict[at] = "unknown"
    BY <1>4, PoolAssumption DEF RunNext, IInv, TypeOK, LoopInv, VerdictInv, Validator
  <2>3. PICK d \in {"pass", "fail"} : verdict' = [verdict EXCEPT ![at] = d]
    BY <1>4 DEF RunNext
  <2>. QED
    BY <2>1, <2>2, <2>3, JudgesOnce DEF Contract!Next
<1>5. CASE RunSingle
  <2>1. caller # "returned" /\ caller' # "returned" /\ UNCHANGED <<n, cancelled>>
    BY <1>5 DEF RunSingle
  <2>2. 1 \in Validator /\ 1 <= n /\ verdict[1] = "unknown"
    BY <1>5, PoolAssumption DEF RunSingle, IInv, TypeOK, VerdictInv, Validator
  <2>3. PICK d \in {"pass", "fail"} : verdict' = [verdict EXCEPT ![1] = d]
    BY <1>5 DEF RunSingle
  <2>. QED
    BY <2>1, <2>2, <2>3, JudgesOnce DEF Contract!Next
<1>6. CASE Spawn
  BY <1>6, CallerUnseen DEF Spawn
<1>7. ASSUME NEW v \in Validator, Goroutine(v) PROVE [Contract!Next]_(Contract!evars)
  <2>1. caller # "returned" /\ Several /\ v <= n
    <3>1. pc[v] \notin {"none", "over"}
      BY <1>7 DEF Goroutine, Acquire, GiveUp, Check, Validate, Lock, Read, Store, Release, Done
    <3>2. caller # "returned" /\ Several /\ v < at
      BY <3>1 DEF IInv, ReturnedInv, Alive, StartedInv
    <3>3. at <= n + 1 /\ at \in Int /\ n \in Int /\ v \in Int
      BY PoolAssumption DEF IInv, TypeOK, Validator
    <3>. QED
      BY <3>2, <3>3
  <2>2. CASE Validate(v)
    <3>1. caller' # "returned" /\ UNCHANGED <<n, cancelled>>
      BY <2>1, <2>2 DEF Validate
    <3>2. verdict[v] = "unknown"
      BY <2>1, <2>2 DEF Validate, IInv, VerdictInv
    <3>3. PICK d \in {"pass", "fail"} : verdict' = [verdict EXCEPT ![v] = d]
      BY <2>2 DEF Validate
    <3>. QED
      BY <2>1, <3>1, <3>2, <3>3, JudgesOnce DEF Contract!Next
  <2>3. CASE ~Validate(v)
    <3>1. UNCHANGED <<n, caller, verdict, cancelled>>
      BY <1>7, <2>3 DEF Goroutine, Acquire, GiveUp, Check, Lock, Read, Store, Release, Done
    <3>. QED
      BY <2>1, <3>1, StuttersUnseen
  <2>. QED
    BY <2>2, <2>3
<1>. QED
  BY <1>1, <1>2, <1>3, <1>4, <1>5, <1>6, <1>7 DEF Next, Caller

(* Both executors implement the dispatcher's view of them: every validator  *)
(* asked is judged at most once and while Execute runs, and the answer is   *)
(* exactly the failing ones unless the context was cancelled, whatever the  *)
(* number of validators, the pools and the interleaving.                    *)
THEOREM ExecutorsImplementExecution == Spec => Implements
<1>1. Spec => Contract!Init
  BY InitRefines, PTL DEF Spec
<1>2. Spec => [][Contract!Next]_(Contract!evars)
  BY StepRefines, AlwaysIInv, PTL DEF Spec
<1>. QED
  BY <1>1, <1>2, PTL DEF Implements, Contract!Spec

=============================================================================
